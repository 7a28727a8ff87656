---------------------------- MODULE DevicePairing ----------------------------
(***************************************************************************)
(* One pairing code: two Redis keys with a TTL, the record of the pairing  *)
(* and the index from what the user types, and requests that redeem the    *)
(* code while its owner cancels it.  Each action is one Redis command or   *)
(* one database transaction of a request.                                  *)
(***************************************************************************)
EXTENDS Integers, FiniteSets

CONSTANTS
  Redeemers,     \* requests to redeem the code
  NameRetries    \* _DEVICE_NAME_RETRIES

ASSUME PairingAssumption == IsFiniteSet(Redeemers) /\ NameRetries \in Nat \ {0}

VARIABLES
  record,     \* the pairing record in Redis
  index,      \* the index key exists
  lasting,    \* the record was written without an expiry
  redeemer,   \* the requests: program counter and attempts to insert the device
  devices,    \* the requests that created a device
  dead,       \* history: the code was cancelled or had expired
  revived     \* history: a failed redeem wrote the record of a code that was dead

pairingVars == <<record, index, lasting, redeemer, devices, dead, revived>>

PairingTypeOK ==
  /\ record \in {"none", "pending", "redeemed"}
  /\ redeemer \in [Redeemers ->
       [pc : {"idle", "found", "loaded", "claimed", "release", "report", "end"},
        attempts : 0..NameRetries]]
  /\ devices \subseteq Redeemers
  /\ {index, lasting, dead, revived} \subseteq BOOLEAN

RedeemerAt(r, pc) == redeemer[r].pc = pc

RedeemerGoes(r, pc) == redeemer' = [redeemer EXCEPT ![r].pc = pc]

-----------------------------------------------------------------------------
\* The index leads to the record.
FindCode(r) ==
  /\ RedeemerAt(r, "idle")
  /\ RedeemerGoes(r, IF index THEN "found" ELSE "end")
  /\ UNCHANGED <<record, index, lasting, devices, dead, revived>>

\* _load_pairing: the record is still pending.
LoadCode(r) ==
  /\ RedeemerAt(r, "found")
  /\ RedeemerGoes(r, IF record = "pending" THEN "loaded" ELSE "end")
  /\ UNCHANGED <<record, index, lasting, devices, dead, revived>>

\* Mutant: the script takes the record in any state.
Redeemable_any == record # "none"

\* The test of the Lua script.
Redeemable == record = "pending"

\* _claim_pairing: the script flips the record and keeps its TTL.
ClaimCode(r) ==
  /\ RedeemerAt(r, "loaded")
  /\ record' = IF Redeemable THEN "redeemed" ELSE record
  /\ RedeemerGoes(r, IF Redeemable THEN "claimed" ELSE "end")
  /\ UNCHANGED <<index, lasting, devices, dead, revived>>

\* The public key cannot be read: 400, and the claim stays taken.
BadKey(r) ==
  /\ RedeemerAt(r, "claimed")
  /\ redeemer[r].attempts = 0
  /\ RedeemerGoes(r, "end")
  /\ UNCHANGED <<record, index, lasting, devices, dead, revived>>

\* The transaction of the device and its tool commits.
CreateDevice(r) ==
  /\ RedeemerAt(r, "claimed")
  /\ devices' = devices \cup {r}
  /\ RedeemerGoes(r, "report")
  /\ UNCHANGED <<record, index, lasting, dead, revived>>

\* Mutant: one try too many.
NameTaken_onceMore(r) ==
  /\ RedeemerAt(r, "claimed")
  /\ redeemer' = [redeemer EXCEPT ![r].attempts = @ + 1,
                    ![r].pc = IF redeemer[r].attempts > NameRetries
                                THEN "release" ELSE @]
  /\ UNCHANGED <<record, index, lasting, devices, dead, revived>>

\* The name is taken: try another one, and give up after NameRetries.
NameTaken(r) ==
  /\ RedeemerAt(r, "claimed")
  /\ redeemer' = [redeemer EXCEPT ![r].attempts = @ + 1,
                    ![r].pc = IF redeemer[r].attempts + 1 = NameRetries
                                THEN "release" ELSE @]
  /\ UNCHANGED <<record, index, lasting, devices, dead, revived>>

\* The insert fails for another reason.
CreateFails(r) ==
  /\ RedeemerAt(r, "claimed")
  /\ RedeemerGoes(r, "release")
  /\ UNCHANGED <<record, index, lasting, devices, dead, revived>>

\* _release_claim: pending again with the TTL that is left; a record that is gone
\* has none, and is written without an expiry.
ReleaseCode(r) ==
  /\ RedeemerAt(r, "release")
  /\ record' = "pending"
  /\ index' = TRUE
  /\ lasting' = (lasting \/ record = "none")
  /\ revived' = (revived \/ record = "none")
  /\ RedeemerGoes(r, "end")
  /\ UNCHANGED <<devices, dead>>

\* The record is rewritten with the device for 300 s, and the index deleted.
ReportDevice(r) ==
  /\ RedeemerAt(r, "report")
  /\ record' = "redeemed"
  /\ index' = FALSE
  /\ lasting' = FALSE
  /\ RedeemerGoes(r, "end")
  /\ UNCHANGED <<devices, dead, revived>>

\* The request dies, or Redis does not answer it.
RedeemerDies(r) ==
  /\ redeemer[r].pc \notin {"idle", "end"}
  /\ RedeemerGoes(r, "end")
  /\ UNCHANGED <<record, index, lasting, devices, dead, revived>>

\* delete_pairing: the owner cancels the code, redeemed or not.
CancelCode ==
  /\ record # "none"
  /\ record' = "none"
  /\ index' = FALSE
  /\ lasting' = FALSE
  /\ dead' = TRUE
  /\ UNCHANGED <<redeemer, devices, revived>>

\* The TTL of the keys passes.
CodeExpires ==
  /\ record # "none"
  /\ ~lasting
  /\ record' = "none"
  /\ index' = FALSE
  /\ dead' = TRUE
  /\ UNCHANGED <<lasting, redeemer, devices, revived>>

\* create_pairing has answered.
PairingInit ==
  /\ record = "pending"
  /\ index = TRUE
  /\ lasting = FALSE
  /\ redeemer = [r \in Redeemers |-> [pc |-> "idle", attempts |-> 0]]
  /\ devices = {}
  /\ dead = FALSE
  /\ revived = FALSE

RedeemStep(r) ==
  \/ FindCode(r) \/ LoadCode(r) \/ ClaimCode(r)
  \/ BadKey(r) \/ CreateDevice(r) \/ NameTaken(r) \/ CreateFails(r)
  \/ ReleaseCode(r) \/ ReportDevice(r) \/ RedeemerDies(r)

PairingNext == (\E r \in Redeemers : RedeemStep(r)) \/ CancelCode \/ CodeExpires

PairingSpec == PairingInit /\ [][PairingNext]_pairingVars

-----------------------------------------------------------------------------
(* Properties.                                                              *)

\* Between its claim and its report or release, or for ever after it created the
\* device, one request owns the code.
Owner(r) == r \in devices \/ redeemer[r].pc \in {"claimed", "release", "report"}

\* A one-time code pairs at most one device, however its redeems race, fail and die.
OneDevicePerCode == \A r1, r2 \in Redeemers : Owner(r1) /\ Owner(r2) => r1 = r2

\* A code that was cancelled or has expired cannot be redeemed again, unless a redeem
\* that failed after the end of the code handed it back.
DeadStaysDead == dead /\ record = "pending" => revived

PairingSafe == OneDevicePerCode /\ DeadStaysDead
=============================================================================
