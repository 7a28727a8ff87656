----------------------------- MODULE ServiceProofs -----------------------------
(***************************************************************************)
(* Theorems about services that share nothing: a pairing code              *)
(* (DevicePairing), for any number of requests that redeem it and any      *)
(* number of tries for a name; an idempotency key (CompletionKey), for any *)
(* number of requests that carry it; the commands to a device              *)
(* (DeviceBroker), for any number of calls, connections and chunks; the    *)
(* events of a user (UserEvents), for any number of events, tabs and       *)
(* faults, and any lengths of the backlog and of a replay; the kernels of  *)
(* the sandbox (SandboxManager), for any threads, sessions and kernels and *)
(* any cap of the registry.                                                *)
(***************************************************************************)
EXTENDS DevicePairing, CompletionKey, DeviceBroker, UserEvents, SandboxManager,
        FiniteSetTheorems, SequenceTheorems, TLAPS

-----------------------------------------------------------------------------
(* DevicePairing.                                                           *)

Places == {"idle", "found", "loaded", "claimed", "release", "report", "end"}

\* A request keeps its type when it goes on, and the others do not move.
LEMMA GoesOn ==
  ASSUME PairingTypeOK, NEW r \in Redeemers, NEW p \in Places, RedeemerGoes(r, p)
  PROVE  /\ redeemer' \in [Redeemers -> [pc : Places, attempts : 0..NameRetries]]
         /\ redeemer'[r].pc = p
         /\ \A q \in Redeemers : q # r => redeemer'[q] = redeemer[q]
BY DEF PairingTypeOK, RedeemerGoes, Places

\* A try that found its name taken.
LEMMA NameTakenEffect ==
  ASSUME PairingTypeOK, NEW r \in Redeemers, NameTaken(r),
         redeemer[r].attempts < NameRetries
  PROVE  /\ redeemer' \in [Redeemers -> [pc : Places, attempts : 0..NameRetries]]
         /\ redeemer'[r].pc \in {"claimed", "release"}
         /\ redeemer'[r].pc = "claimed" => redeemer'[r].attempts < NameRetries
         /\ \A q \in Redeemers : q # r => redeemer'[q] = redeemer[q]
<1>1. /\ redeemer[r].attempts \in 0..NameRetries /\ NameRetries \in Nat
      /\ redeemer \in [Redeemers -> [pc : Places, attempts : 0..NameRetries]]
      /\ redeemer[r].pc = "claimed"
  BY PairingAssumption DEF PairingTypeOK, Places, NameTaken, RedeemerAt
<1> DEFINE next == IF redeemer[r].attempts + 1 = NameRetries THEN "release" ELSE "claimed"
<1>2. redeemer' = [redeemer EXCEPT ![r] =
                     [redeemer[r] EXCEPT !.attempts = @ + 1, !.pc = next]]
  BY <1>1 DEF NameTaken
<1>3. redeemer[r].attempts + 1 \in 0..NameRetries
  BY <1>1
<1>4. [redeemer[r] EXCEPT !.attempts = @ + 1, !.pc = next]
        \in [pc : Places, attempts : 0..NameRetries]
  BY <1>1, <1>3 DEF Places
<1>5. redeemer'[r].pc = next /\ redeemer'[r].attempts = redeemer[r].attempts + 1
  BY <1>1, <1>2
<1> QED
  BY <1>1, <1>2, <1>3, <1>4, <1>5

-----------------------------------------------------------------------------
(* The inductive invariant.  One request owns the code at a time because    *)
(* the record is not pending while it is owned.  A code that is over and    *)
(* still has a record was reported by a request that created its device,    *)
(* and which owns the code for ever.                                        *)

PairingInv ==
  /\ PairingTypeOK
  /\ \A r \in Redeemers :
       redeemer[r].pc \in {"idle", "found", "loaded", "claimed"} =>
         redeemer[r].attempts < NameRetries
  /\ \A r \in devices : redeemer[r].pc \in {"report", "end"}
  /\ \A r \in Redeemers : RedeemerAt(r, "report") => r \in devices
  /\ \A r \in Redeemers : Owner(r) => record # "pending"
  /\ OneDevicePerCode
  /\ dead /\ ~revived /\ record # "none" =>
       record = "redeemed" /\ \E r \in devices : RedeemerAt(r, "end")

\* Every request starts idle and no device is paired.
LEMMA PairingInitInv == PairingInit => PairingInv
<1> SUFFICES ASSUME PairingInit PROVE PairingInv
  OBVIOUS
<1>1. 0 \in 0..NameRetries /\ 0 < NameRetries
  BY PairingAssumption
<1>2. PairingTypeOK
  BY <1>1 DEF PairingInit, PairingTypeOK
<1>3. \A r \in Redeemers : redeemer[r].pc = "idle"
  BY DEF PairingInit
<1> QED
  BY <1>1, <1>2, <1>3
  DEF PairingInit, PairingInv, RedeemerAt, Owner, OneDevicePerCode

\* A request moves between places where it does not own the code, or gives it up; the
\* record stays as it is.
LEMMA Elsewhere ==
  ASSUME PairingInv, NEW r \in Redeemers, NEW p \in Places, RedeemerGoes(r, p),
         UNCHANGED <<record, index, lasting, devices, dead, revived>>,
         p \in {"idle", "found", "loaded", "claimed"} =>
           redeemer[r].pc \in {"idle", "found", "loaded"} /\ p # "claimed",
         p = "release" => Owner(r),
         p # "report",
         p # "end" => r \notin devices,
         ~RedeemerAt(r, "end")
  PROVE  PairingInv'
<1>1. PairingTypeOK
  BY DEF PairingInv
<1>2. /\ redeemer' \in [Redeemers -> [pc : Places, attempts : 0..NameRetries]]
      /\ redeemer'[r].pc = p
      /\ \A q \in Redeemers : q # r => redeemer'[q] = redeemer[q]
  BY <1>1, GoesOn
<1>6. redeemer'[r].attempts = redeemer[r].attempts
  BY <1>1 DEF PairingTypeOK, RedeemerGoes
<1>3. PairingTypeOK'
  BY <1>1, <1>2 DEF PairingTypeOK, Places
<1>4. \A q \in Redeemers :
        q \in devices' \/ redeemer'[q].pc \in {"claimed", "release", "report"} => Owner(q)
  BY <1>2 DEF Owner, RedeemerAt
<1>5. devices \subseteq Redeemers
  BY <1>1 DEF PairingTypeOK
<1>7. \A q \in Redeemers :
        redeemer'[q].pc \in {"idle", "found", "loaded", "claimed"} =>
          redeemer'[q].attempts < NameRetries
  BY <1>2, <1>6 DEF PairingInv
<1>8. \A q \in devices : redeemer'[q].pc \in {"report", "end"}
  BY <1>2, <1>5 DEF PairingInv
<1>9. \A q \in devices : RedeemerAt(q, "end") => redeemer'[q].pc = "end"
  BY <1>2, <1>5 DEF RedeemerAt
<1>12. \A q \in Redeemers : redeemer'[q].pc = "report" => q \in devices
  BY <1>2 DEF PairingInv, RedeemerAt
<1>10. \A q \in Redeemers : Owner(q)' => Owner(q)
  BY <1>4 DEF Owner
<1>11. OneDevicePerCode'
  BY <1>10 DEF PairingInv, OneDevicePerCode
<1> QED
  BY <1>3, <1>7, <1>8, <1>9, <1>10, <1>11, <1>12 DEF PairingInv, RedeemerAt

\* A step of r after which r owns the code, when nobody else does before it or r did.
LEMMA OwnerGoesOn ==
  ASSUME PairingInv, NEW r \in Redeemers,
         redeemer' \in [Redeemers -> [pc : Places, attempts : 0..NameRetries]],
         \A q \in Redeemers : q # r => redeemer'[q] = redeemer[q],
         redeemer'[r].pc = "claimed" => redeemer'[r].attempts < NameRetries,
         redeemer'[r].pc \in {"claimed", "release", "report", "end"},
         Owner(r) \/ \A q \in Redeemers : ~Owner(q),
         devices' = devices \/ (devices' = devices \cup {r} /\ redeemer'[r].pc = "report"),
         r \in devices' => redeemer'[r].pc \in {"report", "end"},
         redeemer'[r].pc = "report" => r \in devices'
  PROVE  /\ OneDevicePerCode'
         /\ \A q \in Redeemers : Owner(q)' => q = r
         /\ \A q \in Redeemers :
              redeemer'[q].pc \in {"idle", "found", "loaded", "claimed"} =>
                redeemer'[q].attempts < NameRetries
         /\ \A q \in devices' : redeemer'[q].pc \in {"report", "end"}
         /\ \A q \in Redeemers : RedeemerAt(q, "report")' => q \in devices'
<1>0. devices \subseteq Redeemers
  BY DEF PairingInv, PairingTypeOK
<1>1. ASSUME NEW q \in Redeemers, Owner(q)' PROVE q = r
  <2>1. q # r => Owner(q)
    BY <1>1 DEF Owner
  <2> QED
    BY <2>1 DEF PairingInv, OneDevicePerCode
<1>2. OneDevicePerCode'
  BY <1>1 DEF OneDevicePerCode
<1>3. \A q \in Redeemers :
        redeemer'[q].pc \in {"idle", "found", "loaded", "claimed"} =>
          redeemer'[q].attempts < NameRetries
  BY DEF PairingInv
<1>4. \A q \in devices' : redeemer'[q].pc \in {"report", "end"}
  BY <1>0 DEF PairingInv
<1>5. \A q \in Redeemers : RedeemerAt(q, "report")' => q \in devices'
  BY DEF PairingInv, RedeemerAt
<1> QED
  BY <1>1, <1>2, <1>3, <1>4, <1>5

\* Each step of a redeem, the cancel and the expiry of the code keep the invariant.
LEMMA PairingStep ==
  ASSUME PairingInv, [PairingNext]_pairingVars
  PROVE  PairingInv'
<1>0. PairingTypeOK /\ devices \subseteq Redeemers
  BY DEF PairingInv, PairingTypeOK
<1>1. ASSUME NEW r \in Redeemers, FindCode(r) \/ LoadCode(r) PROVE PairingInv'
  <2>1. r \notin devices
    BY <1>1 DEF FindCode, LoadCode, RedeemerAt, PairingInv
  <2> QED
    BY <1>1, <2>1, Elsewhere DEF FindCode, LoadCode, RedeemerAt, Places
<1>2. ASSUME NEW r \in Redeemers, ClaimCode(r) PROVE PairingInv'
  <2>1. r \notin devices /\ redeemer[r].pc = "loaded"
    BY <1>2 DEF ClaimCode, RedeemerAt, PairingInv
  <2>2. CASE ~Redeemable
    BY <1>2, <2>1, <2>2, Elsewhere DEF ClaimCode, RedeemerAt, Places
  <2>3. CASE Redeemable
    <3>1. /\ record = "pending" /\ record' = "redeemed"
          /\ RedeemerGoes(r, "claimed")
          /\ UNCHANGED <<index, lasting, devices, dead, revived>>
      BY <1>2, <2>3 DEF ClaimCode, Redeemable
    <3>2. \A q \in Redeemers : ~Owner(q)
      BY <3>1 DEF PairingInv
    <3>3. /\ redeemer' \in [Redeemers -> [pc : Places, attempts : 0..NameRetries]]
          /\ redeemer'[r].pc = "claimed"
          /\ \A q \in Redeemers : q # r => redeemer'[q] = redeemer[q]
      BY <1>0, <3>1, GoesOn DEF Places
    <3>4. redeemer'[r].attempts < NameRetries
      BY <1>0, <2>1, <3>1 DEF RedeemerGoes, PairingInv, PairingTypeOK
    <3>5. PairingTypeOK'
      BY <1>0, <3>1, <3>3 DEF PairingTypeOK, Places
    <3>6. ~(dead /\ ~revived)
      BY <3>1 DEF PairingInv
    <3> QED
      BY <2>1, <3>1, <3>2, <3>3, <3>4, <3>5, <3>6, OwnerGoesOn DEF PairingInv
  <2> QED
    BY <2>2, <2>3
<1>3. ASSUME NEW r \in Redeemers, BadKey(r) \/ CreateFails(r) PROVE PairingInv'
  <2>1. r \notin devices /\ Owner(r)
    BY <1>3 DEF BadKey, CreateFails, RedeemerAt, PairingInv, Owner
  <2> QED
    BY <1>3, <2>1, Elsewhere DEF BadKey, CreateFails, RedeemerAt, Places
<1>4. ASSUME NEW r \in Redeemers, RedeemerDies(r) PROVE PairingInv'
  BY <1>4, Elsewhere DEF RedeemerDies, RedeemerAt, Places
<1>5. ASSUME NEW r \in Redeemers, CreateDevice(r) PROVE PairingInv'
  <2>1. /\ redeemer' \in [Redeemers -> [pc : Places, attempts : 0..NameRetries]]
        /\ redeemer'[r].pc = "report"
        /\ \A q \in Redeemers : q # r => redeemer'[q] = redeemer[q]
    BY <1>0, <1>5, GoesOn DEF CreateDevice, Places
  <2>2. Owner(r) /\ devices' = devices \cup {r} /\ redeemer[r].pc = "claimed"
    BY <1>5 DEF CreateDevice, Owner, RedeemerAt
  <2>3. PairingTypeOK'
    BY <1>0, <1>5, <2>1, <2>2 DEF CreateDevice, PairingTypeOK, Places
  <2>4. /\ \A q \in Redeemers : Owner(q)' => record' # "pending"
        /\ dead' /\ ~revived' /\ record' # "none" =>
             record' = "redeemed" /\ \E q \in devices' : RedeemerAt(q, "end")'
    BY <1>0, <1>5, <2>1, <2>2 DEF CreateDevice, PairingInv, RedeemerAt
  <2> QED
    BY <2>1, <2>2, <2>3, <2>4, OwnerGoesOn DEF PairingInv
<1>6. ASSUME NEW r \in Redeemers, NameTaken(r) PROVE PairingInv'
  <2>1. /\ redeemer[r].pc = "claimed" /\ redeemer[r].attempts < NameRetries /\ Owner(r)
        /\ r \notin devices
        /\ UNCHANGED <<record, index, lasting, devices, dead, revived>>
    BY <1>6 DEF NameTaken, RedeemerAt, PairingInv, Owner
  <2>2. /\ redeemer' \in [Redeemers -> [pc : Places, attempts : 0..NameRetries]]
        /\ redeemer'[r].pc \in {"claimed", "release"}
        /\ redeemer'[r].pc = "claimed" => redeemer'[r].attempts < NameRetries
        /\ \A q \in Redeemers : q # r => redeemer'[q] = redeemer[q]
    BY <1>0, <1>6, <2>1, NameTakenEffect
  <2>3. PairingTypeOK'
    BY <1>0, <2>1, <2>2 DEF PairingTypeOK, Places
  <2>4. /\ \A q \in Redeemers : Owner(q)' => record' # "pending"
        /\ dead' /\ ~revived' /\ record' # "none" =>
             record' = "redeemed" /\ \E q \in devices' : RedeemerAt(q, "end")'
    BY <1>0, <2>1, <2>2 DEF PairingInv, RedeemerAt
  <2> QED
    BY <2>1, <2>2, <2>3, <2>4, OwnerGoesOn DEF PairingInv
<1>7. ASSUME NEW r \in Redeemers, ReleaseCode(r) PROVE PairingInv'
  <2>1. /\ redeemer' \in [Redeemers -> [pc : Places, attempts : 0..NameRetries]]
        /\ redeemer'[r].pc = "end"
        /\ \A q \in Redeemers : q # r => redeemer'[q] = redeemer[q]
    BY <1>0, <1>7, GoesOn DEF ReleaseCode, Places
  <2>2. Owner(r) /\ r \notin devices /\ redeemer[r].pc = "release"
    BY <1>7 DEF ReleaseCode, RedeemerAt, PairingInv, Owner
  <2>3. devices' = devices /\ devices = {}
    BY <1>0, <1>7, <2>2 DEF ReleaseCode, PairingInv, OneDevicePerCode, Owner
  <2>4. \A q \in Redeemers : ~Owner(q)'
    BY <1>0, <2>1, <2>2, <2>3, OwnerGoesOn DEF Owner
  <2>5. PairingTypeOK'
    BY <1>0, <1>7, <2>1 DEF ReleaseCode, PairingTypeOK, Places
  <2>6. ~(dead' /\ ~revived' /\ record' # "none")
    BY <1>7, <2>3 DEF ReleaseCode, PairingInv
  <2> QED
    BY <2>1, <2>2, <2>3, <2>4, <2>5, <2>6, OwnerGoesOn DEF PairingInv
<1>8. ASSUME NEW r \in Redeemers, ReportDevice(r) PROVE PairingInv'
  <2>1. /\ redeemer' \in [Redeemers -> [pc : Places, attempts : 0..NameRetries]]
        /\ redeemer'[r].pc = "end"
        /\ \A q \in Redeemers : q # r => redeemer'[q] = redeemer[q]
    BY <1>0, <1>8, GoesOn DEF ReportDevice, Places
  <2>2. Owner(r) /\ record' = "redeemed" /\ devices' = devices
    BY <1>8 DEF ReportDevice, RedeemerAt, Owner
  <2>3. PairingTypeOK'
    BY <1>0, <1>8, <2>1 DEF ReportDevice, PairingTypeOK, Places
  <2>4. r \in devices' /\ RedeemerAt(r, "end")'
    BY <1>8, <2>1, <2>2 DEF ReportDevice, PairingInv, RedeemerAt
  <2> QED
    BY <2>1, <2>2, <2>3, <2>4, OwnerGoesOn DEF PairingInv
<1>9. CASE CancelCode \/ CodeExpires
  <2>1. PairingTypeOK' /\ record' = "none" /\ UNCHANGED <<redeemer, devices>>
    BY <1>0, <1>9 DEF CancelCode, CodeExpires, PairingTypeOK
  <2> QED
    BY <2>1 DEF PairingInv, Owner, OneDevicePerCode, RedeemerAt
<1>10. CASE UNCHANGED pairingVars
  BY <1>10
  DEF pairingVars, PairingInv, PairingTypeOK, Owner, OneDevicePerCode, RedeemerAt
<1> QED
  BY <1>1, <1>2, <1>3, <1>4, <1>5, <1>6, <1>7, <1>8, <1>9, <1>10
  DEF PairingNext, RedeemStep

\* The invariant holds of every behaviour.
LEMMA PairingHolds == PairingSpec => []PairingInv
BY PairingInitInv, PairingStep, PTL DEF PairingSpec

\* A code pairs at most one device and, once cancelled or expired, is not redeemed
\* again unless a late redeem handed it back, however its requests race and die.
THEOREM PairingSafeHolds == PairingSpec => []PairingSafe
<1>1. PairingInv => PairingSafe
  BY DEF PairingInv, PairingSafe, DeadStaysDead
<1> QED
  BY <1>1, PairingHolds, PTL

-----------------------------------------------------------------------------
(* CompletionKey.                                                           *)

AtWork(r) == request[r] \in {"run", "finalize"}

\* A request at work owns the pending row, and an answer is about to be saved or saved.
KeyHeld ==
  /\ \A r \in Requests : AtWork(r) => claim.status = "pending" /\ claim.owner = r
  /\ \A r \in answers : claim.status = "completed" \/ request[r] = "finalize"
  /\ \A q, r \in answers : q = r

CompletionInv ==
  /\ CompletionTypeOK
  /\ claim.status = "pending" => claim.owner \in Requests
  /\ stolen \/ KeyHeld

-----------------------------------------------------------------------------
\* What Goes does to the places of the requests.
LEMMA RequestGoes ==
  ASSUME CompletionTypeOK, NEW r \in Requests,
         NEW pc \in {"idle", "look", "stale", "reclaim", "again", "recheck",
                     "run", "finalize", "release", "end"},
         Goes(r, pc)
  PROVE  /\ request' \in [Requests -> {"idle", "look", "stale", "reclaim", "again",
                            "recheck", "run", "finalize", "release", "end"}]
         /\ request'[r] = pc
         /\ \A q \in Requests : q # r => request'[q] = request[q]
BY DEF CompletionTypeOK, Goes

\* No request is at work and the key is unclaimed.
LEMMA CompletionInitInv == CompletionInit => CompletionInv
<1> SUFFICES ASSUME CompletionInit PROVE CompletionInv
  OBVIOUS
<1>1. /\ claim = [status |-> "none", owner |-> "none", stale |-> FALSE]
      /\ answers = {} /\ stolen = FALSE
      /\ request = [r \in Requests |-> "idle"]
  BY DEF CompletionInit, NoClaim
<1>2. CompletionTypeOK
  BY <1>1 DEF CompletionTypeOK
<1>3. KeyHeld
  BY <1>1 DEF KeyHeld, AtWork
<1> QED
  BY <1>1, <1>2, <1>3 DEF CompletionInv

\* A request that is not at work goes on to a place where it is not, and neither the
\* row nor the answers change.
LEMMA Idles ==
  ASSUME CompletionInv, NEW r \in Requests,
         NEW pc \in {"idle", "look", "stale", "reclaim", "again", "recheck",
                     "release", "end"},
         Goes(r, pc), ~AtWork(r), UNCHANGED <<claim, answers>>,
         stolen' \in BOOLEAN, stolen => stolen'
  PROVE  CompletionInv'
<1>1. CompletionTypeOK
  BY DEF CompletionInv
<1>2. /\ request' \in [Requests -> {"idle", "look", "stale", "reclaim", "again",
                         "recheck", "run", "finalize", "release", "end"}]
      /\ request'[r] = pc
      /\ \A q \in Requests : q # r => request'[q] = request[q]
  BY <1>1, RequestGoes
<1>3. CompletionTypeOK'
  BY <1>1, <1>2 DEF CompletionTypeOK
<1>4. answers \subseteq Requests
  BY <1>1 DEF CompletionTypeOK
<1>5. ASSUME KeyHeld PROVE KeyHeld'
  <2>1. \A q \in Requests : AtWork(q)' => AtWork(q)
    BY <1>2 DEF AtWork
  <2>2. \A q \in answers : claim.status = "completed" \/ request'[q] = "finalize"
    BY <1>2, <1>4, <1>5 DEF KeyHeld, AtWork
  <2> QED
    BY <1>5, <2>1, <2>2 DEF KeyHeld
<1> QED
  BY <1>3, <1>5 DEF CompletionInv

\* While nobody is at work and the row is not completed there is no answer.
LEMMA NoAnswerYet ==
  ASSUME CompletionTypeOK, KeyHeld, claim.status # "completed",
         \A r \in Requests : ~AtWork(r)
  PROVE  answers = {}
BY DEF CompletionTypeOK, KeyHeld, AtWork

\* The row is free, or was never worked on, and r claims it.
LEMMA ClaimsEffect ==
  ASSUME CompletionInv, NEW r \in Requests,
         NEW pc \in {"look", "recheck", "end"},
         Claims(r, pc), ~AtWork(r), UNCHANGED <<answers, stolen>>
  PROVE  CompletionInv'
<1>1. CompletionTypeOK /\ stolen \in BOOLEAN
  BY DEF CompletionInv, CompletionTypeOK
<1>2. CASE claim.status # "none"
  BY <1>1, <1>2, Idles DEF Claims
<1>3. CASE claim.status = "none"
  <2>1. /\ claim' = [status |-> "pending", owner |-> r, stale |-> FALSE]
        /\ Goes(r, "run")
    BY <1>3 DEF Claims, NoClaim
  <2>2. /\ request' \in [Requests -> {"idle", "look", "stale", "reclaim", "again",
                           "recheck", "run", "finalize", "release", "end"}]
        /\ request'[r] = "run"
        /\ \A q \in Requests : q # r => request'[q] = request[q]
    BY <1>1, <2>1, RequestGoes
  <2>3. CompletionTypeOK'
    BY <1>1, <2>1, <2>2 DEF CompletionTypeOK
  <2>4. ASSUME KeyHeld PROVE KeyHeld'
    <3>1. \A q \in Requests : ~AtWork(q)
      BY <1>3, <2>4 DEF KeyHeld
    <3>2. answers = {}
      BY <1>1, <1>3, <2>4, <3>1, NoAnswerYet
    <3> QED
      BY <2>1, <2>2, <3>1, <3>2 DEF KeyHeld, AtWork
  <2> QED
    BY <2>1, <2>3, <2>4 DEF CompletionInv
<1> QED
  BY <1>2, <1>3

\* A pending row is dropped that nobody works for.
LEMMA Dropped ==
  ASSUME CompletionInv, NEW r \in Requests, NEW pc \in {"reclaim", "end"},
         claim.status = "pending", claim' = NoClaim, Goes(r, pc),
         ~AtWork(r), UNCHANGED answers, stolen' = (stolen \/ Working)
  PROVE  CompletionInv'
<1>1. CompletionTypeOK /\ claim.owner \in Requests
  BY DEF CompletionInv
<1>2. /\ request' \in [Requests -> {"idle", "look", "stale", "reclaim", "again",
                         "recheck", "run", "finalize", "release", "end"}]
      /\ request'[r] = pc
      /\ \A q \in Requests : q # r => request'[q] = request[q]
  BY <1>1, RequestGoes
<1>3. CompletionTypeOK' /\ claim'.status = "none"
  BY <1>1, <1>2 DEF CompletionTypeOK, NoClaim, Working
<1>4. ASSUME KeyHeld, ~Working PROVE KeyHeld'
  <2>1. \A q \in Requests : ~AtWork(q)
    BY <1>4 DEF KeyHeld, AtWork, Working
  <2>2. answers = {}
    BY <1>1, <1>4, <2>1, NoAnswerYet
  <2> QED
    BY <1>2, <2>1, <2>2 DEF KeyHeld, AtWork
<1> QED
  BY <1>3, <1>4 DEF CompletionInv

-----------------------------------------------------------------------------
\* Each step of a request, and the ageing of the claim, keep the invariant.
LEMMA CompletionStep ==
  ASSUME CompletionInv, [CompletionNext]_completionVars
  PROVE  CompletionInv'
<1>0. CompletionTypeOK /\ stolen \in BOOLEAN /\ answers \subseteq Requests
  BY DEF CompletionInv, CompletionTypeOK
<1>1. ASSUME NEW r \in Requests, ClaimKey(r) PROVE CompletionInv'
  BY <1>1, ClaimsEffect DEF ClaimKey, AtWork
<1>2. ASSUME NEW r \in Requests, LookAtKey(r) PROVE CompletionInv'
  <2> DEFINE pc == CASE claim.status = "completed" -> "end"
                     [] claim.status = "pending" -> "stale"
                     [] OTHER -> "again"
  <2>1. pc \in {"end", "stale", "again"}
    OBVIOUS
  <2>2. Goes(r, pc) /\ ~AtWork(r) /\ UNCHANGED <<claim, answers, stolen>>
    BY <1>2 DEF LookAtKey, AtWork
  <2> HIDE DEF pc
  <2> QED
    BY <1>0, <2>1, <2>2, Idles
<1>3. ASSUME NEW r \in Requests, DropStale(r) PROVE CompletionInv'
  <2>1. ~AtWork(r) /\ Goes(r, "reclaim") /\ UNCHANGED answers
    BY <1>3 DEF DropStale, AtWork
  <2>2. CASE TooOld
    <3>1. claim.status = "pending" /\ claim' = NoClaim /\ stolen' = (stolen \/ Working)
      BY <1>3, <2>2 DEF DropStale, TooOld
    <3> QED
      BY <2>1, <3>1, Dropped
  <2>3. CASE ~TooOld
    <3>1. claim' = claim /\ stolen' \in BOOLEAN /\ (stolen => stolen')
      BY <1>0, <1>3, <2>3 DEF DropStale, Working
    <3> QED
      BY <2>1, <3>1, Idles
  <2> QED
    BY <2>2, <2>3
<1>4. ASSUME NEW r \in Requests, ClaimAgain(r) PROVE CompletionInv'
  <2>1. ~AtWork(r) /\ UNCHANGED <<answers, stolen>>
    BY <1>4 DEF ClaimAgain, AtWork
  <2>2. CASE Claims(r, "end") \/ Claims(r, "recheck")
    BY <2>1, <2>2, ClaimsEffect
  <2>3. CASE Goes(r, "end") /\ UNCHANGED claim
    BY <1>0, <2>1, <2>3, Idles
  <2> QED
    BY <1>4, <2>2, <2>3 DEF ClaimAgain
<1>5. ASSUME NEW r \in Requests, FailsEarly(r) \/ Retries(r) PROVE CompletionInv'
  BY <1>0, <1>5, Idles DEF FailsEarly, Retries, AtWork
<1>6. ASSUME NEW r \in Requests, RunEnds(r) PROVE CompletionInv'
  <2>1. PICK pc \in {"finalize", "release", "end"} :
          /\ Goes(r, pc)
          /\ answers' = IF pc = "finalize" THEN answers \cup {r} ELSE answers
    BY <1>6 DEF RunEnds, Goes
  <2>2. AtWork(r) /\ UNCHANGED <<claim, stolen>> /\ request[r] = "run"
    BY <1>6 DEF RunEnds, AtWork
  <2>3. /\ request' \in [Requests -> {"idle", "look", "stale", "reclaim", "again",
                           "recheck", "run", "finalize", "release", "end"}]
        /\ request'[r] = pc
        /\ \A q \in Requests : q # r => request'[q] = request[q]
    BY <1>0, <2>1, RequestGoes
  <2>4. CompletionTypeOK'
    BY <1>0, <2>1, <2>2, <2>3 DEF CompletionTypeOK
  <2>5. ASSUME KeyHeld PROVE KeyHeld'
    <3>1. claim.status = "pending" /\ claim.owner = r
      BY <2>2, <2>5 DEF KeyHeld
    <3>2. answers = {}
      <4> SUFFICES ASSUME NEW x \in answers PROVE FALSE
        OBVIOUS
      <4>1. x \in Requests /\ request[x] = "finalize"
        BY <1>0, <2>5, <3>1 DEF KeyHeld
      <4>2. claim.owner = x
        BY <2>5, <4>1 DEF KeyHeld, AtWork
      <4> QED
        BY <2>2, <3>1, <4>1, <4>2
    <3>3. \A q \in Requests : AtWork(q)' => q = r
      BY <2>3, <2>5, <3>1 DEF KeyHeld, AtWork
    <3>4. \A q \in answers' : q = r /\ request'[q] = "finalize"
      BY <2>1, <2>3, <3>2
    <3> QED
      BY <2>2, <3>1, <3>3, <3>4 DEF KeyHeld
  <2> QED
    BY <2>2, <2>4, <2>5 DEF CompletionInv
<1>7. ASSUME NEW r \in Requests, FinalizeKey(r) PROVE CompletionInv'
  <2>1. request[r] = "finalize" /\ AtWork(r) /\ answers' = answers /\ Goes(r, "end")
    BY <1>7 DEF FinalizeKey, AtWork
  <2>2. /\ request' \in [Requests -> {"idle", "look", "stale", "reclaim", "again",
                           "recheck", "run", "finalize", "release", "end"}]
        /\ request'[r] = "end"
        /\ \A q \in Requests : q # r => request'[q] = request[q]
    BY <1>0, <2>1, RequestGoes
  <2>3. /\ claim' = claim \/ claim' = [claim EXCEPT !.status = "completed"]
        /\ stolen' \in BOOLEAN
    BY <1>0, <1>7 DEF FinalizeKey
  <2>4. CompletionTypeOK' /\ (claim'.status = "pending" => claim'.owner \in Requests)
    BY <1>0, <2>1, <2>2, <2>3 DEF CompletionTypeOK, CompletionInv
  <2>5. ASSUME ~stolen' PROVE KeyHeld'
    <3>1. KeyHeld
      BY <1>7, <2>5 DEF FinalizeKey, CompletionInv
    <3>2. claim.status = "pending" /\ claim.owner = r
      BY <2>1, <3>1 DEF KeyHeld
    <3>3. claim' = [claim EXCEPT !.status = "completed"]
      BY <1>7, <2>5, <3>2 DEF FinalizeKey
    <3>4. claim'.status = "completed"
      BY <1>0, <3>3 DEF CompletionTypeOK
    <3>5. \A q \in Requests : ~AtWork(q)'
      BY <2>2, <3>1, <3>2 DEF KeyHeld, AtWork
    <3> QED
      BY <2>1, <3>1, <3>4, <3>5 DEF KeyHeld
  <2> QED
    BY <2>4, <2>5 DEF CompletionInv
<1>8. ASSUME NEW r \in Requests, ReleaseKey(r) PROVE CompletionInv'
  <2>1. request[r] = "release" /\ ~AtWork(r) /\ Goes(r, "end") /\ answers' = answers
    BY <1>8 DEF ReleaseKey, AtWork
  <2>2. CASE claim.status = "pending"
    <3>1. Working => claim.owner # r
      BY <2>1 DEF Working
    <3>2. claim' = NoClaim /\ stolen' = (stolen \/ Working)
      BY <1>8, <2>2, <3>1 DEF ReleaseKey
    <3> QED
      BY <2>1, <2>2, <3>2, Dropped
  <2>3. CASE claim.status # "pending"
    <3>1. claim' = claim /\ stolen' = stolen
      BY <1>0, <1>8, <2>3 DEF ReleaseKey, Working
    <3> QED
      BY <1>0, <2>1, <3>1, Idles
  <2> QED
    BY <2>2, <2>3
<1>9. CASE ClaimAgesOut
  <2>1. CASE claim.status = "pending"
    <3>1. claim' = [claim EXCEPT !.stale = TRUE] /\ UNCHANGED <<request, answers, stolen>>
      BY <1>9, <2>1 DEF ClaimAgesOut
    <3>2. claim'.status = claim.status /\ claim'.owner = claim.owner
      BY <1>0, <3>1 DEF CompletionTypeOK
    <3> QED
      BY <3>1, <3>2 DEF CompletionInv, CompletionTypeOK, KeyHeld, AtWork
  <2>2. CASE claim.status # "pending"
    <3>1. claim.status = "completed" /\ claim' = NoClaim /\ answers' = {}
          /\ UNCHANGED <<request, stolen>>
      BY <1>9, <2>2 DEF ClaimAgesOut
    <3> QED
      BY <3>1 DEF CompletionInv, CompletionTypeOK, KeyHeld, AtWork, NoClaim
  <2> QED
    BY <2>1, <2>2
<1>10. CASE UNCHANGED completionVars
  BY <1>10 DEF completionVars, CompletionInv, CompletionTypeOK, KeyHeld, AtWork
<1> QED
  BY <1>1, <1>2, <1>3, <1>4, <1>5, <1>6, <1>7, <1>8, <1>9, <1>10
  DEF CompletionNext, RequestStep

\* The invariant holds of every behaviour.
LEMMA CompletionHolds == CompletionSpec => []CompletionInv
BY CompletionInitInv, CompletionStep, PTL DEF CompletionSpec

\* Requests with one key never run the agent side by side, and one of them answers and
\* is billed, unless a claim was dropped under a request at work or its end was lost.
THEOREM RunsOnceHolds == CompletionSpec => []RunsOnce
<1>1. CompletionInv => RunsOnce
  <2> SUFFICES ASSUME CompletionInv, ~stolen PROVE RunsOnce
    BY DEF RunsOnce
  <2>1. KeyHeld
    BY DEF CompletionInv
  <2>2. \A q, r \in Requests : request[q] = "run" /\ request[r] = "run" => q = r
    BY <2>1 DEF KeyHeld, AtWork
  <2>3. Cardinality(answers) <= 1
    <3>1. CASE answers = {}
      BY <3>1, FS_EmptySet
    <3>2. CASE answers # {}
      <4>1. PICK r : r \in answers
        BY <3>2
      <4>2. answers = {r}
        BY <2>1, <4>1 DEF KeyHeld
      <4> QED
        BY <4>2, FS_Singleton
    <3> QED
      BY <3>1, <3>2
  <2> QED
    BY <2>2, <2>3 DEF RunsOnce
<1> QED
  BY <1>1, CompletionHolds, PTL

-----------------------------------------------------------------------------
(* DeviceBroker.                                                            *)

CallRow ==
  [pc : {"idle", "undo", "drain", "ask", "flush", "consult", "delete", "unqueue",
         "returned", "dead"},
   got : Nat, late : BOOLEAN, cut : BOOLEAN, result : {"none", "done", "timeout", "failed"}]

ConnRow ==
  [pc : {"down", "loop", "block", "popped", "checked"},
   call : Calls \cup {"none"}, closed : BOOLEAN]

DeviceRow ==
  [pc : {"none", "run", "add", "mark", "ended"}, runs : Nat, afterwards : BOOLEAN,
   added : Nat, chunk : {"none", "data", "control"}]

\* The types of DeviceTypeOK, without its bounds.
DeviceRows ==
  /\ queue \in Seq(Calls)
  /\ hash \in [Calls -> {"none", "open", "completed", "zombie"}]
  /\ output \in [Calls -> Seq({"data", "control"})]
  /\ call \in [Calls -> CallRow]
  /\ conn \in [Conns -> ConnRow]
  /\ device \in [Calls -> DeviceRow]

Carries(c, i) == conn[c].pc \in {"popped", "checked"} /\ conn[c].call = i

\* The envelope of a call is in one place: in the list, or with one handler.
OneEnvelope ==
  /\ \A p, q \in DOMAIN queue : queue[p] = queue[q] => p = q
  /\ \A c \in Conns, p \in DOMAIN queue : ~Carries(c, queue[p])
  /\ \A c, d \in Conns, i \in Calls : Carries(c, i) /\ Carries(d, i) => c = d
  /\ \A c \in Conns : conn[c].pc \in {"popped", "checked"} => conn[c].call \in Calls

Underway(i) == (\E p \in DOMAIN queue : queue[p] = i) \/ (\E c \in Conns : Carries(c, i))

\* A command that is under way was sent and never ran.
SentOnce ==
  \A i \in Calls :
    /\ Underway(i) => call[i].pc # "idle" /\ device[i].runs = 0
    /\ call[i].pc = "idle" => hash[i] = "none" /\ output[i] = <<>> /\ device[i].runs = 0

\* A handler that found the invocation may deliver it, but not to a call that ended, unless
\* the call did not take the command back.
HeldTold ==
  \A c \in Conns :
    conn[c].pc = "checked" /\ call[conn[c].call].pc \in {"unqueue", "returned"} =>
      conn[c].call \in loose

\* Nothing marks the hash of a command that never ran, so that it is gone with the call,
\* or was left by a clean-up that failed.
RunTold(i) ==
  /\ device[i].runs <= 1
  /\ device[i].runs = 0 => /\ device[i].pc = "none" /\ device[i].added = 0
                           /\ hash[i] \in {"none", "open"}
                           /\ call[i].pc \in {"unqueue", "returned"} =>
                                hash[i] = "none" \/ i \in loose
  /\ device[i].afterwards => i \in loose

\* The device has posted the control chunk: it posts no more.
Ending(i) == device[i].pc = "ended" \/ (device[i].pc = "mark" /\ device[i].chunk = "control")

\* What the caller reads is what the device has put on the stream, until it deletes it.
StreamTold(i) ==
  /\ device[i].runs = 1 \/ ~Ending(i)
  /\ device[i].pc \in {"add", "mark"} => device[i].chunk \in {"data", "control"}
  /\ call[i].pc \in {"idle", "drain", "ask", "flush", "consult", "delete"} =>
       Len(output[i]) = device[i].added /\ call[i].got <= Len(output[i])
  /\ \A j \in 1..Len(output[i]) : output[i][j] = "control" => j = Len(output[i]) /\ Ending(i)
  /\ hash[i] = "completed" => device[i].pc = "ended" /\ device[i].runs = 1

CallTold(i) ==
  /\ call[i].pc \in {"idle", "undo", "drain", "ask", "flush", "consult"} =>
       call[i].result = "none"
  /\ call[i].pc = "flush" /\ ~call[i].late => hash[i] = "completed"
  /\ call[i].pc = "consult" /\ ~call[i].late /\ ~call[i].cut =>
       hash[i] = "completed" /\ call[i].got = Len(output[i])
  /\ call[i].result = "done" /\ ~call[i].late /\ ~call[i].cut =>
       call[i].got = device[i].added /\ Ending(i)

DeviceInv ==
  /\ DeviceRows /\ OneEnvelope /\ SentOnce /\ HeldTold
  /\ \A i \in Calls : RunTold(i) /\ StreamTold(i) /\ CallTold(i)

-----------------------------------------------------------------------------
\* A step that is about call `i` alone, and moves no envelope.
LEMMA CallAlone ==
  ASSUME DeviceInv, NEW i \in Calls, UNCHANGED <<queue, conn>>, DeviceRows',
         \A j \in Calls : j # i => /\ call'[j] = call[j] /\ hash'[j] = hash[j]
                                   /\ output'[j] = output[j] /\ device'[j] = device[j],
         loose \subseteq loose', device'[i].runs = device[i].runs,
         \/ call'[i].pc # "idle"
         \/ call'[i].pc = call[i].pc /\ hash'[i] = hash[i] /\ output'[i] = output[i],
         call'[i].pc \in {"unqueue", "returned"} =>
           call[i].pc \in {"unqueue", "returned"} \/ (HeldByConn(i) => i \in loose'),
         RunTold(i)', StreamTold(i)', CallTold(i)'
  PROVE  DeviceInv'
<1>1. OneEnvelope'
  BY DEF DeviceInv, OneEnvelope, Carries
<1>2. SentOnce'
  BY DEF DeviceInv, SentOnce, Underway, Carries
<1>3. HeldTold'
  <2> SUFFICES ASSUME NEW c \in Conns, conn[c].pc = "checked",
                      call'[conn[c].call].pc \in {"unqueue", "returned"}
               PROVE  conn[c].call \in loose'
    BY DEF HeldTold
  <2>1. conn[c].call \in Calls
    BY DEF DeviceInv, OneEnvelope
  <2>2. CASE conn[c].call = i
    BY <2>2 DEF DeviceInv, HeldTold, HeldByConn
  <2>3. CASE conn[c].call # i
    BY <2>1, <2>3 DEF DeviceInv, HeldTold
  <2> QED
    BY <2>2, <2>3
<1>4. ASSUME NEW j \in Calls, j # i PROVE RunTold(j)' /\ StreamTold(j)' /\ CallTold(j)'
  <2>1. RunTold(j) /\ StreamTold(j) /\ CallTold(j)
    BY DEF DeviceInv
  <2>2. RunTold(j)'
    BY <1>4, <2>1 DEF RunTold
  <2>3. StreamTold(j)'
    BY <1>4, <2>1 DEF StreamTold, Ending
  <2>4. CallTold(j)'
    BY <1>4, <2>1 DEF CallTold, Ending
  <2> QED
    BY <2>2, <2>3, <2>4
<1> QED
  BY <1>1, <1>2, <1>3, <1>4 DEF DeviceInv

\* What the invariant says of one call, with the types of its parts.
LEMMA CallFacts ==
  ASSUME DeviceInv, NEW i \in Calls
  PROVE  /\ DeviceRows /\ RunTold(i) /\ StreamTold(i) /\ CallTold(i)
         /\ call[i] \in CallRow /\ device[i] \in DeviceRow
         /\ hash[i] \in {"none", "open", "completed", "zombie"}
         /\ output[i] \in Seq({"data", "control"}) /\ Len(output[i]) \in Nat
         /\ call[i].got \in Nat /\ device[i].added \in Nat /\ device[i].runs \in Nat
BY DEF DeviceInv, DeviceRows, CallRow, DeviceRow

\* Only the caller moves.
LEMMA CallerMoves ==
  ASSUME DeviceInv, NEW i \in Calls, NEW r \in CallRow,
         call' = [call EXCEPT ![i] = r], UNCHANGED <<queue, hash, output, conn, device, loose>>,
         r.pc # "idle", r.pc \notin {"unqueue", "returned"} \/ r.pc = call[i].pc,
         r.pc \in {"drain", "ask", "flush", "consult", "delete"} =>
           call[i].pc \in {"drain", "ask", "flush", "consult"} /\ r.got <= Len(output[i]),
         CallTold(i)'
  PROVE  DeviceInv'
<1>1. call'[i] = r /\ \A j \in Calls : j # i => call'[j] = call[j]
  BY DEF DeviceInv, DeviceRows
<1>2. DeviceRows'
  BY DEF DeviceInv, DeviceRows
<1>3. RunTold(i)'
  BY <1>1, CallFacts DEF RunTold
<1>4. StreamTold(i)'
  BY <1>1, CallFacts DEF StreamTold, Ending
<1> QED
  BY <1>1, <1>2, <1>3, <1>4, CallAlone

\* The steps of a caller that move nothing but its own record.
LEMMA DrainSteps ==
  ASSUME DeviceInv, NEW i \in Calls,
         DeadlinePasses(i) \/ ReadNothing(i) \/ DrainFails(i) \/ AskCompleted(i) \/ Consult(i)
           \/ CallerDies(i)
  PROVE  DeviceInv'
<1>1. UNCHANGED <<queue, hash, output, conn, device, loose>>
  BY DEF DeadlinePasses, ReadNothing, DrainFails, AskCompleted, Consult, CallerDies
<1>2. /\ call \in [Calls -> CallRow] /\ call[i] \in CallRow /\ Len(output[i]) \in Nat
      /\ call[i].got \in Nat /\ CallTold(i) /\ StreamTold(i)
  BY CallFacts DEF DeviceRows
<1>3. CASE DeadlinePasses(i)
  <2>1. PICK r : r = [call[i] EXCEPT !.late = TRUE]
    OBVIOUS
  <2>2. /\ r \in CallRow /\ r.pc = call[i].pc /\ r.late /\ r.got = call[i].got
        /\ r.result = call[i].result /\ r.cut = call[i].cut /\ r.pc \in {"drain", "ask", "flush"}
    BY <1>2, <1>3, <2>1 DEF CallRow, DeadlinePasses
  <2>3. call' = [call EXCEPT ![i] = r] /\ call'[i] = r
    BY <1>2, <1>3, <2>1 DEF DeadlinePasses
  <2>4. CallTold(i)'
    BY <1>2, <2>2, <2>3 DEF CallTold
  <2>5. r.got <= Len(output[i])
    BY <1>2, <2>2 DEF StreamTold
  <2> QED
    BY <1>1, <2>2, <2>3, <2>4, <2>5, CallerMoves
<1>4. CASE ReadNothing(i)
  <2> DEFINE pc == IF CallAt(i, "flush") THEN "consult" ELSE "ask"
  <2>1. PICK r : r = [call[i] EXCEPT !.pc = pc]
    OBVIOUS
  <2>2. /\ r \in CallRow /\ r.pc = pc /\ r.late = call[i].late /\ r.got = call[i].got
        /\ r.result = call[i].result /\ r.cut = call[i].cut
    BY <1>2, <2>1 DEF CallRow
  <2>3. call' = [call EXCEPT ![i] = r] /\ call'[i] = r
    BY <1>2, <1>4, <2>1 DEF ReadNothing, CallGoes
  <2>4. call[i].pc \in {"drain", "flush"} /\ call[i].got = Len(output[i])
    BY <1>4 DEF ReadNothing
  <2>5. CallTold(i)'
    BY <1>1, <1>2, <2>2, <2>3, <2>4 DEF CallTold, CallAt
  <2>6. r.pc \in {"ask", "consult"} /\ r.got <= Len(output[i])
    BY <1>2, <2>2, <2>4
  <2> QED
    BY <1>1, <2>2, <2>3, <2>4, <2>5, <2>6, CallerMoves
<1>5. CASE AskCompleted(i)
  <2>0. PICK completed \in {hash[i] = "completed", FALSE} :
          CallGoes(i, IF completed \/ call[i].late THEN "flush" ELSE "drain")
    BY <1>5 DEF AskCompleted
  <2> DEFINE pc == IF completed \/ call[i].late THEN "flush" ELSE "drain"
  <2>1. PICK r : r = [call[i] EXCEPT !.pc = pc]
    OBVIOUS
  <2>2. /\ r \in CallRow /\ r.pc = pc /\ r.late = call[i].late /\ r.got = call[i].got
        /\ r.result = call[i].result /\ r.cut = call[i].cut
    BY <1>2, <2>1 DEF CallRow
  <2>3. call' = [call EXCEPT ![i] = r] /\ call'[i] = r
    BY <1>2, <2>0, <2>1 DEF CallGoes
  <2>4. call[i].pc = "ask"
    BY <1>5 DEF AskCompleted, CallAt
  <2>5. CallTold(i)'
    BY <1>1, <1>2, <2>2, <2>3, <2>4 DEF CallTold
  <2>6. r.got <= Len(output[i])
    BY <1>2, <2>2, <2>4 DEF StreamTold
  <2> QED
    BY <1>1, <2>2, <2>3, <2>4, <2>5, <2>6, CallerMoves
<1>6. CASE Consult(i)
  <2>0. PICK completed \in {hash[i] = "completed", FALSE} :
          call' = [call EXCEPT ![i].pc = "delete",
                               ![i].result = IF completed THEN "done" ELSE "timeout"]
    BY <1>6 DEF Consult
  <2> DEFINE result == IF completed THEN "done" ELSE "timeout"
  <2>1. PICK r : r = [call[i] EXCEPT !.pc = "delete", !.result = result]
    OBVIOUS
  <2>2. /\ r \in CallRow /\ r.pc = "delete" /\ r.late = call[i].late /\ r.got = call[i].got
        /\ r.result = result /\ r.cut = call[i].cut
    BY <1>2, <2>1 DEF CallRow
  <2>3. call' = [call EXCEPT ![i] = r] /\ call'[i] = r
    BY <1>2, <2>0, <2>1
  <2>4. call[i].pc = "consult"
    BY <1>6 DEF Consult, CallAt
  <2>5. CallTold(i)'
    BY <1>1, <1>2, <2>2, <2>3, <2>4 DEF CallTold, StreamTold, Ending
  <2>6. r.got <= Len(output[i])
    BY <1>2, <2>2, <2>4 DEF StreamTold
  <2> QED
    BY <1>1, <2>2, <2>3, <2>4, <2>5, <2>6, CallerMoves
<1>7. CASE CallerDies(i)
  <2>1. PICK r : r = [call[i] EXCEPT !.pc = "dead"]
    OBVIOUS
  <2>2. /\ r \in CallRow /\ r.pc = "dead" /\ r.late = call[i].late /\ r.got = call[i].got
        /\ r.result = call[i].result /\ r.cut = call[i].cut
    BY <1>2, <2>1 DEF CallRow
  <2>3. call' = [call EXCEPT ![i] = r] /\ call'[i] = r
    BY <1>2, <1>7, <2>1 DEF CallerDies, CallGoes
  <2>4. CallTold(i)'
    BY <1>1, <1>2, <2>2, <2>3 DEF CallTold, Ending
  <2> QED
    BY <1>1, <2>2, <2>3, <2>4, CallerMoves
<1>8. CASE DrainFails(i)
  <2>1. PICK r : r = [call[i] EXCEPT !.pc = "consult", !.cut = TRUE]
    OBVIOUS
  <2>2. /\ r \in CallRow /\ r.pc = "consult" /\ r.late = call[i].late /\ r.got = call[i].got
        /\ r.result = call[i].result /\ r.cut
    BY <1>2, <2>1 DEF CallRow
  <2>3. call' = [call EXCEPT ![i] = r] /\ call'[i] = r
    BY <1>2, <1>8, <2>1 DEF DrainFails
  <2>4. call[i].pc \in {"drain", "flush"}
    BY <1>8 DEF DrainFails
  <2>5. CallTold(i)'
    BY <1>1, <1>2, <2>2, <2>3, <2>4 DEF CallTold
  <2>6. r.got <= Len(output[i])
    BY <1>2, <2>2, <2>4 DEF StreamTold
  <2> QED
    BY <1>1, <2>2, <2>3, <2>4, <2>5, <2>6, CallerMoves
<1> QED
  BY <1>3, <1>4, <1>5, <1>6, <1>7, <1>8

\* The caller reads the next chunk and stops at the one that ends the stream.
LEMMA ReadStep ==
  ASSUME DeviceInv, NEW i \in Calls, ReadChunk(i) PROVE DeviceInv'
<1> DEFINE control == output[i][call[i].got + 1] = "control"
           pc == IF control THEN "delete" ELSE IF call[i].late THEN "consult" ELSE call[i].pc
           result == IF control THEN "done" ELSE call[i].result
<1>1. /\ UNCHANGED <<queue, hash, output, conn, device, loose>>
      /\ call[i].pc \in {"drain", "flush"} /\ call[i].got < Len(output[i])
  BY DEF ReadChunk
<1>2. /\ call \in [Calls -> CallRow] /\ call[i] \in CallRow /\ Len(output[i]) \in Nat
      /\ call[i].got \in Nat /\ CallTold(i) /\ StreamTold(i)
  BY CallFacts DEF DeviceRows
<1>3. PICK p, q, r : /\ p = pc /\ q = result
                    /\ r = [call[i] EXCEPT !.got = @ + 1, !.pc = p, !.result = q]
  OBVIOUS
<1>4. call[i].result = "none"
  BY <1>1, <1>2 DEF CallTold
<1>5. /\ r.pc = pc /\ r.late = call[i].late /\ r.got = call[i].got + 1 /\ r.result = result
      /\ r \in CallRow /\ r.cut = call[i].cut
  <2>1. p \in {"delete", "consult", "drain", "flush"} /\ q \in {"done", "none"}
    BY <1>1, <1>3, <1>4
  <2>2. r = [call[i] EXCEPT !.got = @ + 1, !.pc = p, !.result = q]
    BY <1>3
  <2>3. call[i].got + 1 \in Nat /\ call[i] \in CallRow
    BY <1>2
  <2>4. /\ r.pc = p /\ r.late = call[i].late /\ r.got = call[i].got + 1 /\ r.result = q
        /\ r \in CallRow /\ r.cut = call[i].cut
    BY <2>1, <2>2, <2>3 DEF CallRow
  <2> QED
    BY <1>3, <2>4
<1>6. call' = [call EXCEPT ![i] = r] /\ call'[i] = r
  BY <1>2, <1>3 DEF ReadChunk
<1>7. CallTold(i)'
  <2>1. CASE control
    <3>1. call[i].got + 1 \in 1..Len(output[i])
      BY <1>1, <1>2
    <3>2. call[i].got + 1 = Len(output[i]) /\ Ending(i) /\ Len(output[i]) = device[i].added
      BY <1>1, <1>2, <2>1, <3>1 DEF StreamTold
    <3> QED
      BY <1>1, <1>5, <1>6, <2>1, <3>2 DEF CallTold, Ending
  <2>2. CASE ~control
    BY <1>1, <1>2, <1>4, <1>5, <1>6, <2>2 DEF CallTold
  <2> QED
    BY <2>1, <2>2
<1>8. r.got <= Len(output[i]) /\ r.pc \in {"drain", "flush", "consult", "delete"}
  BY <1>1, <1>2, <1>5
<1> QED
  BY <1>1, <1>5, <1>6, <1>7, <1>8, CallerMoves

\* The call gives its hash up, with or without its output, or fails to.
LEMMA CleanSteps ==
  ASSUME DeviceInv, NEW i \in Calls, UndoSend(i) \/ DeleteState(i) \/ KeysExpire(i)
  PROVE  DeviceInv'
<1>1. /\ UNCHANGED <<queue, conn, device>> /\ loose \subseteq loose'
      /\ \E h \in {hash[i], "none"} : hash' = [hash EXCEPT ![i] = h]
      /\ \E o \in {output[i], <<>>} : output' = [output EXCEPT ![i] = o]
      /\ \/ hash'[i] = "none" /\ (HeldByConn(i) => i \in loose' \/ KeysExpire(i))
         \/ i \in loose'
  <2>1. hash \in [Calls -> {"none", "open", "completed", "zombie"}]
        /\ output \in [Calls -> Seq({"data", "control"})]
    BY DEF DeviceInv, DeviceRows
  <2>2. hash = [hash EXCEPT ![i] = hash[i]] /\ output = [output EXCEPT ![i] = output[i]]
    BY <2>1
  <2>3. CASE UndoSend(i)
    BY <2>1, <2>2, <2>3 DEF UndoSend, LetsGo
  <2>4. CASE DeleteState(i)
    BY <2>1, <2>2, <2>4 DEF DeleteState, LetsGo
  <2>5. CASE KeysExpire(i)
    BY <2>1, <2>2, <2>5 DEF KeysExpire
  <2> QED
    BY <2>3, <2>4, <2>5
<1>2. /\ call \in [Calls -> CallRow] /\ call[i] \in CallRow /\ DeviceRows /\ CallTold(i)
      /\ StreamTold(i) /\ RunTold(i)
      /\ hash \in [Calls -> {"none", "open", "completed", "zombie"}]
      /\ output \in [Calls -> Seq({"data", "control"})]
  BY CallFacts DEF DeviceRows
<1>3. PICK r \in CallRow :
        /\ call' = [call EXCEPT ![i] = r] /\ r.late = call[i].late /\ r.got = call[i].got
        /\ r.cut = call[i].cut
        /\ \/ UndoSend(i) /\ r.pc = "returned" /\ r.result = "failed"
           \/ DeleteState(i) /\ r.pc \in {"unqueue", "returned"} /\ r.result = call[i].result
           \/ KeysExpire(i) /\ r = call[i]
  <2>1. CASE UndoSend(i)
    <3>1. PICK r : r = [call[i] EXCEPT !.pc = "returned", !.result = "failed"]
      OBVIOUS
    <3>2. /\ r \in CallRow /\ r.pc = "returned" /\ r.result = "failed"
          /\ r.late = call[i].late /\ r.got = call[i].got /\ r.cut = call[i].cut
      BY <1>2, <3>1 DEF CallRow
    <3>3. call' = [call EXCEPT ![i] = r]
      BY <2>1, <3>1 DEF UndoSend
    <3> QED
      BY <2>1, <3>2, <3>3
  <2>2. CASE DeleteState(i)
    <3>0. PICK p \in {"unqueue", "returned"} : CallGoes(i, p)
      BY <2>2 DEF DeleteState
    <3>1. PICK r : r = [call[i] EXCEPT !.pc = p]
      OBVIOUS
    <3>2. /\ r \in CallRow /\ r.pc = p /\ r.result = call[i].result
          /\ r.late = call[i].late /\ r.got = call[i].got /\ r.cut = call[i].cut
      BY <1>2, <3>1 DEF CallRow
    <3>3. call' = [call EXCEPT ![i] = r]
      BY <3>0, <3>1 DEF CallGoes
    <3> QED
      BY <2>2, <3>2, <3>3
  <2>3. CASE KeysExpire(i)
    <3>1. call' = [call EXCEPT ![i] = call[i]]
      BY <1>2, <2>3 DEF KeysExpire
    <3> QED
      BY <1>2, <2>3, <3>1
  <2> QED
    BY <2>1, <2>2, <2>3
<1>4. /\ call'[i] = r /\ hash'[i] \in {hash[i], "none"} /\ call' \in [Calls -> CallRow]
      /\ \A j \in Calls : j # i => /\ call'[j] = call[j] /\ hash'[j] = hash[j]
                                   /\ output'[j] = output[j] /\ device'[j] = device[j]
  BY <1>1, <1>2, <1>3
<1>5. <<>> \in Seq({"data", "control"}) /\ Len(<<>>) = 0
  OBVIOUS
<1>6. DeviceRows'
  <2>1. hash' \in [Calls -> {"none", "open", "completed", "zombie"}]
    BY <1>1, <1>2
  <2>2. output' \in [Calls -> Seq({"data", "control"})]
    BY <1>1, <1>2, <1>5
  <2> QED
    BY <1>1, <1>2, <1>4, <2>1, <2>2 DEF DeviceRows
<1>7. output'[i] = output[i] \/ output'[i] = <<>>
  BY <1>1, <1>2
<1>8. r.pc \in {"returned", "unqueue"} \/ r.pc = "dead"
  BY <1>3 DEF KeysExpire
<1>9. RunTold(i)'
  BY <1>1, <1>2, <1>4 DEF RunTold
<1>10. \A j \in 1..Len(output'[i]) :
         output'[i][j] = "control" => j = Len(output'[i]) /\ Ending(i)
  <2>1. CASE output'[i] = output[i]
    BY <1>2, <2>1 DEF StreamTold
  <2>2. CASE output'[i] = <<>>
    BY <2>2
  <2> QED
    BY <1>7, <2>1, <2>2
<1>11. StreamTold(i)'
  BY <1>1, <1>2, <1>4, <1>8, <1>10 DEF StreamTold, Ending
<1>12. CallTold(i)'
  BY <1>1, <1>2, <1>3, <1>4, <1>8 DEF CallTold, Ending
<1>13. r.pc \in {"unqueue", "returned"} =>
         call[i].pc \in {"unqueue", "returned"} \/ (HeldByConn(i) => i \in loose')
  BY <1>1, <1>3 DEF KeysExpire, UndoSend, DeleteState, CallAt
<1> QED
  BY <1>1, <1>4, <1>6, <1>8, <1>9, <1>11, <1>12, <1>13, CallAlone

\* A post of a command that runs.
LEMMA PostMoves ==
  ASSUME DeviceInv, NEW i \in Calls, NEW r \in DeviceRow,
         device' = [device EXCEPT ![i] = r], UNCHANGED <<queue, call, conn, loose>>,
         device[i].pc \in {"run", "add", "mark"},
         r.runs = device[i].runs, r.afterwards = device[i].afterwards,
         \A j \in Calls : j # i => hash'[j] = hash[j] /\ output'[j] = output[j],
         DeviceRows', StreamTold(i)', CallTold(i)'
  PROVE  DeviceInv'
<1>1. device'[i] = r /\ \A j \in Calls : j # i => device'[j] = device[j]
  BY CallFacts DEF DeviceRows
<1>2. device[i].runs = 1 /\ RunTold(i)
  BY CallFacts DEF RunTold
<1>3. RunTold(i)'
  BY <1>1, <1>2 DEF RunTold
<1>4. call[i].pc # "idle"
  BY <1>2 DEF DeviceInv, SentOnce
<1> QED
  BY <1>1, <1>3, <1>4, CallAlone

\* The device posts a chunk, dies, or its post fails: only its own record moves.
LEMMA PostSteps ==
  ASSUME DeviceInv, NEW i \in Calls,
         DeviceDies(i) \/ PostFails(i) \/ \E chunk \in {"data", "control"} : Post(i, chunk)
  PROVE  DeviceInv'
<1>1. UNCHANGED <<queue, call, hash, output, conn, loose>>
  BY DEF DeviceDies, PostFails, Post
<1>2. /\ device \in [Calls -> DeviceRow] /\ device[i] \in DeviceRow /\ DeviceRows
      /\ CallTold(i) /\ StreamTold(i) /\ RunTold(i)
  BY CallFacts DEF DeviceRows
<1>3. PICK r \in DeviceRow :
        /\ device' = [device EXCEPT ![i] = r]
        /\ r.runs = device[i].runs /\ r.afterwards = device[i].afterwards
        /\ r.added = device[i].added
        /\ \/ r.pc = "ended"
           \/ /\ ~Ending(i) /\ r.pc \in {"run", "add"}
              /\ r.pc = "add" => r.chunk \in {"data", "control"}
  <2>3. CASE PostFails(i)
    <3>1. PICK p : p = AfterPost(i)
      OBVIOUS
    <3>2. /\ p = IF device[i].chunk = "control" THEN "ended" ELSE "run"
          /\ device[i].pc \in {"add", "mark"} /\ device' = [device EXCEPT ![i].pc = p]
      BY <2>3, <3>1 DEF PostFails, AfterPost
    <3>3. PICK r : r = [device[i] EXCEPT !.pc = p]
      OBVIOUS
    <3>4. /\ r \in DeviceRow /\ r.pc = p /\ r.runs = device[i].runs
          /\ r.afterwards = device[i].afterwards /\ r.added = device[i].added
      BY <1>2, <3>2, <3>3 DEF DeviceRow
    <3>5. device' = [device EXCEPT ![i] = r]
      BY <3>2, <3>3
    <3>6. p = "run" => ~Ending(i)
      BY <3>2 DEF Ending
    <3> QED
      BY <3>2, <3>4, <3>5, <3>6
  <2>1. CASE DeviceDies(i)
    <3>1. PICK r : r = [device[i] EXCEPT !.pc = "ended"]
      OBVIOUS
    <3>2. /\ r \in DeviceRow /\ r.pc = "ended" /\ r.runs = device[i].runs
          /\ r.afterwards = device[i].afterwards /\ r.added = device[i].added
      BY <1>2, <3>1 DEF DeviceRow
    <3>3. device' = [device EXCEPT ![i] = r]
      BY <2>1, <3>1 DEF DeviceDies
    <3> QED
      BY <3>2, <3>3
  <2>2. ASSUME NEW chunk \in {"data", "control"}, Post(i, chunk)
        PROVE  \E r \in DeviceRow :
                 /\ device' = [device EXCEPT ![i] = r]
                 /\ r.runs = device[i].runs /\ r.afterwards = device[i].afterwards
                 /\ r.added = device[i].added
                 /\ \/ r.pc = "ended"
                    \/ /\ ~Ending(i) /\ r.pc \in {"run", "add"}
                       /\ r.pc = "add" => r.chunk \in {"data", "control"}
    <3>0. PICK found \in {Known(i), FALSE} :
            device' = [device EXCEPT
              ![i].pc = IF found THEN "add" ELSE IF chunk = "data" THEN @ ELSE "ended",
              ![i].chunk = chunk]
      BY <2>2 DEF Post
    <3>1. PICK p : p = IF found THEN "add" ELSE IF chunk = "data" THEN device[i].pc ELSE "ended"
      OBVIOUS
    <3>2. device[i].pc = "run" /\ p \in {"add", "run", "ended"} /\ ~Ending(i)
      BY <2>2, <3>1 DEF Post, Ending
    <3>3. PICK r : r = [device[i] EXCEPT !.pc = p, !.chunk = chunk]
      OBVIOUS
    <3>4. /\ r \in DeviceRow /\ r.pc = p /\ r.chunk = chunk /\ r.runs = device[i].runs
          /\ r.afterwards = device[i].afterwards /\ r.added = device[i].added
      BY <1>2, <3>2, <3>3 DEF DeviceRow
    <3>5. device' = [device EXCEPT ![i] = r]
      BY <3>0, <3>1, <3>3
    <3> QED
      BY <3>2, <3>4, <3>5
  <2> QED
    BY <2>1, <2>2, <2>3
<1>4. device'[i] = r /\ device' \in [Calls -> DeviceRow]
  BY <1>2, <1>3
<1>5. device[i].pc \in {"run", "add", "mark"}
  BY DEF DeviceDies, PostFails, Post
<1>6. device[i].runs = 1
  BY <1>2, <1>5, CallFacts DEF RunTold
<1>7. DeviceRows'
  BY <1>1, <1>2, <1>4 DEF DeviceRows
<1>8. Ending(i) => Ending(i)'
  BY <1>3, <1>4 DEF Ending
<1>9. StreamTold(i)'
  BY <1>1, <1>2, <1>3, <1>4, <1>5, <1>6, <1>8 DEF StreamTold
<1>10. CallTold(i)'
  BY <1>1, <1>2, <1>3, <1>4, <1>8 DEF CallTold
<1> QED
  BY <1>1, <1>3, <1>5, <1>7, <1>9, <1>10, PostMoves

\* A post puts its chunk on the stream.
LEMMA AddChunkStep ==
  ASSUME DeviceInv, NEW i \in Calls, AddChunk(i, "add", "mark") PROVE DeviceInv'
<1>1. /\ UNCHANGED <<queue, call, hash, conn, loose>> /\ device[i].pc = "add"
      /\ output' = [output EXCEPT ![i] = Append(output[i], device[i].chunk)]
  BY DEF AddChunk
<1>2. /\ device \in [Calls -> DeviceRow] /\ device[i] \in DeviceRow /\ DeviceRows
      /\ CallTold(i) /\ StreamTold(i) /\ RunTold(i) /\ device[i].added \in Nat
      /\ output \in [Calls -> Seq({"data", "control"})]
      /\ output[i] \in Seq({"data", "control"}) /\ Len(output[i]) \in Nat
  BY CallFacts DEF DeviceRows
<1>3. PICK r : r = [device[i] EXCEPT !.pc = "mark", !.added = @ + 1]
  OBVIOUS
<1>4. /\ r \in DeviceRow /\ r.pc = "mark" /\ r.runs = device[i].runs
      /\ r.afterwards = device[i].afterwards /\ r.added = device[i].added + 1
      /\ r.chunk = device[i].chunk
  <2>1. device[i].added + 1 \in Nat /\ device[i] \in DeviceRow
    BY <1>2
  <2> QED
    BY <1>3, <2>1 DEF DeviceRow
<1>5. /\ device' = [device EXCEPT ![i] = r] /\ device'[i] = r
      /\ device' \in [Calls -> DeviceRow]
  BY <1>2, <1>3, <1>4 DEF AddChunk
<1>6. device[i].chunk \in {"data", "control"} /\ ~Ending(i) /\ device[i].runs = 1
  <2>1. device[i].runs \in Nat /\ device[i].runs <= 1 /\ device[i].runs # 0
    BY <1>1, CallFacts DEF RunTold
  <2>2. device[i].chunk \in {"data", "control"} /\ ~Ending(i)
    BY <1>1, <1>2 DEF StreamTold, Ending
  <2> QED
    BY <2>1, <2>2
<1>7. PICK o \in Seq({"data", "control"}) :
        /\ o = Append(output[i], device[i].chunk) /\ Len(o) = Len(output[i]) + 1
        /\ o[Len(o)] = device[i].chunk
        /\ \A j \in 1..Len(output[i]) : o[j] = output[i][j]
  <2>1. \A s \in Seq({"data", "control"}), e \in {"data", "control"} :
          /\ Append(s, e) \in Seq({"data", "control"}) /\ Len(Append(s, e)) = Len(s) + 1
          /\ Append(s, e)[Len(s) + 1] = e
          /\ \A j \in 1..Len(s) : Append(s, e)[j] = s[j]
    OBVIOUS
  <2>2. PICK o : o = Append(output[i], device[i].chunk)
    OBVIOUS
  <2>3. /\ o \in Seq({"data", "control"}) /\ Len(o) = Len(output[i]) + 1
        /\ o[Len(output[i]) + 1] = device[i].chunk
        /\ \A j \in 1..Len(output[i]) : o[j] = output[i][j]
    BY <1>2, <1>6, <2>1, <2>2
  <2> QED
    BY <2>2, <2>3
<1>8. output' = [output EXCEPT ![i] = o] /\ output'[i] = o
      /\ output' \in [Calls -> Seq({"data", "control"})]
  BY <1>1, <1>2, <1>7
<1>9. DeviceRows'
  BY <1>1, <1>2, <1>5, <1>8 DEF DeviceRows
<1>10. \A j \in 1..Len(o) : o[j] = "control" => j = Len(o) /\ r.chunk = "control"
  <2>1. \A j \in 1..Len(output[i]) : output[i][j] # "control"
    BY <1>2, <1>6 DEF StreamTold
  <2>2. \A j \in 1..Len(o) : j \in 1..Len(output[i]) \/ j = Len(o)
    BY <1>2, <1>7
  <2> QED
    BY <1>4, <1>7, <2>1, <2>2
<1>11. \A j \in 1..Len(output'[i]) :
         output'[i][j] = "control" => j = Len(output'[i]) /\ Ending(i)'
  BY <1>4, <1>5, <1>8, <1>10 DEF Ending
<1>12. call[i].pc \in {"idle", "drain", "ask", "flush", "consult", "delete"} =>
         Len(output'[i]) = device'[i].added /\ call[i].got <= Len(output'[i])
  BY <1>2, <1>4, <1>5, <1>7, <1>8, CallFacts DEF StreamTold
<1>13. hash[i] # "completed"
  BY <1>1, <1>2 DEF StreamTold
<1>14. StreamTold(i)'
  BY <1>1, <1>4, <1>5, <1>6, <1>11, <1>12, <1>13 DEF StreamTold
<1>15. CallTold(i)'
  BY <1>1, <1>2, <1>6, <1>13 DEF CallTold
<1>16. \A j \in Calls : j # i => hash'[j] = hash[j] /\ output'[j] = output[j]
  BY <1>1, <1>2
<1> QED
  BY <1>1, <1>4, <1>5, <1>9, <1>14, <1>15, <1>16, PostMoves

\* A post then tells the call's hash of it; a hash that was deleted comes back as a zombie.
LEMMA MarkStep ==
  ASSUME DeviceInv, NEW i \in Calls, MarkHash(i, "mark", AfterPost(i)) PROVE DeviceInv'
<1> DEFINE h == IF ~Known(i) THEN "zombie"
                ELSE IF device[i].chunk = "control" THEN "completed" ELSE hash[i]
<1>1. /\ UNCHANGED <<queue, call, output, conn, loose>> /\ device[i].pc = "mark"
      /\ hash' = [hash EXCEPT ![i] = h]
  BY DEF MarkHash
<1>2. /\ device \in [Calls -> DeviceRow] /\ device[i] \in DeviceRow /\ DeviceRows
      /\ CallTold(i) /\ StreamTold(i) /\ RunTold(i)
      /\ hash \in [Calls -> {"none", "open", "completed", "zombie"}]
      /\ hash[i] \in {"none", "open", "completed", "zombie"}
  BY CallFacts DEF DeviceRows
<1>3. PICK p : p = AfterPost(i)
  OBVIOUS
<1>4. p = IF device[i].chunk = "control" THEN "ended" ELSE "run"
  BY <1>3 DEF AfterPost
<1>5. PICK r : r = [device[i] EXCEPT !.pc = p]
  OBVIOUS
<1>6. /\ r \in DeviceRow /\ r.pc = p /\ r.runs = device[i].runs
      /\ r.afterwards = device[i].afterwards /\ r.added = device[i].added
      /\ r.chunk = device[i].chunk
  BY <1>2, <1>4, <1>5 DEF DeviceRow
<1>7. /\ device' = [device EXCEPT ![i] = r] /\ device'[i] = r
      /\ device' \in [Calls -> DeviceRow]
  BY <1>2, <1>3, <1>5, <1>6 DEF MarkHash
<1>8. device[i].runs = 1
  BY <1>1, <1>2, CallFacts DEF RunTold
<1>9. /\ hash[i] # "completed" /\ hash'[i] = h
      /\ h \in {"none", "open", "completed", "zombie"}
      /\ h = "completed" => device[i].chunk = "control"
  BY <1>1, <1>2 DEF StreamTold
<1>10. hash' \in [Calls -> {"none", "open", "completed", "zombie"}]
  BY <1>1, <1>2, <1>9
<1>11. DeviceRows'
  BY <1>1, <1>2, <1>7, <1>10 DEF DeviceRows
<1>12. Ending(i) <=> Ending(i)'
  BY <1>1, <1>4, <1>6, <1>7 DEF Ending
<1>13. StreamTold(i)'
  <2>1. hash'[i] = "completed" => device'[i].pc = "ended"
    BY <1>4, <1>6, <1>7, <1>9
  <2> QED
    BY <1>1, <1>2, <1>4, <1>6, <1>7, <1>8, <1>12, <2>1 DEF StreamTold
<1>14. CallTold(i)'
  BY <1>1, <1>2, <1>6, <1>7, <1>9, <1>12 DEF CallTold
<1>15. \A j \in Calls : j # i => hash'[j] = hash[j] /\ output'[j] = output[j]
  BY <1>1, <1>2
<1> QED
  BY <1>1, <1>6, <1>7, <1>11, <1>13, <1>14, <1>15, PostMoves

\* Two sequences around one element that was taken out.
LEMMA JoinedParts ==
  ASSUME NEW S, NEW a \in Seq(S), NEW b \in Seq(S), NEW L \in Nat, NEW p \in 1..L,
         Len(a) = p - 1, Len(b) = L - p
  PROVE  /\ a \o b \in Seq(S) /\ Len(a \o b) = L - 1
         /\ \A q \in 1..(L - 1) : (a \o b)[q] = IF q < p THEN a[q] ELSE b[q - (p - 1)]
<1>1. /\ a \o b \in Seq(S) /\ Len(a \o b) = Len(a) + Len(b)
      /\ \A q \in 1..(Len(a) + Len(b)) :
           (a \o b)[q] = IF q <= Len(a) THEN a[q] ELSE b[q - Len(a)]
  BY ConcatProperties
<1>2. Len(a) + Len(b) = L - 1
  OBVIOUS
<1>3. \A q \in 1..(L - 1) : q <= p - 1 <=> q < p
  OBVIOUS
<1> QED
  BY <1>1, <1>2, <1>3

\* A sequence without its element at `p`.
LEMMA Removed ==
  ASSUME NEW S, NEW s \in Seq(S), NEW p \in DOMAIN s
  PROVE  LET r == SubSeq(s, 1, p - 1) \o SubSeq(s, p + 1, Len(s))
         IN /\ r \in Seq(S) /\ DOMAIN r = 1..(Len(s) - 1)
            /\ \A q \in 1..(Len(s) - 1) : r[q] = s[IF q < p THEN q ELSE q + 1]
<1>1. PICK L \in Nat : L = Len(s) /\ p \in 1..L
  OBVIOUS
<1>2. PICK a : a = SubSeq(s, 1, p - 1)
  OBVIOUS
<1>3. PICK b : b = SubSeq(s, p + 1, Len(s))
  OBVIOUS
<1>4. a \in Seq(S) /\ Len(a) = p - 1 /\ \A q \in 1..(p - 1) : a[q] = s[q]
  BY <1>1, <1>2, SubSeqProperties
<1>5. b \in Seq(S) /\ Len(b) = L - p /\ \A q \in 1..(L - p) : b[q] = s[p + q]
  <2>1. \A i \in (p + 1)..L : s[i] \in S
    BY <1>1
  <2>2. /\ b \in Seq(S) /\ Len(b) = IF p + 1 <= L THEN L - (p + 1) + 1 ELSE 0
        /\ \A q \in 1..(L - (p + 1) + 1) : b[q] = s[(p + 1) + q - 1]
    BY <1>1, <1>3, <2>1, SubSeqProperties
  <2>3. /\ (IF p + 1 <= L THEN L - (p + 1) + 1 ELSE 0) = L - p
        /\ L - (p + 1) + 1 = L - p /\ \A q \in 1..(L - p) : (p + 1) + q - 1 = p + q
    BY <1>1
  <2> QED
    BY <2>2, <2>3
<1>6. PICK r : r = a \o b
  OBVIOUS
<1>7. /\ r \in Seq(S) /\ Len(r) = L - 1
      /\ \A q \in 1..(L - 1) : r[q] = IF q < p THEN a[q] ELSE b[q - (p - 1)]
  <2>1. a \in Seq(S) /\ b \in Seq(S) /\ Len(a) = p - 1 /\ Len(b) = L - p
    BY <1>4, <1>5
  <2>2. /\ a \o b \in Seq(S) /\ Len(a \o b) = L - 1
        /\ \A q \in 1..(L - 1) : (a \o b)[q] = IF q < p THEN a[q] ELSE b[q - (p - 1)]
    BY <1>1, <2>1, JoinedParts
  <2> QED
    BY <1>6, <2>2
<1>8. ASSUME NEW q \in 1..(L - 1) PROVE r[q] = s[IF q < p THEN q ELSE q + 1]
  <2>1. CASE q < p
    <3>1. q \in 1..(p - 1)
      BY <1>1, <2>1
    <3> QED
      BY <1>4, <1>7, <2>1, <3>1
  <2>2. CASE ~(q < p)
    <3>1. q - (p - 1) \in 1..(L - p) /\ p + (q - (p - 1)) = q + 1
      BY <1>1, <2>2
    <3> QED
      BY <1>5, <1>7, <2>2, <3>1
  <2> QED
    BY <2>1, <2>2
<1>9. DOMAIN r = 1..(L - 1)
  BY <1>7
<1>10. r = SubSeq(s, 1, p - 1) \o SubSeq(s, p + 1, Len(s))
  BY <1>2, <1>3, <1>6
<1> QED
  BY <1>1, <1>7, <1>8, <1>9, <1>10

\* A step of the list and the handlers.
LEMMA EnvelopesMove ==
  ASSUME DeviceInv, UNCHANGED <<hash, output, call, device, loose>>, DeviceRows',
         OneEnvelope', HeldTold', \A i \in Calls : Underway(i)' => Underway(i)
  PROVE  DeviceInv'
<1>1. SentOnce'
  BY DEF DeviceInv, SentOnce
<1>2. \A i \in Calls : RunTold(i)' /\ StreamTold(i)' /\ CallTold(i)'
  BY DEF DeviceInv, RunTold, StreamTold, CallTold, Ending
<1> QED
  BY <1>1, <1>2 DEF DeviceInv

\* A handler that neither pops nor delivers.
LEMMA HandlerMoves ==
  ASSUME DeviceInv, UNCHANGED <<queue, hash, output, call, device, loose>>, NEW c \in Conns,
         conn' \in [Conns -> ConnRow],
         \A d \in Conns : d # c => conn'[d].pc = conn[d].pc /\ conn'[d].call = conn[d].call,
         conn'[c].pc \in {"popped", "checked"} =>
           conn[c].pc \in {"popped", "checked"} /\ conn'[c].call = conn[c].call,
         conn'[c].pc = "checked" => conn[c].pc = "checked" \/ hash[conn[c].call] # "none"
  PROVE  DeviceInv'
<1>1. \A d \in Conns, i \in Calls : Carries(d, i)' => Carries(d, i)
  BY DEF Carries
<1>2. DeviceRows'
  BY DEF DeviceInv, DeviceRows
<1>3. \A d \in Conns : conn'[d].pc \in {"popped", "checked"} =>
        conn[d].pc \in {"popped", "checked"} /\ conn'[d].call = conn[d].call
  OBVIOUS
<1>4. OneEnvelope'
  BY <1>3 DEF DeviceInv, OneEnvelope, Carries
<1>5. \A i \in Calls : Underway(i)' => Underway(i)
  BY <1>1 DEF Underway
<1>6. HeldTold'
  <2> SUFFICES ASSUME NEW d \in Conns, conn'[d].pc = "checked",
                      call[conn'[d].call].pc \in {"unqueue", "returned"}
               PROVE  conn'[d].call \in loose
    BY DEF HeldTold
  <2>1. conn'[d].call = conn[d].call /\ conn[d].call \in Calls /\ Carries(d, conn[d].call)
    BY <1>3 DEF DeviceInv, OneEnvelope, Carries
  <2>2. CASE conn[d].pc = "checked"
    BY <2>1, <2>2 DEF DeviceInv, HeldTold
  <2>3. CASE d = c /\ hash[conn[c].call] # "none"
    <3>1. device[conn[d].call].runs = 0
      BY <2>1 DEF DeviceInv, SentOnce, Underway
    <3> QED
      BY <2>1, <2>3, <3>1 DEF DeviceInv, RunTold
  <2> QED
    BY <2>2, <2>3
<1> QED
  BY <1>2, <1>4, <1>5, <1>6, EnvelopesMove

\* The steps of a connection that move no envelope.
LEMMA HandlerSteps ==
  ASSUME DeviceInv, NEW c \in Conns,
         \/ \E others \in SUBSET Conns : Connect(c, others)
         \/ Loop(c) \/ CheckReaped(c) \/ Disconnected(c)
  PROVE  DeviceInv'
<1>1. UNCHANGED <<queue, hash, output, call, device, loose>>
  BY DEF Connect, Loop, CheckReaped, Disconnected
<1>2. /\ conn \in [Conns -> ConnRow] /\ \A d \in Conns : conn[d] \in ConnRow
      /\ Down \in ConnRow /\ Down.pc = "down" /\ Down.call = "none"
  BY DEF DeviceInv, DeviceRows, Down, ConnRow
<1>3. CASE \E others \in SUBSET Conns : Connect(c, others)
  <2>1. PICK others \in SUBSET Conns : Connect(c, others)
    BY <1>3
  <2>2. PICK r : r = [Down EXCEPT !.pc = "loop"]
    OBVIOUS
  <2>3. r \in ConnRow /\ r.pc = "loop"
    BY <2>2 DEF Down, ConnRow
  <2>4. conn' = [d \in Conns |-> IF d = c THEN r
                   ELSE [conn[d] EXCEPT !.closed = @ \/ d \notin others]]
    BY <2>1, <2>2 DEF Connect
  <2>5. ASSUME NEW d \in Conns, d # c
        PROVE  conn'[d] \in ConnRow /\ conn'[d].pc = conn[d].pc /\ conn'[d].call = conn[d].call
    <3>1. PICK b \in BOOLEAN : b = (conn[d].closed \/ d \notin others)
      OBVIOUS
    <3>2. conn'[d] = [conn[d] EXCEPT !.closed = b]
      BY <2>4, <2>5, <3>1
    <3> QED
      BY <1>2, <3>2 DEF ConnRow
  <2>6. conn' \in [Conns -> ConnRow] /\ conn'[c].pc = "loop"
    BY <2>3, <2>4, <2>5
  <2> QED
    BY <1>1, <2>5, <2>6, HandlerMoves
<1>4. ASSUME NEW r \in ConnRow, conn' = [conn EXCEPT ![c] = r],
             r.pc \notin {"popped", "checked"}
      PROVE  DeviceInv'
  <2>1. conn' \in [Conns -> ConnRow] /\ conn'[c] = r /\ \A d \in Conns : d # c => conn'[d] = conn[d]
    BY <1>2, <1>4
  <2> QED
    BY <1>1, <1>4, <2>1, HandlerMoves
<1>5. CASE Loop(c)
  <2>1. PICK r : r = [conn[c] EXCEPT !.pc = "block"]
    OBVIOUS
  <2>2. r \in ConnRow /\ r.pc = "block"
    BY <1>2, <2>1 DEF ConnRow
  <2>3. conn' = [conn EXCEPT ![c] = r] \/ conn' = [conn EXCEPT ![c] = Down]
    BY <1>5, <2>1 DEF Loop, ConnGoes
  <2> QED
    BY <1>2, <1>4, <2>2, <2>3
<1>6. CASE CheckReaped(c)
  <2>1. CASE conn' = [conn EXCEPT ![c].pc = "loop", ![c].call = "none"]
    <3>1. PICK r : r = [conn[c] EXCEPT !.pc = "loop", !.call = "none"]
      OBVIOUS
    <3>2. r \in ConnRow /\ r.pc = "loop"
      BY <1>2, <3>1 DEF ConnRow
    <3>3. conn' = [conn EXCEPT ![c] = r]
      BY <2>1, <3>1
    <3> QED
      BY <1>4, <3>2, <3>3
  <2>2. CASE ~Reaped(conn[c].call) /\ ConnGoes(c, "checked")
    <3>1. PICK r : r = [conn[c] EXCEPT !.pc = "checked"]
      OBVIOUS
    <3>2. r \in ConnRow /\ r.pc = "checked" /\ r.call = conn[c].call
      BY <1>2, <3>1 DEF ConnRow
    <3>3. conn' = [conn EXCEPT ![c] = r] /\ conn[c].pc = "popped" /\ hash[conn[c].call] # "none"
      BY <1>6, <2>2, <3>1 DEF CheckReaped, ConnGoes, Reaped
    <3>4. conn' \in [Conns -> ConnRow] /\ conn'[c] = r
          /\ \A d \in Conns : d # c => conn'[d] = conn[d]
      BY <1>2, <3>2, <3>3
    <3> QED
      BY <1>1, <3>2, <3>3, <3>4, HandlerMoves
  <2> QED
    BY <1>6, <2>1, <2>2 DEF CheckReaped
<1>7. CASE Disconnected(c)
  BY <1>2, <1>4, <1>7 DEF Disconnected
<1> QED
  BY <1>3, <1>5, <1>6, <1>7

\* A connection takes the envelope at the head of the queue, or loses it, or gets nothing.
LEMMA PopStep ==
  ASSUME DeviceInv, NEW c \in Conns, PopCommand(c) PROVE DeviceInv'
<1>1. UNCHANGED <<hash, output, call, device, loose>> /\ conn[c].pc = "block"
  BY DEF PopCommand
<1>2. /\ conn \in [Conns -> ConnRow] /\ conn[c] \in ConnRow /\ queue \in Seq(Calls)
      /\ DeviceRows
  BY DEF DeviceInv, DeviceRows
<1>3. CASE /\ queue # <<>> /\ queue' = Tail(queue)
           /\ conn' = [conn EXCEPT ![c].pc = "popped", ![c].call = Head(queue)]
  <2>1. PICK r : r = [conn[c] EXCEPT !.pc = "popped", !.call = Head(queue)]
    OBVIOUS
  <2>2. /\ queue[1] \in Calls /\ Head(queue) = queue[1] /\ 1 \in DOMAIN queue
        /\ Tail(queue) \in Seq(Calls) /\ DOMAIN Tail(queue) = 1..(Len(queue) - 1)
        /\ \A p \in 1..(Len(queue) - 1) : Tail(queue)[p] = queue[p + 1] /\ p + 1 \in DOMAIN queue
                                          /\ p + 1 # 1
    BY <1>2, <1>3
  <2>3. r \in ConnRow /\ r.pc = "popped" /\ r.call = queue[1]
    BY <1>2, <2>1, <2>2 DEF ConnRow
  <2>4. conn' = [conn EXCEPT ![c] = r] /\ queue' = Tail(queue)
    BY <1>3, <2>1
  <2>5. conn'[c] = r /\ (\A d \in Conns : d # c => conn'[d] = conn[d])
        /\ conn' \in [Conns -> ConnRow]
    BY <1>2, <2>3, <2>4
  <2>6. DeviceRows'
    BY <1>1, <1>2, <2>2, <2>4, <2>5 DEF DeviceRows
  <2>7. \A d \in Conns, i \in Calls : Carries(d, i)' <=> Carries(d, i) \/ (d = c /\ i = queue[1])
    BY <1>1, <2>3, <2>5 DEF Carries
  <2>8. OneEnvelope /\ \A d \in Conns : ~Carries(d, queue[1])
    BY <2>2 DEF DeviceInv, OneEnvelope
  <2>9. OneEnvelope'
    <3>1. \A p, q \in DOMAIN queue' : queue'[p] = queue'[q] => p = q
      <4> SUFFICES ASSUME NEW p \in 1..(Len(queue) - 1), NEW q \in 1..(Len(queue) - 1),
                          queue[p + 1] = queue[q + 1]
                   PROVE  p = q
        BY <2>2, <2>4
      <4>1. p + 1 \in DOMAIN queue /\ q + 1 \in DOMAIN queue
        BY <2>2
      <4>2. p + 1 = q + 1
        BY <2>8, <4>1 DEF OneEnvelope
      <4> QED
        BY <4>2
    <3>2. \A d \in Conns, p \in DOMAIN queue' : ~Carries(d, queue[p])'
      <4> SUFFICES ASSUME NEW d \in Conns, NEW p \in 1..(Len(queue) - 1)
                   PROVE  ~(conn'[d].pc \in {"popped", "checked"} /\ conn'[d].call = queue[p + 1])
        BY <2>2, <2>4 DEF Carries
      <4>1. p + 1 \in DOMAIN queue /\ p + 1 # 1
        BY <2>2
      <4>2. ~Carries(d, queue[p + 1]) /\ queue[p + 1] # queue[1]
        BY <2>2, <2>8, <4>1 DEF OneEnvelope
      <4>3. CASE d = c
        BY <2>3, <2>5, <4>2, <4>3
      <4>4. CASE d # c
        BY <2>5, <4>2, <4>4 DEF Carries
      <4> QED
        BY <4>3, <4>4
    <3>3. \A d, e \in Conns, i \in Calls : Carries(d, i)' /\ Carries(e, i)' => d = e
      BY <2>7, <2>8 DEF OneEnvelope
    <3>4. \A d \in Conns : conn'[d].pc \in {"popped", "checked"} => conn'[d].call \in Calls
      BY <2>2, <2>3, <2>5, <2>8 DEF OneEnvelope
    <3> QED
      BY <3>1, <3>2, <3>3, <3>4 DEF OneEnvelope, Carries
  <2>10. \A i \in Calls : Underway(i)' => Underway(i)
    BY <2>2, <2>4, <2>7 DEF Underway
  <2>11. HeldTold'
    BY <1>1, <2>3, <2>5 DEF DeviceInv, HeldTold
  <2> QED
    BY <1>1, <2>6, <2>9, <2>10, <2>11, EnvelopesMove
<1>4. ASSUME ConnGoes(c, "loop") PROVE /\ conn' \in [Conns -> ConnRow] /\ conn'[c].pc = "loop"
                                      /\ \A d \in Conns : d # c => conn'[d] = conn[d]
  <2>1. PICK r : r = [conn[c] EXCEPT !.pc = "loop"]
    OBVIOUS
  <2>2. r \in ConnRow /\ r.pc = "loop"
    BY <1>2, <2>1 DEF ConnRow
  <2>3. conn' = [conn EXCEPT ![c] = r]
    BY <1>4, <2>1 DEF ConnGoes
  <2> QED
    BY <1>2, <2>2, <2>3
<1>5. CASE ConnGoes(c, "loop") /\ UNCHANGED queue
  BY <1>1, <1>4, <1>5, HandlerMoves
<1>6. CASE queue # <<>> /\ queue' = Tail(queue) /\ ConnGoes(c, "loop")
  <2>1. /\ Tail(queue) \in Seq(Calls) /\ DOMAIN Tail(queue) = 1..(Len(queue) - 1)
        /\ \A p \in 1..(Len(queue) - 1) : Tail(queue)[p] = queue[p + 1] /\ p + 1 \in DOMAIN queue
    BY <1>2, <1>6
  <2>2. DeviceRows'
    BY <1>1, <1>2, <1>4, <1>6, <2>1 DEF DeviceRows
  <2>3. \A d \in Conns, i \in Calls : Carries(d, i)' => Carries(d, i)
    BY <1>4, <1>6 DEF Carries
  <2>4. OneEnvelope'
    <3>1. OneEnvelope
      BY DEF DeviceInv
    <3>2. \A p, q \in DOMAIN queue' : queue'[p] = queue'[q] => p = q
      <4> SUFFICES ASSUME NEW p \in 1..(Len(queue) - 1), NEW q \in 1..(Len(queue) - 1),
                          queue[p + 1] = queue[q + 1]
                   PROVE  p = q
        BY <1>6, <2>1
      <4>1. p + 1 = q + 1
        BY <2>1, <3>1 DEF OneEnvelope
      <4> QED
        BY <4>1
    <3>3. \A d \in Conns, p \in DOMAIN queue' :
            ~(conn'[d].pc \in {"popped", "checked"} /\ conn'[d].call = queue'[p])
      <4> SUFFICES ASSUME NEW d \in Conns, NEW p \in 1..(Len(queue) - 1),
                          conn'[d].pc \in {"popped", "checked"}
                   PROVE  conn'[d].call # queue[p + 1]
        BY <1>6, <2>1
      <4>1. d # c /\ conn'[d] = conn[d]
        BY <1>4, <1>6
      <4> QED
        BY <2>1, <3>1, <4>1 DEF OneEnvelope, Carries
    <3>4. /\ \A d, f \in Conns, i \in Calls : Carries(d, i)' /\ Carries(f, i)' => d = f
          /\ \A d \in Conns : conn'[d].pc \in {"popped", "checked"} => conn'[d].call \in Calls
      BY <1>4, <1>6, <2>3, <3>1 DEF OneEnvelope
    <3> QED
      BY <3>2, <3>3, <3>4 DEF OneEnvelope, Carries
  <2>5. \A i \in Calls : Underway(i)' => Underway(i)
    BY <1>6, <2>1, <2>3 DEF Underway
  <2>6. HeldTold'
    BY <1>1, <1>4, <1>6 DEF DeviceInv, HeldTold
  <2> QED
    BY <1>1, <2>2, <2>4, <2>5, <2>6, EnvelopesMove
<1> QED
  BY <1>3, <1>5, <1>6 DEF PopCommand

\* A connection hands its envelope to the device, which runs the command.
LEMMA DeliverStep ==
  ASSUME DeviceInv, NEW c \in Conns, Deliver(c) PROVE DeviceInv'
<1>1. PICK i : i = conn[c].call
  OBVIOUS
<1>2. /\ UNCHANGED <<queue, hash, output, call, loose>> /\ conn[c].pc = "checked"
      /\ conn \in [Conns -> ConnRow] /\ conn[c] \in ConnRow
      /\ i \in Calls /\ Carries(c, i)
  BY <1>1 DEF Deliver, DeviceInv, DeviceRows, OneEnvelope, Carries
<1>3. PICK r : r = [conn[c] EXCEPT !.pc = "loop", !.call = "none"]
  OBVIOUS
<1>4. /\ r \in ConnRow /\ r.pc = "loop" /\ conn' = [conn EXCEPT ![c] = r]
  BY <1>2, <1>3 DEF ConnRow, Deliver
<1>5. /\ conn' \in [Conns -> ConnRow] /\ conn'[c] = r
      /\ \A d \in Conns : d # c => conn'[d] = conn[d]
  BY <1>2, <1>4
<1>6. CASE UNCHANGED device
  BY <1>2, <1>4, <1>5, <1>6, HandlerMoves
<1>7. CASE device' = [device EXCEPT ![i].pc = "run", ![i].runs = @ + 1,
                                    ![i].afterwards = CallAt(i, "returned")]
  <2>1. PICK b \in BOOLEAN : b = CallAt(i, "returned")
    BY DEF CallAt
  <2>2. PICK d : d = [device[i] EXCEPT !.pc = "run", !.runs = @ + 1, !.afterwards = b]
    OBVIOUS
  <2>3. /\ device \in [Calls -> DeviceRow] /\ device[i] \in DeviceRow /\ DeviceRows
        /\ CallTold(i) /\ StreamTold(i) /\ RunTold(i) /\ OneEnvelope
    BY <1>2, CallFacts DEF DeviceRows, DeviceInv
  <2>4. device[i].runs = 0 /\ call[i].pc # "idle" /\ Underway(i)
    BY <1>2 DEF DeviceInv, SentOnce, Underway
  <2>5. /\ d \in DeviceRow /\ d.pc = "run" /\ d.runs = 1 /\ d.afterwards = b
        /\ d.added = device[i].added /\ d.chunk = device[i].chunk
    <3>1. device[i].runs + 1 = 1 /\ 1 \in Nat
      BY <2>4
    <3> QED
      BY <2>2, <2>3, <3>1 DEF DeviceRow
  <2>6. device' = [device EXCEPT ![i] = d]
    <3>1. device' = [device EXCEPT ![i].pc = "run", ![i].runs = @ + 1, ![i].afterwards = b]
      BY <1>7, <2>1
    <3>2. device' = [device EXCEPT ![i] =
                       [device[i] EXCEPT !.pc = "run", !.runs = @ + 1, !.afterwards = b]]
      BY <2>3, <3>1
    <3> QED
      BY <2>2, <3>2
  <2>7. /\ device'[i] = d /\ device' \in [Calls -> DeviceRow]
        /\ \A j \in Calls : j # i => device'[j] = device[j]
    BY <1>2, <2>3, <2>5, <2>6
  <2>8. DeviceRows'
    BY <1>2, <1>5, <2>3, <2>7 DEF DeviceRows
  <2>9. \A e \in Conns, j \in Calls : Carries(e, j)' => Carries(e, j) /\ j # i
    BY <1>2, <1>4, <1>5, <2>3 DEF Carries, OneEnvelope
  <2>10. OneEnvelope'
    BY <1>2, <1>4, <1>5, <2>3 DEF OneEnvelope, Carries
  <2>11. \A j \in Calls : Underway(j)' => Underway(j) /\ j # i
    <3>1. \A p \in DOMAIN queue : queue[p] # i
      BY <1>2, <2>3 DEF OneEnvelope
    <3> QED
      BY <1>2, <2>9, <3>1 DEF Underway
  <2>12. SentOnce'
    BY <1>2, <2>4, <2>7, <2>11 DEF DeviceInv, SentOnce
  <2>13. HeldTold'
    BY <1>2, <1>4, <1>5 DEF DeviceInv, HeldTold
  <2>14. b => i \in loose
    BY <1>1, <1>2, <2>1 DEF DeviceInv, HeldTold, CallAt
  <2>15. RunTold(i)'
    BY <1>2, <2>5, <2>7, <2>14 DEF RunTold
  <2>16. device[i].pc = "none" /\ hash[i] \in {"none", "open"} /\ ~Ending(i) /\ ~Ending(i)'
    BY <2>3, <2>4, <2>5, <2>7 DEF RunTold, Ending
  <2>17. StreamTold(i)'
    BY <1>2, <2>3, <2>5, <2>7, <2>16 DEF StreamTold
  <2>18. CallTold(i)'
    BY <1>2, <2>3, <2>5, <2>7, <2>16 DEF CallTold
  <2>19. ASSUME NEW j \in Calls, j # i PROVE RunTold(j)' /\ StreamTold(j)' /\ CallTold(j)'
    BY <1>2, <2>7, <2>19 DEF DeviceInv, RunTold, StreamTold, CallTold, Ending
  <2> QED
    BY <2>8, <2>10, <2>12, <2>13, <2>15, <2>17, <2>18, <2>19 DEF DeviceInv
<1> QED
  BY <1>1, <1>6, <1>7 DEF Deliver

\* A caller writes the hash and queues the envelope, or fails on the way.
LEMMA SendStep ==
  ASSUME DeviceInv, NEW i \in Calls, Send(i) PROVE DeviceInv'
<1>1. UNCHANGED <<output, conn, device, loose>> /\ call[i].pc = "idle"
  BY DEF Send, CallAt
<1>2. PICK pc \in {"drain", "undo"}, h \in {hash[i], "open"} :
        /\ CallGoes(i, pc) /\ hash' = [hash EXCEPT ![i] = h]
        /\ queue' \in {queue, Append(queue, i)}
  BY DEF Send
<1>3. /\ call \in [Calls -> CallRow] /\ call[i] \in CallRow /\ DeviceRows
      /\ CallTold(i) /\ StreamTold(i) /\ RunTold(i)
      /\ hash \in [Calls -> {"none", "open", "completed", "zombie"}]
      /\ queue \in Seq(Calls)
  BY CallFacts DEF DeviceRows
<1>4. PICK r : r = [call[i] EXCEPT !.pc = pc]
  OBVIOUS
<1>5. /\ r \in CallRow /\ r.pc = pc /\ r.late = call[i].late /\ r.got = call[i].got
      /\ r.result = call[i].result
  BY <1>3, <1>4 DEF CallRow
<1>6. call' = [call EXCEPT ![i] = r]
  BY <1>2, <1>4 DEF CallGoes
<1>7. /\ call'[i] = r /\ hash'[i] = h /\ call' \in [Calls -> CallRow]
      /\ hash' \in [Calls -> {"none", "open", "completed", "zombie"}]
      /\ \A j \in Calls : j # i => call'[j] = call[j] /\ hash'[j] = hash[j]
  BY <1>2, <1>3, <1>5, <1>6
<1>8. /\ queue' \in Seq(Calls) /\ Len(queue) \in Nat /\ DOMAIN queue = 1..Len(queue)
      /\ \A p \in 1..Len(queue) : queue'[p] = queue[p]
      /\ \A p \in DOMAIN queue' :
           p \in 1..Len(queue) \/ (p = Len(queue) + 1 /\ queue'[p] = i)
  <2>1. CASE queue' = queue
    BY <1>3, <2>1
  <2>2. CASE queue' = Append(queue, i)
    BY <1>3, <2>2
  <2> QED
    BY <1>2, <2>1, <2>2
<1>9. ~Underway(i) /\ device[i].runs = 0 /\ hash[i] = "none" /\ output[i] = <<>>
  BY <1>1 DEF DeviceInv, SentOnce
<1>20. h \in {"none", "open"}
  BY <1>2, <1>9
<1>10. DeviceRows'
  BY <1>1, <1>3, <1>7, <1>8 DEF DeviceRows
<1>11. \A p \in DOMAIN queue' : p \in DOMAIN queue \/ (p = Len(queue) + 1 /\ queue'[p] = i)
  BY <1>8
<1>12. OneEnvelope'
  <2>1. OneEnvelope
    BY DEF DeviceInv
  <2>2. \A p, q \in DOMAIN queue' : queue'[p] = queue'[q] => p = q
    BY <1>8, <1>9, <1>11, <2>1 DEF OneEnvelope, Underway
  <2>3. \A c \in Conns, p \in DOMAIN queue' :
          ~(conn[c].pc \in {"popped", "checked"} /\ conn[c].call = queue'[p])
    BY <1>8, <1>9, <1>11, <2>1 DEF OneEnvelope, Underway, Carries
  <2> QED
    BY <1>1, <2>1, <2>2, <2>3 DEF OneEnvelope, Carries
<1>13. \A j \in Calls : Underway(j)' => Underway(j) \/ j = i
  BY <1>1, <1>8, <1>11 DEF Underway, Carries
<1>14. SentOnce'
  BY <1>1, <1>5, <1>7, <1>9, <1>13 DEF DeviceInv, SentOnce
<1>15. HeldTold'
  <2> SUFFICES ASSUME NEW c \in Conns, conn[c].pc = "checked",
                      call'[conn[c].call].pc \in {"unqueue", "returned"}
               PROVE  conn[c].call \in loose
    BY <1>1 DEF HeldTold
  <2>1. conn[c].call \in Calls /\ conn[c].call # i
    BY <1>9 DEF DeviceInv, OneEnvelope, Underway, Carries
  <2> QED
    BY <1>7, <2>1 DEF DeviceInv, HeldTold
<1>16. RunTold(i)'
  BY <1>1, <1>3, <1>5, <1>7, <1>20 DEF RunTold
<1>17. StreamTold(i)'
  BY <1>1, <1>3, <1>5, <1>7, <1>20 DEF StreamTold, Ending
<1>18. CallTold(i)'
  BY <1>1, <1>3, <1>5, <1>7 DEF CallTold, Ending
<1>19. ASSUME NEW j \in Calls, j # i PROVE RunTold(j)' /\ StreamTold(j)' /\ CallTold(j)'
  BY <1>1, <1>7, <1>19 DEF DeviceInv, RunTold, StreamTold, CallTold, Ending
<1> QED
  BY <1>10, <1>12, <1>14, <1>15, <1>16, <1>17, <1>18, <1>19 DEF DeviceInv

\* A caller that is done takes its envelope back, if the queue still has it.
LEMMA UnqueueStep ==
  ASSUME DeviceInv, NEW i \in Calls, Unqueue(i) PROVE DeviceInv'
<1>1. /\ UNCHANGED <<hash, output, conn, device, loose>> /\ call[i].pc = "unqueue"
      /\ CallGoes(i, "returned")
  BY DEF Unqueue, CallAt
<1>2. /\ call \in [Calls -> CallRow] /\ call[i] \in CallRow /\ DeviceRows
      /\ CallTold(i) /\ StreamTold(i) /\ RunTold(i) /\ queue \in Seq(Calls)
  BY CallFacts DEF DeviceRows
<1>3. PICK r : r = [call[i] EXCEPT !.pc = "returned"]
  OBVIOUS
<1>4. /\ r \in CallRow /\ r.pc = "returned" /\ r.late = call[i].late /\ r.got = call[i].got
      /\ r.cut = call[i].cut /\ r.result = call[i].result
  BY <1>2, <1>3 DEF CallRow
<1>5. call' = [call EXCEPT ![i] = r]
  BY <1>1, <1>3 DEF CallGoes
<1>6. /\ call'[i] = r /\ call' \in [Calls -> CallRow]
      /\ \A j \in Calls : j # i => call'[j] = call[j]
  BY <1>2, <1>4, <1>5
\* Each element of the list that is left was there, at a place of its own.
<1>7. /\ queue' \in Seq(Calls)
      /\ \E f \in [DOMAIN queue' -> DOMAIN queue] :
           /\ \A p \in DOMAIN queue' : queue'[p] = queue[f[p]]
           /\ \A p, q \in DOMAIN queue' : f[p] = f[q] => p = q
  <2>1. CASE UNCHANGED queue
    <3>1. PICK f : f = [p \in DOMAIN queue |-> p]
      OBVIOUS
    <3> QED
      BY <1>2, <2>1, <3>1
  <2>2. CASE \E p \in DOMAIN queue :
               queue' = SubSeq(queue, 1, p - 1) \o SubSeq(queue, p + 1, Len(queue))
    <3>1. PICK p \in DOMAIN queue :
            queue' = SubSeq(queue, 1, p - 1) \o SubSeq(queue, p + 1, Len(queue))
      BY <2>2
    <3>2. PICK L \in Nat : L = Len(queue) /\ DOMAIN queue = 1..L /\ p \in 1..L
      BY <1>2
    <3>3. /\ queue' \in Seq(Calls) /\ DOMAIN queue' = 1..(L - 1)
          /\ \A q \in 1..(L - 1) : queue'[q] = queue[IF q < p THEN q ELSE q + 1]
      BY <1>2, <3>1, <3>2, Removed
    <3>4. PICK f : f = [q \in 1..(L - 1) |-> IF q < p THEN q ELSE q + 1]
      OBVIOUS
    <3>5. f \in [1..(L - 1) -> 1..L]
      BY <3>2, <3>4
    <3>6. \A q, m \in 1..(L - 1) : f[q] = f[m] => q = m
      BY <3>2, <3>4
    <3>7. \A q \in 1..(L - 1) : queue'[q] = queue[f[q]]
      BY <3>3, <3>4
    <3> QED
      BY <3>2, <3>3, <3>5, <3>6, <3>7
  <2> QED
    BY <2>1, <2>2 DEF Unqueue
<1>8. PICK f \in [DOMAIN queue' -> DOMAIN queue] :
        /\ \A p \in DOMAIN queue' : queue'[p] = queue[f[p]]
        /\ \A p, q \in DOMAIN queue' : f[p] = f[q] => p = q
  BY <1>7
<1>9. DeviceRows'
  BY <1>1, <1>2, <1>6, <1>7 DEF DeviceRows
<1>10. OneEnvelope'
  <2>1. OneEnvelope
    BY DEF DeviceInv
  <2>2. \A p, q \in DOMAIN queue' : queue'[p] = queue'[q] => p = q
    BY <1>8, <2>1 DEF OneEnvelope
  <2>3. \A c \in Conns, p \in DOMAIN queue' :
          ~(conn[c].pc \in {"popped", "checked"} /\ conn[c].call = queue'[p])
    BY <1>8, <2>1 DEF OneEnvelope, Carries
  <2> QED
    BY <1>1, <2>1, <2>2, <2>3 DEF OneEnvelope, Carries
<1>11. \A j \in Calls : Underway(j)' => Underway(j)
  BY <1>1, <1>8 DEF Underway, Carries
<1>12. SentOnce'
  BY <1>1, <1>4, <1>6, <1>11 DEF DeviceInv, SentOnce
<1>13. HeldTold'
  <2> SUFFICES ASSUME NEW c \in Conns, conn[c].pc = "checked",
                      call'[conn[c].call].pc \in {"unqueue", "returned"}
               PROVE  conn[c].call \in loose
    BY <1>1 DEF HeldTold
  <2>1. conn[c].call \in Calls
    BY DEF DeviceInv, OneEnvelope
  <2>2. call[conn[c].call].pc \in {"unqueue", "returned"}
    BY <1>1, <1>6, <2>1
  <2> QED
    BY <2>2 DEF DeviceInv, HeldTold
<1>14. RunTold(i)'
  BY <1>1, <1>2, <1>4, <1>6 DEF RunTold
<1>15. StreamTold(i)'
  BY <1>1, <1>2, <1>4, <1>6 DEF StreamTold, Ending
<1>16. CallTold(i)'
  BY <1>1, <1>2, <1>4, <1>6 DEF CallTold, Ending
<1>17. ASSUME NEW j \in Calls, j # i PROVE RunTold(j)' /\ StreamTold(j)' /\ CallTold(j)'
  BY <1>1, <1>6, <1>17 DEF DeviceInv, RunTold, StreamTold, CallTold, Ending
<1> QED
  BY <1>9, <1>10, <1>12, <1>13, <1>14, <1>15, <1>16, <1>17 DEF DeviceInv

\* A step that changes nothing of the call keeps the invariant.
LEMMA DeviceSame ==
  ASSUME DeviceInv, UNCHANGED <<queue, hash, output, call, conn, device, loose>>
  PROVE  DeviceInv'
BY DEF DeviceInv, DeviceRows, OneEnvelope, Carries, SentOnce, Underway, HeldTold, RunTold,
       StreamTold, CallTold, Ending

\* The chunk is on the stream before the hash tells of it.
LEMMA SubmitStep ==
  ASSUME DeviceInv, NEW i \in Calls, SubmitChunk(i) PROVE DeviceInv'
BY AddChunkStep, MarkStep DEF SubmitChunk

\* Each step of a caller, a post, a connection and the poll keep the invariant.
LEMMA DeviceStep ==
  ASSUME DeviceInv, [DeviceNext]_deviceVars PROVE DeviceInv'
<1>1. ASSUME NEW i \in Calls, CallStep(i) PROVE DeviceInv'
  BY <1>1, SendStep, UnqueueStep, DrainSteps, ReadStep, CleanSteps DEF CallStep
<1>2. ASSUME NEW i \in Calls, PostStep(i) PROVE DeviceInv'
  BY <1>2, PostSteps, SubmitStep DEF PostStep
<1>3. ASSUME NEW c \in Conns, ConnStep(c) PROVE DeviceInv'
  BY <1>3, HandlerSteps, PopStep, DeliverStep DEF ConnStep
<1>4. CASE Poll
  BY <1>4, DeviceSame DEF Poll
<1>5. CASE UNCHANGED deviceVars
  BY <1>5, DeviceSame DEF deviceVars
<1> QED
  BY <1>1, <1>2, <1>3, <1>4, <1>5 DEF DeviceNext

\* Nothing was sent, queued or run.
LEMMA DeviceStart ==
  ASSUME DeviceInit PROVE DeviceInv
<1>1. /\ NewCall \in CallRow /\ NewCall.pc = "idle" /\ NewCall.got = 0
      /\ NewCall.result = "none" /\ ~NewCall.cut /\ Down \in ConnRow /\ Down.pc = "down"
      /\ Unseen \in DeviceRow /\ Unseen.pc = "none" /\ Unseen.runs = 0
      /\ ~Unseen.afterwards /\ Unseen.added = 0
  BY DEF NewCall, CallRow, Down, ConnRow, Unseen, DeviceRow
<1>2. <<>> \in Seq({"data", "control"}) /\ <<>> \in Seq(Calls) /\ Len(<<>>) = 0
      /\ DOMAIN <<>> = {}
  OBVIOUS
<1>3. DeviceRows
  BY <1>1, <1>2 DEF DeviceInit, DeviceRows
<1>4. /\ queue = <<>> /\ \A c \in Conns : conn[c] = Down
      /\ \A i \in Calls : call[i] = NewCall /\ device[i] = Unseen /\ hash[i] = "none"
                          /\ output[i] = <<>>
  BY DEF DeviceInit
<1>5. OneEnvelope /\ SentOnce /\ HeldTold
  BY <1>1, <1>2, <1>4 DEF OneEnvelope, Carries, SentOnce, Underway, HeldTold
<1>6. \A i \in Calls : RunTold(i) /\ StreamTold(i) /\ CallTold(i)
  BY <1>1, <1>2, <1>4 DEF RunTold, StreamTold, CallTold, Ending
<1> QED
  BY <1>3, <1>5, <1>6 DEF DeviceInv

\* A call that ends in time and without a failed read returns every chunk that was put on
\* its stream, and a command runs at most once, and after its call only if a handler held it
\* when the call gave it up, or Redis failed the clean-up.
THEOREM DeviceSafeHolds == DeviceSpec => []DeviceSafe
<1>1. DeviceInv => DeviceSafe
  BY DEF DeviceInv, DeviceSafe, OutputComplete, RunsOnceInTime, RunTold, CallTold
<1> QED
  BY <1>1, DeviceStart, DeviceStep, PTL DEF DeviceSpec

-----------------------------------------------------------------------------
(* UserEvents.  Lines go up, beyond what was heard and up to the floor; the *)
(* connection holds events in order but for those that slipped.  So every   *)
(* event behind the cursor was told, every event up to the floor was told   *)
(* or is in the lines, and every event beyond it was told, is not out yet   *)
(* or waits in the connection.                                              *)

PipeRow ==
  [pc : {"off", "opened", "subscribed", "probed", "live", "draining"},
   lines : Seq(Nat), inbox : Seq(Nat), floor : Int, edge : Int, heard : SUBSET Int]

\* The types of EventsTypeOK, without its bounds.
EventRows ==
  /\ feed \in [last : Nat, oldest : Int, young : Int, unsent : SUBSET Nat]
  /\ \A e \in feed.unsent : e <= feed.last
  /\ pipe \in PipeRow
  /\ client \in [cursor : Nat, base : Nat, got : SUBSET Int, twice : SUBSET Int]

Sending == pipe.pc \in {"live", "draining"}

\* Lines go up, beyond what was heard and not beyond the floor.
LinesTold ==
  /\ \A i, j \in DOMAIN pipe.lines : i < j => pipe.lines[i] < pipe.lines[j]
  /\ \A i \in DOMAIN pipe.lines : /\ pipe.lines[i] <= pipe.floor \/ pipe.lines[i] = Notice
                                  /\ \A e \in pipe.heard : e < pipe.lines[i]
  /\ pipe.pc = "probed" => pipe.lines = IF client.cursor < pipe.edge THEN <<Notice>> ELSE <<>>
  /\ ~Sending => pipe.floor = 0 /\ pipe.heard = {}
  /\ pipe.pc \in {"off", "opened", "subscribed"} => pipe.lines = <<>>

\* What waits in the connection was published once, and in order but for what slipped.
InboxTold ==
  /\ \A i \in DOMAIN pipe.inbox : pipe.inbox[i] <= feed.last /\ pipe.inbox[i] \notin feed.unsent
  /\ \A i, j \in DOMAIN pipe.inbox : i < j =>
       /\ pipe.inbox[i] # pipe.inbox[j]
       /\ pipe.inbox[j] \in slips \/ pipe.inbox[i] < pipe.inbox[j]

\* An event that was heard comes no more.
HeardOnce ==
  \A e \in pipe.heard :
    \/ e <= pipe.floor
    \/ /\ e <= feed.last /\ e \notin feed.unsent
       /\ \A i \in DOMAIN pipe.inbox : pipe.inbox[i] # e

Told(e) == e \in client.got \cup slips \cup cut \/ (e \in feed.unsent /\ Late(e))

\* Where the promise begins once the notice on its way is sent.
Begin ==
  IF pipe.lines # <<>> /\ pipe.lines[1] = Notice /\ client.base < pipe.edge - 1
    THEN pipe.edge - 1 ELSE client.base

InLines(e) == \E i \in DOMAIN pipe.lines : pipe.lines[i] = e
InInbox(e) == \E i \in DOMAIN pipe.inbox : pipe.inbox[i] = e

BehindTold == \A e \in client.base + 1..client.cursor : Told(e)
FloorTold == Sending => \A e \in Begin + 1..pipe.floor : Told(e) \/ InLines(e)
AheadTold == pipe.pc = "live" =>
  \A e \in Begin + 1..feed.last :
    e > pipe.floor => Told(e) \/ e \in feed.unsent \/ InInbox(e)

EventsInv ==
  /\ EventRows /\ LinesTold /\ InboxTold /\ HeardOnce
  /\ BehindTold /\ FloorTold /\ AheadTold
  /\ client.twice = {}

\* The larger of two integers.
LEMMA MaxPair ==
  ASSUME NEW a \in Int, NEW b \in Int
  PROVE  Max({a, b}) = IF a < b THEN b ELSE a
<1> DEFINE m == IF a < b THEN b ELSE a
<1>1. m \in {a, b} /\ \A y \in {a, b} : m >= y
  OBVIOUS
<1>2. \A k \in {a, b} : (\A y \in {a, b} : k >= y) => k = m
  BY <1>1
<1> QED
  BY <1>1, <1>2 DEF Max

\* The steps that do not touch the reader and its events.
LEMMA EventsSame ==
  ASSUME EventsInv, UNCHANGED <<feed, pipe, client, slips, cut>>
  PROVE  EventsInv'
BY DEF EventsInv, EventRows, Sending, LinesTold, InboxTold, HeardOnce, Told, Late, Begin,
       InLines, InInbox, BehindTold, FloorTold, AheadTold

\* The fields of a connection.
LEMMA APipe ==
  ASSUME NEW p \in {"off", "opened", "subscribed", "probed", "live", "draining"},
         NEW lines \in Seq(Nat), NEW inbox \in Seq(Nat), NEW heard \in SUBSET Int,
         NEW r, r = [pc |-> p, lines |-> lines, inbox |-> inbox, floor |-> 0, edge |-> 0,
                     heard |-> heard]
  PROVE  r \in PipeRow
BY DEF PipeRow

\* The connection ends, or a new one begins.
LEMMA PipeAnew ==
  ASSUME EventsInv, UNCHANGED <<feed, client, slips, cut>>,
         NEW p \in {"off", "opened"}, pipe' = [NoPipe EXCEPT !.pc = p]
  PROVE  EventsInv'
<1>1. PICK none, nobody : none = <<>> /\ nobody = {}
  OBVIOUS
<1>2. /\ pipe' \in PipeRow
      /\ pipe'.pc = p /\ pipe'.lines = <<>> /\ pipe'.inbox = <<>>
      /\ pipe'.floor = 0 /\ pipe'.heard = {}
  <2>1. none \in Seq(Nat) /\ nobody \in SUBSET Int
    BY <1>1
  <2>2. p \in {"off", "opened", "subscribed", "probed", "live", "draining"}
    OBVIOUS
  <2>3. pipe' = [pc |-> p, lines |-> none, inbox |-> none, floor |-> 0, edge |-> 0,
                 heard |-> nobody]
    BY <1>1 DEF NoPipe
  <2>4. pipe' \in PipeRow
    <3>1. PICK r : r = [pc |-> p, lines |-> none, inbox |-> none, floor |-> 0, edge |-> 0,
                        heard |-> nobody]
      OBVIOUS
    <3>2. r \in PipeRow
      BY <2>1, <2>2, <3>1, APipe
    <3> QED
      BY <2>3, <3>1, <3>2
  <2> QED
    BY <1>1, <2>3, <2>4
<1>3. DOMAIN pipe'.lines = {} /\ DOMAIN pipe'.inbox = {}
  BY <1>2
<1> QED
  BY <1>2, <1>3 DEF EventsInv, EventRows, Sending, LinesTold, InboxTold, HeardOnce, Told,
     Late, Begin, InLines, InInbox, BehindTold, FloorTold, AheadTold

\* A tab comes or goes: its connection opens, ends or stays as it is.
LEMMA ArriveStep ==
  ASSUME EventsInv, NEW t \in Tabs,
         Arrive(t) \/ ArriveUncounted(t) \/ CloseTab(t) \/ TabKilled(t) \/ LeaveSeat(t)
  PROVE  EventsInv'
<1>1. /\ UNCHANGED <<feed, client, slips, cut>>
      /\ \/ pipe' = pipe \/ pipe' = NoPipe
         \/ pipe' = [NoPipe EXCEPT !.pc = "opened"]
  BY DEF Arrive, ArriveUncounted, CloseTab, TabKilled, LeaveSeat
<1>2. NoPipe = [NoPipe EXCEPT !.pc = "off"]
  BY DEF NoPipe
<1> QED
  BY <1>1, <1>2, EventsSame, PipeAnew

\* Only the backlog moves: it gains an event or loses its oldest.
LEMMA BacklogStep ==
  ASSUME EventsInv, AppendEvent \/ EventAges
  PROVE  EventsInv'
<1> USE DEF EventsInv
<1>1. /\ feed \in [last : Nat, oldest : Int, young : Int, unsent : SUBSET Nat]
      /\ \A e \in feed.unsent : e <= feed.last
  BY DEF EventRows
<1>2. /\ feed' \in [last : Nat, oldest : Int, young : Int, unsent : SUBSET Nat]
      /\ \/ feed'.last = feed.last /\ feed'.unsent = feed.unsent
         \/ feed'.last = feed.last + 1 /\ feed'.unsent = feed.unsent \cup {feed.last + 1}
      /\ UNCHANGED <<pipe, client, slips, cut>>
  <2>1. CASE AppendEvent
    <3>1. PICK o \in feed.oldest..Max({feed.oldest, feed.last + 2 - Kept}) :
            feed' = [feed EXCEPT !.last = @ + 1, !.oldest = o,
                                 !.unsent = @ \cup {feed.last + 1}]
      BY <2>1 DEF AppendEvent
    <3>2. o \in Int
      BY <1>1, <3>1
    <3> QED
      <4>1. /\ feed'.last = feed.last + 1 /\ feed'.oldest = o /\ feed'.young = feed.young
            /\ feed'.unsent = feed.unsent \cup {feed.last + 1}
            /\ feed' \in [last : Nat, oldest : Int, young : Int, unsent : SUBSET Nat]
        <5>1. feed.last + 1 \in Nat /\ feed.unsent \cup {feed.last + 1} \in SUBSET Int
          BY <1>1
        <5> QED
          BY <1>1, <3>1, <3>2, <5>1
      <4> QED
        BY <2>1, <4>1 DEF AppendEvent
  <2>2. CASE EventAges
    BY <1>1, <2>2 DEF EventAges
  <2> QED
    BY <2>1, <2>2
<1>3. /\ feed.last \in Int /\ feed'.last >= feed.last
      /\ feed.unsent \subseteq feed'.unsent
      /\ \A e \in feed'.unsent : e <= feed'.last
      /\ \A e \in Int : e <= feed.last /\ e \notin feed.unsent => e \notin feed'.unsent
      /\ \A e \in Int : feed.last < e /\ e <= feed'.last => e \in feed'.unsent
  BY <1>1, <1>2
<1>4. \A e \in Int : Late(e) => Late(e)'
  BY <1>1, <1>2, <1>3 DEF Late
<1>5. \A e \in Int : Told(e) => Told(e)'
  BY <1>2, <1>3, <1>4 DEF Told
<1>6. EventRows' /\ LinesTold'
  BY <1>2, <1>3 DEF EventRows, LinesTold, Sending
<1>7. InboxTold'
  <2>1. \A i \in DOMAIN pipe.inbox : pipe.inbox[i] \in Int
    BY DEF EventRows, PipeRow
  <2> QED
    BY <1>1, <1>2, <1>3, <2>1 DEF InboxTold
<1>8. HeardOnce'
  <2>1. \A e \in pipe.heard : e \in Int
    BY DEF EventRows, PipeRow
  <2> QED
    BY <1>1, <1>2, <1>3, <2>1 DEF HeardOnce
<1>9. BehindTold' /\ FloorTold'
  <2>1. /\ client.base \in Int /\ client.cursor \in Int /\ pipe.floor \in Int
        /\ pipe.edge \in Int
    BY DEF EventRows, PipeRow
  <2> QED
    BY <1>2, <1>5, <2>1 DEF BehindTold, FloorTold, Begin, InLines, Sending
<1>10. AheadTold'
  <2>1. client.base \in Int /\ pipe.edge \in Int /\ pipe.floor \in Int
    BY DEF EventRows, PipeRow
  <2>2. Begin \in Int /\ Begin' = Begin
    BY <1>2, <2>1 DEF Begin
  <2> SUFFICES ASSUME pipe.pc = "live", NEW e \in (Begin + 1..feed.last)', e > pipe.floor
               PROVE  Told(e)' \/ e \in feed'.unsent \/ InInbox(e)'
    BY <1>2 DEF AheadTold
  <2>3. e \in Int /\ e <= feed'.last /\ e >= Begin + 1
    BY <1>2, <2>2
  <2>4. CASE e <= feed.last
    <3>1. Told(e) \/ e \in feed.unsent \/ InInbox(e)
      BY <1>1, <2>2, <2>3, <2>4 DEF AheadTold
    <3> QED
      BY <1>2, <1>3, <1>5, <2>3, <3>1 DEF InInbox
  <2>5. CASE ~(e <= feed.last)
    BY <1>3, <2>3, <2>5
  <2> QED
    BY <2>4, <2>5
<1> QED
  BY <1>2, <1>6, <1>7, <1>8, <1>9, <1>10

\* An event is published: it waits in the connection, or slips.
LEMMA PublishStep ==
  ASSUME EventsInv, NEW x \in EventIds, PublishEvent(x)
  PROVE  EventsInv'
<1> USE DEF EventsInv
<1>1. /\ feed \in [last : Nat, oldest : Int, young : Int, unsent : SUBSET Nat]
      /\ pipe \in PipeRow
      /\ \A e \in feed.unsent : e <= feed.last
      /\ x \in Int /\ x \in Nat /\ x \in feed.unsent /\ x <= feed.last /\ feed.last \in Int
  BY DEF EventRows, EventIds, PublishEvent
<1>2. /\ feed' \in [last : Nat, oldest : Int, young : Int, unsent : SUBSET Nat]
      /\ feed'.last = feed.last /\ feed'.unsent = feed.unsent \ {x}
      /\ UNCHANGED <<client, cut>>
  <2>1. feed' = [feed EXCEPT !.unsent = @ \ {x}]
    BY DEF PublishEvent
  <2> QED
    BY <1>1, <2>1 DEF PublishEvent
<1>3. /\ slips \subseteq slips' /\ (Late(x) => x \in slips')
      /\ slips' \subseteq slips \cup {x}
  BY DEF PublishEvent
<1>4. /\ pipe' \in PipeRow /\ pipe'.pc = pipe.pc /\ pipe'.lines = pipe.lines
      /\ pipe'.floor = pipe.floor /\ pipe'.edge = pipe.edge /\ pipe'.heard = pipe.heard
      /\ \/ pipe'.inbox = pipe.inbox /\ (pipe.pc = "live" => x \in slips')
         \/ pipe'.inbox = Append(pipe.inbox, x)
  <2>1. CASE pipe' = [pipe EXCEPT !.inbox = Append(@, x)]
    <3>1. PICK box : box = Append(pipe.inbox, x)
      OBVIOUS
    <3>2. box \in Seq(Nat)
      BY <1>1, <3>1 DEF PipeRow
    <3>3. pipe' = [pipe EXCEPT !.inbox = box]
      BY <2>1, <3>1
    <3> HIDE <2>1
    <3> QED
      BY <1>1, <3>1, <3>2, <3>3 DEF PipeRow
  <2>2. CASE pipe' = pipe /\ ~Listening
    BY <1>1, <2>2 DEF Listening
  <2>3. CASE pipe' = pipe /\ x \in slips'
    BY <1>1, <2>3
  <2> QED
    BY <2>1, <2>2, <2>3 DEF PublishEvent
<1>5. /\ pipe.inbox \in Seq(Nat) /\ pipe.floor \in Int /\ pipe.edge \in Int
      /\ pipe.heard \in SUBSET Int
      /\ client.base \in Int /\ client.cursor \in Int
  BY <1>1 DEF EventRows, PipeRow
<1>6. \A e \in Int : e # x /\ Late(e) => Late(e)'
  BY <1>2 DEF Late
<1>7. \A e \in Int : Told(e) => Told(e)'
  <2> SUFFICES ASSUME NEW e \in Int, Told(e) PROVE Told(e)'
    OBVIOUS
  <2>1. CASE e = x
    BY <1>2, <1>3, <2>1 DEF Told
  <2>2. CASE e # x
    BY <1>2, <1>3, <1>6, <2>2 DEF Told
  <2> QED
    BY <2>1, <2>2
<1>8. /\ Len(pipe.inbox) \in Nat /\ DOMAIN pipe.inbox = 1..Len(pipe.inbox)
      /\ \A i \in DOMAIN pipe.inbox : pipe.inbox[i] \in Int
  BY <1>5
<1>9. PICK n \in Nat : n = Len(pipe.inbox)
  BY <1>8
<1>10. CASE pipe'.inbox = pipe.inbox /\ (pipe.pc = "live" => x \in slips')
  <2>1. EventRows' /\ LinesTold'
    BY <1>1, <1>2, <1>4 DEF EventRows, LinesTold, Sending
  <2>2. InboxTold' /\ HeardOnce'
    BY <1>2, <1>3, <1>4, <1>10 DEF InboxTold, HeardOnce
  <2>3. Begin' = Begin /\ Begin \in Int
    BY <1>2, <1>4, <1>5 DEF Begin
  <2>4. BehindTold' /\ FloorTold'
    BY <1>2, <1>4, <1>5, <1>7, <2>3 DEF BehindTold, FloorTold, InLines, Sending
  <2>5. AheadTold'
    <3> SUFFICES ASSUME pipe.pc = "live", NEW e \in Begin + 1..feed.last, e > pipe.floor
                 PROVE  Told(e)' \/ e \in feed'.unsent \/ InInbox(e)'
      BY <1>2, <1>4, <2>3 DEF AheadTold
    <3>1. e \in Int /\ (Told(e) \/ e \in feed.unsent \/ InInbox(e))
      BY <1>1, <2>3 DEF AheadTold
    <3>2. CASE e = x
      BY <1>10, <3>2 DEF Told
    <3>3. CASE e # x
      BY <1>2, <1>7, <1>10, <3>1, <3>3 DEF InInbox
    <3> QED
      BY <3>2, <3>3
  <2> QED
    BY <1>2, <2>1, <2>2, <2>4, <2>5
<1>11. CASE pipe'.inbox = Append(pipe.inbox, x)
  <2>1. /\ DOMAIN pipe'.inbox = 1..(n + 1)
        /\ \A i \in 1..n : pipe'.inbox[i] = pipe.inbox[i]
        /\ pipe'.inbox[n + 1] = x
    BY <1>5, <1>9, <1>11, <1>1
  <2>2. DOMAIN pipe.inbox = 1..n
    BY <1>8, <1>9
  <2>3. \A i \in 1..n : /\ pipe.inbox[i] \in Int /\ pipe.inbox[i] <= feed.last
                        /\ pipe.inbox[i] \notin feed.unsent /\ pipe.inbox[i] # x
    BY <1>1, <1>8, <2>2 DEF InboxTold
  <2>4. \A i \in 1..n : x \in slips' \/ pipe.inbox[i] < x
    BY <1>1, <1>3, <2>3 DEF Late
  <2>5. EventRows' /\ LinesTold'
    BY <1>1, <1>2, <1>4 DEF EventRows, LinesTold, Sending
  <2>6. InboxTold'
    <3>1. ASSUME NEW i \in 1..(n + 1)
          PROVE  pipe'.inbox[i] <= feed'.last /\ pipe'.inbox[i] \notin feed'.unsent
      <4>1. CASE i = n + 1
        BY <1>1, <1>2, <2>1, <4>1
      <4>2. CASE i \in 1..n
        BY <1>2, <2>1, <2>3, <4>2
      <4> QED
        BY <4>1, <4>2
    <3>2. ASSUME NEW i \in 1..(n + 1), NEW j \in 1..(n + 1), i < j
          PROVE  /\ pipe'.inbox[i] # pipe'.inbox[j]
                 /\ pipe'.inbox[j] \in slips' \/ pipe'.inbox[i] < pipe'.inbox[j]
      <4>1. i \in 1..n
        BY <3>2
      <4>2. CASE j = n + 1
        BY <2>1, <2>3, <2>4, <4>1, <4>2
      <4>3. CASE j \in 1..n
        BY <1>3, <2>1, <2>2, <3>2, <4>1, <4>3 DEF InboxTold
      <4> QED
        BY <4>2, <4>3
    <3> QED
      BY <2>1, <3>1, <3>2 DEF InboxTold
  <2>7. HeardOnce'
    <3> SUFFICES ASSUME NEW e \in pipe.heard, ~(e <= pipe.floor)
                 PROVE  /\ e <= feed'.last /\ e \notin feed'.unsent
                        /\ \A i \in DOMAIN pipe'.inbox : pipe'.inbox[i] # e
      BY <1>4 DEF HeardOnce
    <3>1. /\ e <= feed.last /\ e \notin feed.unsent
          /\ \A i \in 1..n : pipe.inbox[i] # e
      BY <2>2 DEF HeardOnce
    <3>2. e # x
      BY <1>1, <3>1
    <3>3. ASSUME NEW i \in 1..(n + 1) PROVE pipe'.inbox[i] # e
      <4>1. CASE i = n + 1
        BY <2>1, <3>2, <4>1
      <4>2. CASE i \in 1..n
        BY <2>1, <3>1, <4>2
      <4> QED
        BY <4>1, <4>2
    <3> QED
      BY <1>2, <2>1, <3>1, <3>3
  <2>8. Begin' = Begin /\ Begin \in Int
    BY <1>2, <1>4, <1>5 DEF Begin
  <2>9. BehindTold' /\ FloorTold'
    BY <1>2, <1>4, <1>5, <1>7, <2>8 DEF BehindTold, FloorTold, InLines, Sending
  <2>10. \A e \in Int : InInbox(e) \/ e = x => InInbox(e)'
    BY <2>1, <2>2 DEF InInbox
  <2>11. AheadTold'
    <3> SUFFICES ASSUME pipe.pc = "live", NEW e \in Begin + 1..feed.last, e > pipe.floor
                 PROVE  Told(e)' \/ e \in feed'.unsent \/ InInbox(e)'
      BY <1>2, <1>4, <2>8 DEF AheadTold
    <3>1. e \in Int /\ (Told(e) \/ e \in feed.unsent \/ InInbox(e))
      BY <1>1, <2>8 DEF AheadTold
    <3> QED
      BY <1>2, <1>7, <2>10, <3>1
  <2> QED
    BY <1>2, <2>5, <2>6, <2>7, <2>9, <2>11
<1> QED
  BY <1>4, <1>10, <1>11

\* The steps of the stream that leave the backlog and what slipped.
LEMMA SubscribeStep == ASSUME EventsInv, SubscribeTab PROVE EventsInv'
<1> USE DEF EventsInv
<1>1. /\ UNCHANGED <<feed, slips, cut>>
      /\ pipe \in PipeRow /\ pipe.pc = "opened" /\ pipe.lines = <<>>
      /\ pipe.floor = 0 /\ pipe.heard = {}
      /\ feed.last \in Int
  BY DEF SubscribeTab, EventRows, LinesTold, Sending
<1>2. /\ pipe' \in PipeRow
      /\ pipe'.lines = <<>> /\ pipe'.inbox = pipe.inbox /\ pipe'.floor = 0
      /\ pipe'.edge = pipe.edge /\ pipe'.heard = {}
      /\ pipe'.pc \in {"live", "subscribed"}
      /\ pipe'.pc = "live" => client.cursor = 0 /\ client'.base = feed.last
      /\ pipe'.pc = "subscribed" => client' = client
  <2>1. CASE client.cursor = 0
    <3>1. /\ pipe' = [pipe EXCEPT !.pc = "live"]
          /\ client' = [client EXCEPT !.base = feed.last]
          /\ client.base \in Nat
      BY <2>1 DEF SubscribeTab, EventRows
    <3>2. client'.base = feed.last
      BY <3>1 DEF EventRows
    <3> QED
      BY <1>1, <2>1, <3>1, <3>2 DEF PipeRow
  <2>2. CASE client.cursor # 0
    <3>1. pipe' = [pipe EXCEPT !.pc = "subscribed"] /\ client' = client
      BY <2>2 DEF SubscribeTab
    <3> QED
      BY <1>1, <3>1 DEF PipeRow
  <2> QED
    BY <2>1, <2>2
<1>3. /\ client' \in [cursor : Nat, base : Nat, got : SUBSET Int, twice : SUBSET Int]
      /\ client'.cursor = client.cursor /\ client'.twice = client.twice
  BY <1>1 DEF SubscribeTab, EventRows
<1>4. DOMAIN pipe'.lines = {}
  BY <1>2
<1>5. EventRows' /\ LinesTold' /\ InboxTold' /\ HeardOnce'
  BY <1>1, <1>2, <1>3, <1>4 DEF EventRows, LinesTold, InboxTold, HeardOnce, Sending
<1>6. CASE pipe'.pc = "live"
  <2>1. feed.last \in Nat /\ Begin' = feed.last
    BY <1>2, <1>6 DEF Begin, EventRows
  <2>2. BehindTold'
    BY <1>2, <1>3, <1>6, <2>1 DEF BehindTold
  <2>3. FloorTold' /\ AheadTold'
    BY <1>1, <1>2, <2>1 DEF FloorTold, AheadTold
  <2> QED
    BY <1>3, <1>5, <2>2, <2>3
<1>7. CASE pipe'.pc = "subscribed"
  <2>1. BehindTold'
    BY <1>1, <1>2, <1>7 DEF BehindTold, Told, Late
  <2>2. FloorTold' /\ AheadTold'
    BY <1>7 DEF FloorTold, AheadTold, Sending
  <2> QED
    BY <1>3, <1>5, <2>1, <2>2
<1> QED
  BY <1>2, <1>6, <1>7

\* The probe finds the oldest line and tells of a backlog that starts beyond the cursor.
LEMMA ProbeStep == ASSUME EventsInv, ProbeBacklog PROVE EventsInv'
<1> USE DEF EventsInv
<1>1. /\ UNCHANGED <<feed, client, slips, cut>>
      /\ pipe \in PipeRow /\ pipe.pc = "subscribed" /\ pipe.lines = <<>>
      /\ pipe.floor = 0 /\ pipe.heard = {}
      /\ feed.oldest \in Int /\ feed.young \in Int
  BY DEF ProbeBacklog, EventRows, LinesTold, Sending
<1>2. PICK oldest \in Int : LET edge == Max({oldest, feed.young}) IN
        pipe' = [pipe EXCEPT !.pc = "probed", !.edge = edge,
                   !.lines = IF client.cursor < edge THEN <<Notice>> ELSE <<>>]
  <2>1. {feed.oldest} \cup (IF "replay" \in EventFaults THEN {0} ELSE {}) \subseteq Int
    BY <1>1
  <2> QED
    BY <2>1 DEF ProbeBacklog
<1>3. PICK edge \in Int : edge = Max({oldest, feed.young})
  <2>1. Max({oldest, feed.young}) \in Int
    BY <1>1, MaxPair
  <2> QED
    BY <2>1
<1>4. PICK lines : lines = IF client.cursor < edge THEN <<Notice>> ELSE <<>>
  OBVIOUS
<1>5. /\ lines \in Seq(Nat)
      /\ \A i, j \in DOMAIN lines : ~(i < j)
      /\ \A i \in DOMAIN lines : lines[i] = Notice
  BY <1>4 DEF Notice
<1>6. /\ pipe' \in PipeRow /\ pipe'.pc = "probed" /\ pipe'.edge = edge
      /\ pipe'.lines = lines /\ pipe'.inbox = pipe.inbox /\ pipe'.floor = 0
      /\ pipe'.heard = {}
  <2>1. pipe' = [pipe EXCEPT !.pc = "probed", !.edge = edge, !.lines = lines]
    BY <1>2, <1>3, <1>4
  <2> QED
    BY <1>1, <1>3, <1>5, <2>1 DEF PipeRow
<1>7. LinesTold'
  BY <1>1, <1>4, <1>5, <1>6 DEF LinesTold, Sending
<1>8. EventRows' /\ InboxTold' /\ HeardOnce' /\ BehindTold'
  BY <1>1, <1>6 DEF EventRows, InboxTold, HeardOnce, BehindTold, Told, Late
<1>9. FloorTold' /\ AheadTold'
  BY <1>6 DEF FloorTold, AheadTold, Sending
<1> QED
  BY <1>1, <1>7, <1>8, <1>9

\* The read of the backlog fails: the connection goes on with what it has.
LEMMA ReadFailsStep == ASSUME EventsInv, ReadFails PROVE EventsInv'
<1> USE DEF EventsInv
<1>1. /\ UNCHANGED <<feed, client, cut>>
      /\ slips' = slips \cup (client.cursor + 1..feed.last)
      /\ pipe \in PipeRow /\ pipe.pc = "probed"
      /\ pipe.floor = 0 /\ pipe.heard = {}
      /\ pipe' = [pipe EXCEPT !.pc = "live"]
  BY DEF ReadFails, EventRows, LinesTold, Sending
<1>2. /\ pipe' \in PipeRow /\ pipe'.pc = "live" /\ pipe'.edge = pipe.edge
      /\ pipe'.lines = pipe.lines /\ pipe'.inbox = pipe.inbox /\ pipe'.floor = 0
      /\ pipe'.heard = {}
  BY <1>1 DEF PipeRow
<1>3. /\ client.cursor \in Int /\ client.base \in Int /\ pipe.edge \in Int /\ feed.last \in Int
  BY <1>1 DEF EventRows, PipeRow
<1>4. \A e : Told(e) => Told(e)'
  BY <1>1 DEF Told, Late
<1>5. EventRows' /\ LinesTold' /\ InboxTold' /\ HeardOnce'
  BY <1>1, <1>2 DEF EventRows, LinesTold, InboxTold, HeardOnce, Sending
<1>6. BehindTold'
  BY <1>1, <1>4 DEF BehindTold
<1>7. Begin' = Begin /\ Begin \in Int /\ Begin >= client.base
  BY <1>1, <1>2, <1>3 DEF Begin
<1>8. FloorTold'
  <2>1. LinesTold
    OBVIOUS
  <2> SUFFICES ASSUME NEW e \in Begin + 1..0 PROVE Told(e)' \/ InLines(e)'
    BY <1>2, <1>7 DEF FloorTold
  <2>2. e \in Int /\ e <= 0 /\ e > client.base
    BY <1>3, <1>7
  <2>3. CASE e <= client.cursor
    BY <1>3, <1>4, <2>2, <2>3 DEF BehindTold
  <2>4. CASE ~(e <= client.cursor)
    <3>1. feed.last >= 0
      BY DEF EventRows
    <3> QED
      BY <1>1, <1>3, <2>2, <2>4, <3>1 DEF Told
  <2> QED
    BY <2>3, <2>4
<1>9. AheadTold'
  <2> SUFFICES ASSUME NEW e \in Begin + 1..feed.last PROVE Told(e)'
    BY <1>1, <1>2, <1>7 DEF AheadTold
  <2>1. e \in Int /\ e <= feed.last /\ e > client.base
    BY <1>3, <1>7
  <2>2. CASE e <= client.cursor
    BY <1>3, <1>4, <2>1, <2>2 DEF BehindTold
  <2>3. CASE ~(e <= client.cursor)
    BY <1>1, <1>3, <2>1, <2>3 DEF Told
  <2> QED
    BY <2>2, <2>3
<1> QED
  BY <1>1, <1>5, <1>6, <1>8, <1>9

\* The subscription breaks: the replay is still sent, the messages that waited are lost.
LEMMA DrainStep == ASSUME EventsInv, Drain PROVE EventsInv'
<1> USE DEF EventsInv
<1>1. /\ UNCHANGED <<feed, client, slips, cut>>
      /\ pipe \in PipeRow /\ pipe.pc = "live"
      /\ pipe' = [pipe EXCEPT !.pc = "draining", !.inbox = <<>>]
  BY DEF Drain, EventRows
<1>2. PICK none : none = <<>>
  OBVIOUS
<1>3. /\ pipe' \in PipeRow /\ pipe'.pc = "draining" /\ pipe'.edge = pipe.edge
      /\ pipe'.lines = pipe.lines /\ pipe'.inbox = none /\ pipe'.floor = pipe.floor
      /\ pipe'.heard = pipe.heard
  <2>1. none \in Seq(Nat) /\ pipe' = [pipe EXCEPT !.pc = "draining", !.inbox = none]
    BY <1>1, <1>2
  <2> QED
    BY <1>1, <2>1 DEF PipeRow
<1>4. DOMAIN pipe'.inbox = {}
  BY <1>2, <1>3
<1>5. EventRows' /\ LinesTold' /\ InboxTold' /\ HeardOnce'
  BY <1>1, <1>3, <1>4 DEF EventRows, LinesTold, InboxTold, HeardOnce, Sending
<1>6. BehindTold' /\ FloorTold' /\ AheadTold'
  BY <1>1, <1>3 DEF BehindTold, FloorTold, AheadTold, Told, Late, Begin, InLines, Sending
<1> QED
  BY <1>1, <1>5, <1>6

\* A line goes out: the notice moves where the promise begins, an event the cursor.
LEMMA SendLineStep == ASSUME EventsInv, SendLine PROVE EventsInv'
<1> USE DEF EventsInv
<1> DEFINE e == Head(pipe.lines)
<1>1. /\ UNCHANGED <<feed, slips, cut>>
      /\ Sending /\ pipe.pc # "probed" /\ pipe \in PipeRow /\ pipe.lines # <<>>
      /\ client \in [cursor : Nat, base : Nat, got : SUBSET Int, twice : SUBSET Int]
  BY DEF SendLine, Sending, EventRows
<1>2. /\ pipe.lines \in Seq(Nat) /\ pipe.floor \in Int /\ pipe.edge \in Int
      /\ client.base \in Nat /\ client.cursor \in Nat /\ pipe.heard \in SUBSET Int
  BY <1>1 DEF PipeRow
<1>3. PICK n \in Nat : n = Len(pipe.lines)
  BY <1>2
<1>4. /\ n >= 1 /\ DOMAIN pipe.lines = 1..n /\ e = pipe.lines[1] /\ e \in Nat
      /\ Tail(pipe.lines) \in Seq(Nat) /\ Len(Tail(pipe.lines)) = n - 1
      /\ \A i \in 1..(n - 1) : Tail(pipe.lines)[i] = pipe.lines[i + 1]
      /\ \A i \in 1..n : pipe.lines[i] \in Nat
  BY <1>1, <1>2, <1>3
<1>5. PICK rest : rest = Tail(pipe.lines)
  OBVIOUS
<1>6. /\ rest \in Seq(Nat) /\ DOMAIN rest = 1..(n - 1)
      /\ \A i \in 1..(n - 1) : rest[i] = pipe.lines[i + 1]
      /\ rest # <<>> => n - 1 >= 1
  BY <1>3, <1>4, <1>5
<1>7. \A i \in 1..(n - 1) : e < rest[i]
  <2> SUFFICES ASSUME NEW i \in 1..(n - 1) PROVE pipe.lines[1] < pipe.lines[i + 1]
    BY <1>4, <1>6
  <2>1. 1 \in 1..n /\ i + 1 \in 1..n /\ 1 < i + 1
    OBVIOUS
  <2> QED
    BY <1>4, <2>1 DEF LinesTold
<1>8. \A d \in Int : InLines(d) => d = e \/ \E i \in 1..(n - 1) : rest[i] = d
  <2> SUFFICES ASSUME NEW d \in Int, NEW i \in 1..n, pipe.lines[i] = d, i # 1
               PROVE  \E j \in 1..(n - 1) : rest[j] = d
    BY <1>4 DEF InLines
  <2>1. i - 1 \in 1..(n - 1) /\ (i - 1) + 1 = i
    OBVIOUS
  <2> QED
    BY <1>6, <2>1
<1>9. CASE e = Notice
  <2>1. client' = [client EXCEPT !.cursor = 0, !.base = Max({@, pipe.edge - 1})]
    BY <1>9 DEF SendLine
  <2>2. pipe' = [pipe EXCEPT !.lines = rest]
    BY <1>5, <1>9 DEF SendLine
  <2>3. PICK base : base = Max({client.base, pipe.edge - 1})
    OBVIOUS
  <2>4. /\ base = IF client.base < pipe.edge - 1 THEN pipe.edge - 1 ELSE client.base
        /\ base \in Nat /\ base >= client.base
    <3>1. pipe.edge - 1 \in Int /\ client.base \in Int
      BY <1>2
    <3>2. base = IF client.base < pipe.edge - 1 THEN pipe.edge - 1 ELSE client.base
      BY <2>3, <3>1, MaxPair
    <3> QED
      BY <1>2, <3>1, <3>2
  <2>5. /\ client'.cursor = 0 /\ client'.base = base /\ client'.got = client.got
        /\ client'.twice = client.twice
        /\ client' \in [cursor : Nat, base : Nat, got : SUBSET Int, twice : SUBSET Int]
    <3>1. client' = [client EXCEPT !.cursor = 0, !.base = base]
      BY <2>1, <2>3
    <3> QED
      BY <1>1, <2>4, <3>1
  <2>6. /\ pipe' \in PipeRow /\ pipe'.pc = pipe.pc /\ pipe'.lines = rest
        /\ pipe'.inbox = pipe.inbox /\ pipe'.floor = pipe.floor
        /\ pipe'.edge = pipe.edge /\ pipe'.heard = pipe.heard
    BY <1>1, <1>6, <2>2 DEF PipeRow
  <2> HIDE DEF e
  <2>7. Begin = base
    BY <1>1, <1>4, <1>9, <2>4 DEF Begin
  <2>8. Begin' = base
    <3>1. rest # <<>> => rest[1] # Notice
      BY <1>6, <1>7, <1>9
    <3> QED
      BY <2>5, <2>6, <3>1 DEF Begin
  <2>9. \A d : Told(d) <=> Told(d)'
    BY <1>1, <2>5 DEF Told, Late
  <2>10. LinesTold'
    <3>1. ASSUME NEW i \in 1..(n - 1), NEW j \in 1..(n - 1), i < j PROVE rest[i] < rest[j]
      <4>1. i + 1 \in 1..n /\ j + 1 \in 1..n /\ i + 1 < j + 1
        BY <3>1
      <4>2. pipe.lines[i + 1] < pipe.lines[j + 1]
        BY <1>4, <4>1 DEF LinesTold
      <4> QED
        BY <1>6, <4>2
    <3>2. ASSUME NEW i \in 1..(n - 1)
          PROVE  /\ rest[i] <= pipe.floor \/ rest[i] = Notice
                 /\ \A d \in pipe.heard : d < rest[i]
      <4>1. i + 1 \in 1..n
        OBVIOUS
      <4> QED
        BY <1>4, <1>6, <4>1 DEF LinesTold
    <3> QED
      BY <1>1, <1>6, <2>6, <3>1, <3>2 DEF LinesTold, Sending
  <2>11. EventRows' /\ InboxTold' /\ HeardOnce'
    BY <1>1, <2>5, <2>6 DEF EventRows, InboxTold, HeardOnce
  <2>12. BehindTold'
    BY <2>4, <2>5 DEF BehindTold
  <2>13. FloorTold'
    <3> SUFFICES ASSUME NEW d \in base + 1..pipe.floor PROVE Told(d)' \/ InLines(d)'
      BY <2>6, <2>8 DEF FloorTold
    <3>1. d \in Int /\ d # e
      BY <1>2, <1>9, <2>4 DEF Notice
    <3>2. Told(d) \/ InLines(d)
      BY <1>1, <2>7 DEF FloorTold
    <3> QED
      BY <1>6, <1>8, <2>6, <2>9, <3>1, <3>2 DEF InLines
  <2>14. AheadTold'
    BY <1>1, <2>6, <2>7, <2>8, <2>9 DEF AheadTold, InInbox
  <2> QED
    BY <2>5, <2>10, <2>11, <2>12, <2>13, <2>14
<1>10. CASE e # Notice
  <2>1. e \notin pipe.heard /\ e <= pipe.floor
    <3>1. 1 \in DOMAIN pipe.lines /\ pipe.lines[1] = e
      BY <1>2, <1>4
    <3> QED
      BY <1>2, <1>10, <3>1 DEF LinesTold
  <2>2. client' = [client EXCEPT !.cursor = e, !.got = @ \cup {e},
                                 !.twice = IF e \in pipe.heard THEN @ \cup {e} ELSE @]
    BY <1>10 DEF SendLine, Hears
  <2>3. pipe' = [pipe EXCEPT !.lines = rest, !.heard = @ \cup {e}]
    BY <1>5, <1>10 DEF SendLine
  <2>4. /\ client'.cursor = e /\ client'.base = client.base
        /\ client'.got = client.got \cup {e}
        /\ client'.twice = client.twice
        /\ client' \in [cursor : Nat, base : Nat, got : SUBSET Int, twice : SUBSET Int]
    <3>1. PICK got : got = client.got \cup {e}
      OBVIOUS
    <3>2. got \in SUBSET Int
      BY <1>1, <1>4, <3>1
    <3>3. client' = [client EXCEPT !.cursor = e, !.got = got]
      BY <1>1, <2>1, <2>2, <3>1
    <3> HIDE <2>2
    <3> QED
      BY <1>1, <1>4, <3>1, <3>2, <3>3
  <2>5. /\ pipe' \in PipeRow /\ pipe'.pc = pipe.pc /\ pipe'.lines = rest
        /\ pipe'.inbox = pipe.inbox /\ pipe'.floor = pipe.floor
        /\ pipe'.edge = pipe.edge /\ pipe'.heard = pipe.heard \cup {e}
    <3>1. PICK heard : heard = pipe.heard \cup {e}
      OBVIOUS
    <3>2. heard \in SUBSET Int /\ pipe' = [pipe EXCEPT !.lines = rest, !.heard = heard]
      BY <1>2, <1>4, <2>3, <3>1
    <3> HIDE <2>3
    <3> QED
      BY <1>1, <1>6, <3>1, <3>2 DEF PipeRow
  <2> HIDE DEF e
  <2>6. Begin = client.base
    BY <1>4, <1>10 DEF Begin
  <2>7. Begin' = client.base
    <3>1. rest # <<>> => rest[1] # Notice
      BY <1>4, <1>6, <1>7 DEF Notice
    <3> QED
      BY <2>4, <2>5, <3>1 DEF Begin
  <2>8. \A d : (Told(d) => Told(d)') /\ (d = e => Told(d)')
    BY <1>1, <2>4 DEF Told, Late
  <2>9. LinesTold'
    <3>1. ASSUME NEW i \in 1..(n - 1), NEW j \in 1..(n - 1), i < j PROVE rest[i] < rest[j]
      <4>1. i + 1 \in 1..n /\ j + 1 \in 1..n /\ i + 1 < j + 1
        BY <3>1
      <4>2. pipe.lines[i + 1] < pipe.lines[j + 1]
        BY <1>4, <4>1 DEF LinesTold
      <4> QED
        BY <1>6, <4>2
    <3>2. ASSUME NEW i \in 1..(n - 1)
          PROVE  /\ rest[i] <= pipe.floor \/ rest[i] = Notice
                 /\ \A d \in pipe.heard \cup {e} : d < rest[i]
      <4>1. i + 1 \in 1..n
        OBVIOUS
      <4> QED
        BY <1>4, <1>6, <1>7, <4>1 DEF LinesTold
    <3> QED
      BY <1>1, <1>6, <2>5, <3>1, <3>2 DEF LinesTold, Sending
  <2>10. EventRows' /\ InboxTold' /\ HeardOnce'
    BY <1>1, <2>1, <2>4, <2>5 DEF EventRows, InboxTold, HeardOnce
  <2>11. BehindTold'
    <3> SUFFICES ASSUME NEW d \in client.base + 1..e PROVE Told(d)'
      BY <2>4 DEF BehindTold
    <3>1. d \in Int /\ d <= e /\ d <= pipe.floor /\ d \in Begin + 1..pipe.floor
      BY <1>2, <1>4, <2>1, <2>6
    <3>2. Told(d) \/ InLines(d)
      BY <1>1, <3>1 DEF FloorTold
    <3>3. InLines(d) => d = e
      BY <1>4, <1>6, <1>7, <1>8, <3>1
    <3> QED
      BY <2>8, <3>2, <3>3
  <2>12. FloorTold'
    <3> SUFFICES ASSUME NEW d \in client.base + 1..pipe.floor PROVE Told(d)' \/ InLines(d)'
      BY <2>5, <2>7 DEF FloorTold
    <3>1. d \in Int /\ (Told(d) \/ InLines(d))
      BY <1>1, <1>2, <2>6 DEF FloorTold
    <3> QED
      BY <1>6, <1>8, <2>5, <2>8, <3>1 DEF InLines
  <2>13. AheadTold'
    BY <1>1, <2>5, <2>6, <2>7, <2>8 DEF AheadTold, InInbox
  <2> QED
    BY <2>4, <2>9, <2>10, <2>11, <2>12, <2>13
<1> QED
  BY <1>9, <1>10

\* What waited in the connection is sent, or was heard in the replay.
LEMMA SendLiveStep == ASSUME EventsInv, SendLive PROVE EventsInv'
<1> USE DEF EventsInv
<1> DEFINE e == Head(pipe.inbox)
<1>1. /\ UNCHANGED <<feed, slips, cut>>
      /\ pipe.pc = "live" /\ pipe \in PipeRow /\ pipe.lines = <<>> /\ pipe.inbox # <<>>
      /\ client \in [cursor : Nat, base : Nat, got : SUBSET Int, twice : SUBSET Int]
      /\ feed.last \in Int
  BY DEF SendLive, EventRows
<1>2. /\ pipe.inbox \in Seq(Nat) /\ pipe.floor \in Int
      /\ client.base \in Nat /\ client.cursor \in Nat /\ pipe.heard \in SUBSET Int
  BY <1>1 DEF PipeRow
<1>3. PICK n \in Nat : n = Len(pipe.inbox)
  BY <1>2
<1>4. /\ n >= 1 /\ DOMAIN pipe.inbox = 1..n /\ e = pipe.inbox[1] /\ e \in Nat
      /\ Tail(pipe.inbox) \in Seq(Nat) /\ Len(Tail(pipe.inbox)) = n - 1
      /\ \A i \in 1..(n - 1) : Tail(pipe.inbox)[i] = pipe.inbox[i + 1]
      /\ \A i \in 1..n : pipe.inbox[i] \in Nat
  BY <1>1, <1>2, <1>3
<1>5. PICK rest : rest = Tail(pipe.inbox)
  OBVIOUS
<1>6. /\ rest \in Seq(Nat) /\ DOMAIN rest = 1..(n - 1)
      /\ \A i \in 1..(n - 1) : rest[i] = pipe.inbox[i + 1] /\ i + 1 \in 1..n
  BY <1>3, <1>4, <1>5
<1>7. \A d \in Int : InInbox(d) => d = e \/ \E i \in 1..(n - 1) : rest[i] = d
  <2> SUFFICES ASSUME NEW d \in Int, NEW i \in 1..n, pipe.inbox[i] = d, i # 1
               PROVE  \E j \in 1..(n - 1) : rest[j] = d
    BY <1>4 DEF InInbox
  <2>1. i - 1 \in 1..(n - 1) /\ (i - 1) + 1 = i
    OBVIOUS
  <2> QED
    BY <1>6, <2>1
<1>8. e <= feed.last /\ e \notin feed.unsent
  BY <1>4 DEF InboxTold
<1>9. \A i \in 1..(n - 1) : rest[i] # e /\ (rest[i] \in slips \/ e < rest[i])
  <2> SUFFICES ASSUME NEW i \in 1..(n - 1)
               PROVE  /\ pipe.inbox[i + 1] # pipe.inbox[1]
                      /\ pipe.inbox[i + 1] \in slips \/ pipe.inbox[1] < pipe.inbox[i + 1]
    BY <1>4, <1>6
  <2>1. 1 \in 1..n /\ i + 1 \in 1..n /\ 1 < i + 1
    OBVIOUS
  <2> QED
    BY <1>4, <2>1 DEF InboxTold
<1>10. \A i \in 1..(n - 1) : rest[i] <= feed.last /\ rest[i] \notin feed.unsent
  BY <1>4, <1>6 DEF InboxTold
<1>11. ASSUME NEW i \in 1..(n - 1), NEW j \in 1..(n - 1), i < j
       PROVE  rest[i] # rest[j] /\ (rest[j] \in slips \/ rest[i] < rest[j])
  <2>1. i + 1 \in 1..n /\ j + 1 \in 1..n /\ i + 1 < j + 1
    BY <1>11
  <2>2. /\ pipe.inbox[i + 1] # pipe.inbox[j + 1]
        /\ pipe.inbox[j + 1] \in slips \/ pipe.inbox[i + 1] < pipe.inbox[j + 1]
    BY <1>4, <2>1 DEF InboxTold
  <2> QED
    BY <1>6, <2>2
<1>12. Begin = client.base /\ DOMAIN pipe.lines = {}
  BY <1>1 DEF Begin
<1>13. ASSUME pipe'.inbox = rest PROVE InboxTold'
  BY <1>1, <1>6, <1>10, <1>11, <1>13 DEF InboxTold
<1>14. ASSUME NEW d \in pipe.heard, ~(d <= pipe.floor)
       PROVE  /\ d <= feed.last /\ d \notin feed.unsent
              /\ \A i \in 1..(n - 1) : rest[i] # d
  <2>1. /\ d <= feed.last /\ d \notin feed.unsent
        /\ \A i \in 1..n : pipe.inbox[i] # d
    BY <1>4, <1>14 DEF HeardOnce
  <2> QED
    BY <1>6, <2>1
<1>15. CASE e <= pipe.floor
  <2>1. /\ pipe' = [pipe EXCEPT !.inbox = rest] /\ client' = client
    BY <1>5, <1>15 DEF SendLive, Replayed
  <2>2. /\ pipe' \in PipeRow /\ pipe'.pc = "live" /\ pipe'.lines = pipe.lines
        /\ pipe'.inbox = rest /\ pipe'.floor = pipe.floor
        /\ pipe'.edge = pipe.edge /\ pipe'.heard = pipe.heard
    BY <1>1, <1>6, <2>1 DEF PipeRow
  <2> HIDE DEF e
  <2>3. EventRows' /\ LinesTold'
    BY <1>1, <2>1, <2>2 DEF EventRows, LinesTold, Sending
  <2>4. HeardOnce'
    BY <1>1, <1>6, <1>14, <2>2 DEF HeardOnce
  <2>5. BehindTold' /\ FloorTold'
    BY <1>1, <2>1, <2>2 DEF BehindTold, FloorTold, Told, Late, Begin, InLines, Sending
  <2>6. AheadTold'
    <3>1. Begin' = client.base
      BY <1>1, <2>1, <2>2 DEF Begin
    <3> SUFFICES ASSUME NEW d \in client.base + 1..feed.last, d > pipe.floor
                 PROVE  Told(d)' \/ d \in feed.unsent \/ InInbox(d)'
      BY <1>1, <2>2, <3>1 DEF AheadTold
    <3>2. d \in Int /\ d # e /\ (Told(d) \/ d \in feed.unsent \/ InInbox(d))
      BY <1>1, <1>2, <1>4, <1>12, <1>15 DEF AheadTold
    <3>3. Told(d) => Told(d)'
      BY <1>1, <2>1 DEF Told, Late
    <3> QED
      BY <1>6, <1>7, <2>2, <3>2, <3>3 DEF InInbox
  <2> QED
    BY <1>13, <2>1, <2>2, <2>3, <2>4, <2>5, <2>6
<1>16. CASE ~(e <= pipe.floor)
  <2>1. e \notin pipe.heard
    BY <1>4, <1>16 DEF HeardOnce
  <2>2. /\ client' = [client EXCEPT !.cursor = e, !.got = @ \cup {e},
                                    !.twice = IF e \in pipe.heard THEN @ \cup {e} ELSE @]
        /\ pipe' = [pipe EXCEPT !.inbox = rest, !.heard = @ \cup {e}]
    BY <1>5, <1>16 DEF SendLive, Replayed, Hears
  <2>3. /\ client'.cursor = e /\ client'.base = client.base
        /\ client'.got = client.got \cup {e}
        /\ client'.twice = client.twice
        /\ client' \in [cursor : Nat, base : Nat, got : SUBSET Int, twice : SUBSET Int]
    <3>1. PICK got : got = client.got \cup {e}
      OBVIOUS
    <3>2. got \in SUBSET Int
      BY <1>1, <1>4, <3>1
    <3>3. client' = [client EXCEPT !.cursor = e, !.got = got]
      BY <1>1, <2>1, <2>2, <3>1
    <3> HIDE <2>2
    <3> QED
      BY <1>1, <1>4, <3>1, <3>2, <3>3
  <2>4. /\ pipe' \in PipeRow /\ pipe'.pc = "live" /\ pipe'.lines = pipe.lines
        /\ pipe'.inbox = rest /\ pipe'.floor = pipe.floor
        /\ pipe'.edge = pipe.edge /\ pipe'.heard = pipe.heard \cup {e}
    <3>1. PICK heard : heard = pipe.heard \cup {e}
      OBVIOUS
    <3>2. heard \in SUBSET Int /\ pipe' = [pipe EXCEPT !.inbox = rest, !.heard = heard]
      BY <1>2, <1>4, <2>2, <3>1
    <3> HIDE <2>2
    <3> QED
      BY <1>1, <1>6, <3>1, <3>2 DEF PipeRow
  <2> HIDE DEF e
  <2>5. EventRows' /\ LinesTold'
    BY <1>1, <1>12, <2>3, <2>4 DEF EventRows, LinesTold, Sending
  <2>6. HeardOnce'
    BY <1>1, <1>6, <1>8, <1>9, <1>14, <2>4 DEF HeardOnce
  <2>7. Begin' = client.base
    BY <1>1, <2>3, <2>4 DEF Begin
  <2>8. \A d : (Told(d) => Told(d)') /\ (d = e => Told(d)')
    BY <1>1, <2>3 DEF Told, Late
  <2>9. BehindTold'
    <3> SUFFICES ASSUME NEW d \in client.base + 1..e, d # e PROVE Told(d)
      BY <2>3, <2>8 DEF BehindTold
    <3>1. d \in Int /\ d < e /\ d \in Begin + 1..feed.last
      BY <1>1, <1>2, <1>4, <1>8, <1>12
    <3>2. CASE d <= pipe.floor
      <4>1. d \in Begin + 1..pipe.floor
        BY <1>2, <1>12, <3>1, <3>2
      <4> QED
        BY <1>1, <1>12, <4>1 DEF FloorTold, Sending, InLines
    <3>3. CASE d > pipe.floor
      <4>1. Told(d) \/ d \in feed.unsent \/ InInbox(d)
        BY <1>1, <3>1, <3>3 DEF AheadTold
      <4>2. Late(d)
        BY <1>1, <1>4, <1>8, <3>1 DEF Late
      <4>3. InInbox(d) => d \in slips
        <5> SUFFICES ASSUME InInbox(d), d \notin slips PROVE FALSE
          OBVIOUS
        <5>1. PICK i \in 1..(n - 1) : rest[i] = d
          BY <1>7, <3>1
        <5>2. e < d
          BY <1>9, <5>1
        <5> QED
          BY <1>4, <3>1, <5>2
      <4> QED
        BY <4>1, <4>2, <4>3 DEF Told
    <3> QED
      BY <1>2, <3>1, <3>2, <3>3
  <2>10. FloorTold'
    BY <1>1, <1>12, <2>4, <2>7, <2>8 DEF FloorTold, InLines, Sending
  <2>11. AheadTold'
    <3> SUFFICES ASSUME NEW d \in client.base + 1..feed.last, d > pipe.floor
                 PROVE  Told(d)' \/ d \in feed.unsent \/ InInbox(d)'
      BY <1>1, <2>4, <2>7 DEF AheadTold
    <3>1. d \in Int /\ (Told(d) \/ d \in feed.unsent \/ InInbox(d))
      BY <1>1, <1>2, <1>12 DEF AheadTold
    <3> QED
      BY <1>6, <1>7, <2>4, <2>8, <3>1 DEF InInbox
  <2> QED
    BY <1>13, <2>3, <2>4, <2>5, <2>6, <2>9, <2>10, <2>11
<1> QED
  BY <1>2, <1>4, <1>15, <1>16

\* What XRANGE returns is the range of what can be replayed, or its beginning.
LEMMA ReplayRange ==
  ASSUME EventRows
  PROVE  \E first, upto \in Nat :
           /\ 1 <= first /\ first - 1 <= upto /\ upto <= feed.last
           /\ first <= upto => first > client.cursor
           /\ Replayable = first..feed.last
           /\ first = Min(Replayable \cup {feed.last + 1})
           /\ upto = Min({feed.last, first + ReplayMax - 1})
<1>1. /\ feed.last \in Nat /\ feed.oldest \in Int /\ feed.young \in Int
      /\ client.cursor \in Nat
  BY DEF EventRows
<1>2. PICK lo \in Int : /\ lo = Max({client.cursor + 1, feed.oldest, feed.young})
                        /\ lo >= client.cursor + 1
  <2> DEFINE S == {client.cursor + 1, feed.oldest, feed.young}
  <2>1. \E m \in S : \A y \in S : m >= y
    <3>1. PICK c \in Int : c = client.cursor + 1
      BY <1>1
    <3>2. PICK o \in Int : o = feed.oldest
      BY <1>1
    <3>3. PICK y \in Int : y = feed.young
      BY <1>1
    <3>4. \E m \in {c, o, y} : m >= c /\ m >= o /\ m >= y
      OBVIOUS
    <3> QED
      BY <3>1, <3>2, <3>3, <3>4
  <2>2. Max(S) \in S /\ \A y \in S : Max(S) >= y
    BY <2>1 DEF Max
  <2> QED
    BY <1>1, <2>2
<1>3. Replayable = lo..feed.last
  BY <1>2 DEF Replayable
<1>4. PICK last \in Nat : last = feed.last
  BY <1>1
<1>5. PICK first \in Int : first = IF lo <= last THEN lo ELSE last + 1
  OBVIOUS
<1>6. first = Min(Replayable \cup {last + 1})
  <2> DEFINE S == (lo..last) \cup {last + 1}
  <2>1. first \in S /\ \A y \in S : first <= y
    BY <1>5
  <2>2. \A x \in S : (\A y \in S : x <= y) => x = first
    <3> SUFFICES ASSUME NEW x \in S, \A y \in S : x <= y PROVE x = first
      OBVIOUS
    <3>1. x <= first /\ first <= x /\ x \in Int
      BY <2>1
    <3> QED
      BY <3>1
  <2> QED
    BY <1>3, <1>4, <2>1, <2>2 DEF Min
<1>7. Replayable = first..last
  BY <1>3, <1>4, <1>5
<1>8. first \in Nat /\ 1 <= first /\ (first <= last => first > client.cursor)
  BY <1>1, <1>2, <1>4, <1>5
<1>9. ReplayMax \in Nat /\ ReplayMax >= 1
  BY EventsAssumption
<1>10. PICK top \in Int : top = first + ReplayMax - 1
  BY <1>9
<1>11. PICK upto \in Int : upto = IF last <= top THEN last ELSE top
  OBVIOUS
<1>12. upto = Min({last, top})
  <2>1. upto \in {last, top} /\ \A y \in {last, top} : upto <= y
    BY <1>11
  <2>2. \A x \in {last, top} : (\A y \in {last, top} : x <= y) => x = upto
    BY <1>11
  <2> QED
    BY <2>1, <2>2 DEF Min
<1>13. first - 1 <= upto /\ upto <= last
  BY <1>5, <1>9, <1>10, <1>11
<1>14. upto \in Nat /\ (first <= upto => first > client.cursor)
  BY <1>8, <1>13
<1> QED
  BY <1>4, <1>6, <1>7, <1>8, <1>10, <1>12, <1>13, <1>14

\* The replay puts a range in the lines; the floor is its end, and what is beyond is cut.
LEMMA ReplayStep == ASSUME EventsInv, ReadBacklog PROVE EventsInv'
<1> USE DEF EventsInv
<1>1. /\ UNCHANGED <<feed, client>> /\ slips' = slips \cup GoneUntold
      /\ pipe \in PipeRow /\ pipe.pc = "probed" /\ pipe.heard = {}
      /\ feed.last \in Nat /\ client.cursor \in Nat /\ client.base \in Nat
      /\ pipe.edge \in Int /\ pipe.lines \in Seq(Nat)
  BY DEF ReadBacklog, EventRows, PipeRow, LinesTold, Sending
<1>2. PICK first, upto \in Nat :
           /\ 1 <= first /\ first - 1 <= upto /\ upto <= feed.last
           /\ first <= upto => first > client.cursor
           /\ Replayable = first..feed.last
           /\ first = Min(Replayable \cup {feed.last + 1})
           /\ upto = Min({feed.last, first + ReplayMax - 1})
  BY ReplayRange
<1>3. PICK run : run = [i \in 1..upto - first + 1 |-> first + i - 1]
  OBVIOUS
<1>4. PICK lines : lines = pipe.lines \o run
  OBVIOUS
<1>5. PICK floor : floor = IF Replayable = {} THEN 0 ELSE upto
  OBVIOUS
<1>6. /\ first <= upto => floor = upto
      /\ \A d \in Replayable : floor = upto
      /\ floor = upto \/ floor = 0
  <2>1. first <= upto => first \in Replayable
    BY <1>1, <1>2
  <2> QED
    BY <1>5, <2>1
<1>7. /\ pipe' = [pipe EXCEPT !.pc = "live", !.lines = lines, !.floor = floor]
      /\ cut' = cut \cup (upto + 1..feed.last)
  BY <1>2, <1>3, <1>4, <1>5 DEF ReadBacklog
<1>8. PICK m \in Nat : m = upto - first + 1
  BY <1>2
<1>9. /\ run \in Seq(Nat) /\ Len(run) = m /\ \A i \in 1..m : run[i] = first + i - 1
  <2>1. \A i \in 1..m : first + i - 1 \in Nat
    BY <1>2
  <2>2. run = [i \in 1..m |-> first + i - 1]
    BY <1>3, <1>8
  <2> QED
    BY <2>1, <2>2
<1>10. PICK k \in Nat :
        /\ k = 0 \/ k = 1
        /\ k = Len(pipe.lines)
        /\ k = 1 <=> client.cursor < pipe.edge
        /\ k = 1 => pipe.lines[1] = Notice
        /\ k = 0 <=> pipe.lines = <<>>
  <2>1. pipe.lines = IF client.cursor < pipe.edge THEN <<Notice>> ELSE <<>>
    BY <1>1 DEF LinesTold
  <2>2. CASE client.cursor < pipe.edge
    BY <2>1, <2>2
  <2>3. CASE ~(client.cursor < pipe.edge)
    BY <2>1, <2>3
  <2> QED
    BY <2>2, <2>3
<1>11. /\ lines \in Seq(Nat) /\ DOMAIN lines = 1..(k + m)
       /\ k = 1 => lines[1] = Notice
       /\ \A i \in 1..m : k + i \in 1..(k + m) /\ lines[k + i] = first + i - 1
  <2>1. /\ lines \in Seq(Nat) /\ Len(lines) = k + m
        /\ \A i \in 1..k + m : lines[i] = IF i <= k THEN pipe.lines[i] ELSE run[i - k]
    <3>1. pipe.lines \in Seq(Nat) /\ run \in Seq(Nat)
      BY <1>1, <1>9
    <3>2. /\ pipe.lines \o run \in Seq(Nat)
          /\ Len(pipe.lines \o run) = Len(pipe.lines) + Len(run)
          /\ \A i \in 1..Len(pipe.lines) + Len(run) : (pipe.lines \o run)[i] =
               IF i <= Len(pipe.lines) THEN pipe.lines[i] ELSE run[i - Len(pipe.lines)]
      BY <3>1, ConcatProperties
    <3>3. Len(pipe.lines) = k /\ Len(run) = m
      BY <1>9, <1>10
    <3> QED
      BY <1>4, <3>2, <3>3
  <2>2. ASSUME NEW i \in 1..m PROVE k + i \in 1..(k + m) /\ lines[k + i] = first + i - 1
    <3>1. k + i \in 1..k + m /\ ~(k + i <= k) /\ (k + i) - k = i
      OBVIOUS
    <3> QED
      BY <1>9, <2>1, <3>1
  <2>3. k = 1 => 1 \in 1..k + m /\ 1 <= k
    OBVIOUS
  <2> QED
    BY <1>10, <2>1, <2>2, <2>3
<1>12. \A i \in 1..(k + m) :
         \/ k = 1 /\ i = 1 /\ lines[i] = 0
         \/ lines[i] = first + (i - k) - 1 /\ i - k \in 1..m
  <2> SUFFICES ASSUME NEW i \in 1..(k + m), ~(k = 1 /\ i = 1)
               PROVE  lines[i] = first + (i - k) - 1 /\ i - k \in 1..m
    BY <1>11 DEF Notice
  <2>1. i - k \in 1..m /\ k + (i - k) = i
    <3>1. k = 0 \/ (k = 1 /\ i # 1)
      BY <1>10
    <3> QED
      BY <3>1
  <2> QED
    BY <1>11, <2>1
<1>13. floor \in Int /\ 0 <= floor /\ (m > 0 => floor = upto)
  <2>1. m > 0 => first <= upto
    BY <1>2, <1>8
  <2> QED
    BY <1>2, <1>6, <2>1
<1>14. /\ pipe' \in PipeRow /\ pipe'.pc = "live" /\ pipe'.lines = lines
       /\ pipe'.inbox = pipe.inbox /\ pipe'.floor = floor /\ pipe'.edge = pipe.edge
       /\ pipe'.heard = {}
  BY <1>1, <1>7, <1>11, <1>13 DEF PipeRow
<1>15. \A d : Told(d) => Told(d)'
  BY <1>1, <1>7 DEF Told, Late
<1>16. LinesTold'
  <2>1. \A i, j \in 1..(k + m) : i < j => lines[i] < lines[j]
    <3> SUFFICES ASSUME NEW i \in 1..(k + m), NEW j \in 1..(k + m), i < j
                 PROVE  lines[i] < lines[j]
      OBVIOUS
    <3>1. lines[j] = first + (j - k) - 1 /\ j - k \in 1..m
      BY <1>12
    <3>2. \/ lines[i] = 0
          \/ lines[i] = first + (i - k) - 1
      BY <1>12
    <3> QED
      BY <1>2, <3>1, <3>2
  <2>2. \A i \in 1..(k + m) : lines[i] <= floor \/ lines[i] = Notice
    <3> SUFFICES ASSUME NEW i \in 1..(k + m), ~(lines[i] = Notice) PROVE lines[i] <= floor
      OBVIOUS
    <3>1. lines[i] = first + (i - k) - 1 /\ i - k \in 1..m
      BY <1>12 DEF Notice
    <3>2. m > 0 /\ floor = upto
      BY <1>13, <3>1
    <3> QED
      BY <1>8, <3>1, <3>2
  <2> QED
    BY <1>11, <1>14, <2>1, <2>2 DEF LinesTold, Sending
<1>17. EventRows' /\ InboxTold' /\ HeardOnce'
  BY <1>1, <1>7, <1>14 DEF EventRows, InboxTold, HeardOnce
<1>18. BehindTold'
  BY <1>1, <1>15 DEF BehindTold
<1>19. Begin' = IF k = 1 /\ client.base < pipe.edge - 1 THEN pipe.edge - 1 ELSE client.base
  <2>1. CASE k = 1
    <3>1. lines # <<>> /\ lines[1] = Notice
      BY <1>11, <2>1
    <3> QED
      BY <1>1, <1>14, <2>1, <3>1 DEF Begin
  <2>2. CASE k = 0
    <3>1. lines # <<>> => lines[1] # Notice
      <4> SUFFICES ASSUME lines # <<>> PROVE lines[1] # Notice
        OBVIOUS
      <4>1. m >= 1
        BY <1>11, <2>2
      <4>2. lines[1] = first
        <5>1. 1 \in 1..m /\ k + 1 = 1 /\ first + 1 - 1 = first
          BY <2>2, <4>1
        <5> QED
          BY <1>11, <5>1
      <4> QED
        BY <1>2, <4>2 DEF Notice
    <3> QED
      BY <1>1, <1>14, <2>2, <3>1 DEF Begin
  <2> QED
    BY <1>10, <2>1, <2>2
<1>20. PICK begin \in Nat : begin = Begin'
  BY <1>1, <1>10, <1>19
<1>21. ASSUME NEW d \in Int, begin < d, d <= feed.last
       PROVE  Told(d)' \/ (first <= d)
  <2>1. client.base < d /\ (k = 1 => pipe.edge - 1 < d)
    BY <1>1, <1>19, <1>20, <1>21
  <2>2. CASE d <= client.cursor
    <3>1. d \in client.base + 1..client.cursor
      BY <1>1, <2>1, <2>2
    <3> QED
      BY <1>15, <3>1 DEF BehindTold
  <2>3. CASE ~(d <= client.cursor) /\ ~(first <= d)
    <3>1. d \in client.cursor + 1..feed.last /\ d \notin Replayable
      BY <1>1, <1>2, <1>21, <2>3
    <3>2. d > (IF pipe.lines = <<>> THEN 0 ELSE pipe.edge - 1)
      BY <1>10, <1>20, <1>21, <2>1
    <3>3. d \in GoneUntold
      BY <3>1, <3>2 DEF GoneUntold
    <3> QED
      BY <1>1, <3>3 DEF Told
  <2> QED
    BY <2>2, <2>3
<1>22. FloorTold'
  <2> SUFFICES ASSUME NEW d \in begin + 1..floor PROVE Told(d)' \/ InLines(d)'
    BY <1>14, <1>20 DEF FloorTold
  <2>1. d \in Int /\ begin < d /\ d <= floor /\ floor = upto /\ d <= feed.last
    <3>1. begin \in Nat /\ floor \in Int
      BY <1>13, <1>20
    <3>2. d \in Int /\ begin < d /\ d <= floor /\ 0 < d
      BY <3>1
    <3>3. floor = upto
      BY <1>13, <1>6, <3>2
    <3>4. upto \in Int /\ feed.last \in Int /\ upto <= feed.last
      BY <1>1, <1>2
    <3> QED
      BY <3>2, <3>3, <3>4
  <2>2. CASE first <= d
    <3>1. d - first + 1 \in 1..m /\ first + (d - first + 1) - 1 = d
      BY <1>2, <1>8, <2>1, <2>2
    <3>2. k + (d - first + 1) \in DOMAIN lines /\ lines[k + (d - first + 1)] = d
      BY <1>11, <3>1
    <3> QED
      BY <1>14, <3>2 DEF InLines
  <2> QED
    BY <1>21, <2>1, <2>2
<1>23. AheadTold'
  <2> SUFFICES ASSUME NEW d \in begin + 1..feed.last, d > floor PROVE Told(d)'
    <3>1. feed'.last = feed.last /\ pipe'.floor = floor /\ Begin' = begin
      BY <1>1, <1>14, <1>20
    <3> HIDE DEF EventsInv
    <3> QED
      BY <3>1 DEF AheadTold
  <2>1. d \in Int /\ begin < d /\ d <= feed.last
    <3>1. begin \in Int /\ feed.last \in Int
      BY <1>1
    <3> QED
      BY <3>1
  <2>2. CASE first <= d
    <3>1. d \in Replayable
      BY <1>2, <2>1, <2>2
    <3>2. d \in upto + 1..feed.last
      <4>1. floor = upto
        BY <1>6, <3>1
      <4> QED
        BY <1>1, <1>2, <2>1, <4>1
    <3> QED
      BY <1>7, <3>2 DEF Told
  <2> QED
    BY <1>21, <2>1, <2>2
<1> QED
  BY <1>1, <1>16, <1>17, <1>18, <1>22, <1>23

-----------------------------------------------------------------------------
(* The seats.                                                               *)

TabPlaces == {"away", "refused", "open", "closing"}

Opens == {t \in Seated : tab[t].pc = "open"}

SeatsInv ==
  /\ tab \in [Tabs -> [pc : TabPlaces, counted : BOOLEAN]]
  /\ seats \in [value : Int, expires : BOOLEAN]
  /\ leaks \in Nat
  /\ SeatsHold

\* Where a tab goes decides whether it is seated and served.
LEMMA SeatMoves ==
  ASSUME SeatsInv, NEW t \in Tabs, NEW p \in TabPlaces, NEW c \in BOOLEAN, TabGoes(t, p, c)
  PROVE  /\ tab' \in [Tabs -> [pc : TabPlaces, counted : BOOLEAN]]
         /\ Seated' = IF p # "away" /\ c THEN Seated \cup {t} ELSE Seated \ {t}
         /\ Opens' = IF p = "open" /\ c THEN Opens \cup {t} ELSE Opens \ {t}
<1>1. PICK r : r = [pc |-> p, counted |-> c]
  OBVIOUS
<1>2. r \in [pc : TabPlaces, counted : BOOLEAN] /\ r.pc = p /\ r.counted = c
  BY <1>1
<1>3. tab' = [tab EXCEPT ![t] = r]
  BY <1>1 DEF TabGoes
<1>4. /\ tab' \in [Tabs -> [pc : TabPlaces, counted : BOOLEAN]]
      /\ tab'[t] = r /\ \A s \in Tabs : s # t => tab'[s] = tab[s]
  BY <1>2, <1>3 DEF SeatsInv
<1>5. Seated' = IF p # "away" /\ c THEN Seated \cup {t} ELSE Seated \ {t}
  BY <1>2, <1>4 DEF Seated
<1>6. Opens' = IF p = "open" /\ c THEN Opens \cup {t} ELSE Opens \ {t}
  BY <1>2, <1>4, <1>5 DEF Opens, Seated
<1> QED
  BY <1>4, <1>5, <1>6

\* The counts of the tabs that are seated and served.
LEMMA SeatCounts ==
  ASSUME SeatsInv
  PROVE  /\ IsFiniteSet(Seated) /\ Cardinality(Seated) \in Nat
         /\ IsFiniteSet(Opens) /\ Cardinality(Opens) \in Nat
         /\ Cardinality(Opens) <= Cardinality(Seated)
<1>1. Seated \subseteq Tabs /\ Opens \subseteq Seated
  BY DEF Seated, Opens
<1>2. IsFiniteSet(Seated)
  BY <1>1, EventsAssumption, FS_Subset
<1>3. IsFiniteSet(Opens) /\ Cardinality(Opens) <= Cardinality(Seated)
  BY <1>1, <1>2, FS_Subset
<1> QED
  BY <1>2, <1>3, FS_CardinalityType

\* The size of a finite set after one element joined or left it.
LEMMA CountAdd ==
  ASSUME NEW S, IsFiniteSet(S), NEW t
  PROVE  /\ t \notin S => Cardinality(S \cup {t}) = Cardinality(S) + 1
         /\ t \in S => Cardinality(S \ {t}) = Cardinality(S) - 1
         /\ t \notin S => S \ {t} = S
BY FS_AddElement, FS_RemoveElement

\* Each step of a tab, and of the seats' expiry, keeps the seats counted.
LEMMA SeatsStep == SeatsInv /\ [EventsNext]_eventVars => SeatsInv'
<1> SUFFICES ASSUME SeatsInv, [EventsNext]_eventVars PROVE SeatsInv'
  OBVIOUS
<1>1. /\ tab \in [Tabs -> [pc : TabPlaces, counted : BOOLEAN]]
      /\ seats \in [value : Int, expires : BOOLEAN]
      /\ seats.value \in Int /\ leaks \in Nat
      /\ SeatCap \in Nat
  BY EventsAssumption DEF SeatsInv
<1>2. /\ IsFiniteSet(Seated) /\ Cardinality(Seated) \in Nat
      /\ IsFiniteSet(Opens) /\ Cardinality(Opens) \in Nat
      /\ Cardinality(Opens) <= Cardinality(Seated)
  BY SeatCounts
<1>3. ~lapsedSeats => /\ seats.value = Cardinality(Seated) + leaks
                      /\ Cardinality(Opens) <= SeatCap
  BY DEF SeatsInv, SeatsHold, Opens
<1>4. ASSUME tab' \in [Tabs -> [pc : TabPlaces, counted : BOOLEAN]],
             seats' \in [value : Int, expires : BOOLEAN], leaks' \in Nat,
             lapsedSeats' \/ /\ seats'.value = Cardinality(Seated') + leaks'
                             /\ Cardinality(Opens') <= SeatCap
      PROVE  SeatsInv'
  BY <1>4 DEF SeatsInv, SeatsHold, Opens
<1>5. CASE UNCHANGED <<seats, tab, leaks, lapsedSeats>>
  <2>1. Seated' = Seated /\ Opens' = Opens
    BY <1>5 DEF Seated, Opens
  <2> QED
    BY <1>1, <1>3, <1>4, <1>5, <2>1
<1>6. ASSUME NEW t \in Tabs, Arrive(t) PROVE SeatsInv'
  <2>1. tab[t].pc = "away" /\ t \notin Seated /\ t \notin Opens
    BY <1>6 DEF Arrive, Seated, Opens
  <2>2. PICK e \in BOOLEAN : seats' = [value |-> seats.value + 1, expires |-> e]
    BY <1>1, <1>6 DEF Arrive
  <2>3. /\ seats' \in [value : Int, expires : BOOLEAN] /\ seats'.value = seats.value + 1
        /\ leaks' = leaks /\ lapsedSeats' = lapsedSeats
    BY <1>1, <1>6, <2>2 DEF Arrive
  <2>4. \/ TabGoes(t, "refused", TRUE)
        \/ TabGoes(t, "open", TRUE) /\ seats.value + 1 <= SeatCap
    BY <1>6 DEF Arrive
  <2>5. /\ Cardinality(Seated \cup {t}) = Cardinality(Seated) + 1
        /\ Cardinality(Opens \cup {t}) = Cardinality(Opens) + 1
        /\ Opens \ {t} = Opens
    BY <1>2, <2>1, CountAdd
  <2>6. CASE TabGoes(t, "refused", TRUE)
    <3>1. /\ tab' \in [Tabs -> [pc : TabPlaces, counted : BOOLEAN]]
          /\ Seated' = Seated \cup {t} /\ Opens' = Opens \ {t}
      BY <2>6, SeatMoves DEF TabPlaces
    <3>2. ~lapsedSeats => /\ seats'.value = Cardinality(Seated') + leaks'
                          /\ Cardinality(Opens') <= SeatCap
      <4>1. ~lapsedSeats => seats.value + 1 = (Cardinality(Seated) + 1) + leaks
        BY <1>1, <1>2, <1>3
      <4> QED
        BY <1>3, <2>3, <2>5, <3>1, <4>1
    <3> QED
      BY <1>1, <1>4, <2>3, <3>1, <3>2
  <2>7. CASE TabGoes(t, "open", TRUE) /\ seats.value + 1 <= SeatCap
    <3>1. /\ tab' \in [Tabs -> [pc : TabPlaces, counted : BOOLEAN]]
          /\ Seated' = Seated \cup {t} /\ Opens' = Opens \cup {t}
      BY <2>7, SeatMoves DEF TabPlaces
    <3>2. ~lapsedSeats => Cardinality(Opens) + 1 <= SeatCap
      BY <1>1, <1>2, <1>3, <2>7
    <3>3. ~lapsedSeats => /\ seats'.value = Cardinality(Seated') + leaks'
                          /\ Cardinality(Opens') <= SeatCap
      <4>1. ~lapsedSeats => seats.value + 1 = (Cardinality(Seated) + 1) + leaks
        BY <1>1, <1>2, <1>3
      <4> QED
        BY <2>3, <2>5, <3>1, <3>2, <4>1
    <3> QED
      BY <1>1, <1>4, <2>3, <3>1, <3>3
  <2> QED
    BY <2>4, <2>6, <2>7
<1>7. ASSUME NEW t \in Tabs, ArriveUncounted(t) PROVE SeatsInv'
  <2>1. t \notin Seated /\ t \notin Opens
    BY <1>7 DEF ArriveUncounted, Seated, Opens
  <2>2. /\ tab' \in [Tabs -> [pc : TabPlaces, counted : BOOLEAN]]
        /\ Seated' = Seated \ {t} /\ Opens' = Opens \ {t}
    BY <1>7, SeatMoves DEF ArriveUncounted, TabPlaces
  <2>3. Seated' = Seated /\ Opens' = Opens
    BY <2>1, <2>2
  <2> QED
    BY <1>1, <1>3, <1>4, <1>7, <2>2, <2>3 DEF ArriveUncounted
<1>8. ASSUME NEW t \in Tabs, CloseTab(t) PROVE SeatsInv'
  <2>1. tab[t].pc = "open" /\ tab[t].counted \in BOOLEAN
    BY <1>1, <1>8 DEF CloseTab
  <2>2. /\ tab' \in [Tabs -> [pc : TabPlaces, counted : BOOLEAN]]
        /\ Seated' = (IF tab[t].counted THEN Seated \cup {t} ELSE Seated \ {t})
        /\ Opens' = Opens \ {t}
    BY <1>8, <2>1, SeatMoves DEF CloseTab, TabPlaces
  <2>3. Seated' = Seated
    BY <2>1, <2>2 DEF Seated
  <2>4. Cardinality(Opens') <= Cardinality(Opens) /\ Cardinality(Opens') \in Nat
    BY <1>2, <2>2, FS_Subset, FS_CardinalityType
  <2>5. ~lapsedSeats => Cardinality(Opens') <= SeatCap
    BY <1>1, <1>2, <1>3, <2>4
  <2>6. UNCHANGED <<seats, leaks, lapsedSeats>>
    BY <1>8 DEF CloseTab
  <2> QED
    BY <1>1, <1>3, <1>4, <2>2, <2>3, <2>5, <2>6
<1>9. ASSUME NEW t \in Tabs, TabKilled(t) \/ LeaveSeat(t) PROVE SeatsInv'
  <2>1. /\ tab[t].pc # "away" /\ tab[t].counted \in BOOLEAN
        /\ TabGoes(t, "away", FALSE) /\ lapsedSeats' = lapsedSeats
    BY <1>1, <1>9 DEF TabKilled, LeaveSeat
  <2>2. /\ tab' \in [Tabs -> [pc : TabPlaces, counted : BOOLEAN]]
        /\ Seated' = Seated \ {t} /\ Opens' = Opens \ {t}
    BY <2>1, SeatMoves DEF TabPlaces
  <2>3. Cardinality(Opens') <= Cardinality(Opens) /\ Cardinality(Opens') \in Nat
    BY <1>2, <2>2, FS_Subset, FS_CardinalityType
  <2>4. t \in Seated <=> tab[t].counted
    BY <2>1 DEF Seated
  <2>5. Cardinality(Seated') =
          IF tab[t].counted THEN Cardinality(Seated) - 1 ELSE Cardinality(Seated)
    BY <1>2, <2>2, <2>4, CountAdd
  <2>6. CASE tab[t].counted
    <3>1. \/ seats' = [seats EXCEPT !.value = @ - 1] /\ leaks' = leaks
          \/ seats' = seats /\ leaks' = leaks + 1
      BY <1>9, <2>6 DEF TabKilled, LeaveSeat
    <3>2. /\ seats' \in [value : Int, expires : BOOLEAN] /\ leaks' \in Nat
          /\ seats'.value - leaks' = (seats.value - leaks) - 1
      BY <1>1, <3>1
    <3>3. seats'.value \in Int
      BY <3>2
    <3> QED
      BY <1>1, <1>2, <1>3, <1>4, <2>1, <2>2, <2>3, <2>5, <2>6, <3>2, <3>3
  <2>7. CASE ~tab[t].counted
    <3>1. seats' = seats /\ leaks' = leaks
      BY <1>9, <2>7 DEF TabKilled, LeaveSeat
    <3> QED
      BY <1>1, <1>2, <1>3, <1>4, <2>1, <2>2, <2>3, <2>5, <2>7, <3>1
  <2> QED
    BY <2>1, <2>6, <2>7
<1>10. CASE SeatsExpire
  <2>1. /\ tab' = tab /\ seats' = [value |-> 0, expires |-> FALSE] /\ leaks' = 0
        /\ lapsedSeats' = (Seated # {}) /\ Seated' = Seated /\ Opens' = Opens
    BY <1>10 DEF SeatsExpire, Seated, Opens
  <2>2. Seated = {} => Cardinality(Seated) = 0
    BY FS_EmptySet
  <2>3. seats' \in [value : Int, expires : BOOLEAN] /\ seats'.value = 0
    BY <2>1
  <2>4. Seated = {} => /\ seats'.value = Cardinality(Seated') + leaks'
                       /\ Cardinality(Opens') <= SeatCap
    <3> SUFFICES ASSUME Seated = {} PROVE 0 = Cardinality(Seated) + 0 /\ Cardinality(Opens) <= SeatCap
      BY <2>1, <2>3
    <3> QED
      BY <1>1, <1>2, <2>2
  <2> QED
    BY <1>1, <1>4, <2>1, <2>3, <2>4
<1> QED
  BY <1>5, <1>6, <1>7, <1>8, <1>9, <1>10
  DEF EventsNext, TabStep, AppendEvent, PublishEvent, EventAges, SubscribeTab, ProbeBacklog,
      ReadBacklog, ReadFails, SendLine, SendLive, Drain, eventVars

-----------------------------------------------------------------------------
\* Each step of the feed, the connection and the client keeps the invariant.
LEMMA EventsStep == EventsInv /\ [EventsNext]_eventVars => EventsInv'
<1>1. ASSUME EventsInv, SeatsExpire \/ UNCHANGED eventVars PROVE EventsInv'
  BY <1>1, EventsSame DEF SeatsExpire, eventVars
<1> QED
  BY <1>1, BacklogStep, PublishStep, ArriveStep, SubscribeStep, ProbeStep, ReplayStep,
     ReadFailsStep, SendLineStep, SendLiveStep, DrainStep DEF EventsNext, TabStep

\* Nothing was published and no tab is seated.
LEMMA EventsStart == EventsInit => EventsInv /\ SeatsInv
<1> SUFFICES ASSUME EventsInit PROVE EventsInv /\ SeatsInv
  OBVIOUS
<1>1. /\ feed = [last |-> 0, oldest |-> 1, young |-> 1, unsent |-> {}]
      /\ client = [cursor |-> 0, base |-> 0, got |-> {}, twice |-> {}]
      /\ seats = [value |-> 0, expires |-> FALSE]
      /\ tab = [t \in Tabs |-> [pc |-> "away", counted |-> FALSE]]
      /\ leaks = 0
  BY DEF EventsInit
<1>2. PICK none, nobody : none = <<>> /\ nobody = {}
  OBVIOUS
<1>3. /\ pipe \in PipeRow /\ pipe.pc = "off" /\ pipe.lines = none /\ pipe.inbox = none
      /\ pipe.floor = 0 /\ pipe.heard = {}
  <2>1. pipe = [pc |-> "off", lines |-> none, inbox |-> none, floor |-> 0, edge |-> 0,
                heard |-> nobody]
    BY <1>2 DEF EventsInit, NoPipe
  <2>2. none \in Seq(Nat) /\ nobody \in SUBSET Int
    BY <1>2
  <2> QED
    BY <1>2, <2>1, <2>2 DEF PipeRow
<1>4. DOMAIN pipe.lines = {} /\ DOMAIN pipe.inbox = {}
  BY <1>2, <1>3
<1>5. EventRows
  BY <1>1, <1>3 DEF EventRows
<1>6. LinesTold /\ InboxTold /\ HeardOnce
  BY <1>2, <1>3, <1>4 DEF LinesTold, InboxTold, HeardOnce, Sending
<1>7. BehindTold /\ FloorTold /\ AheadTold /\ client.twice = {}
  BY <1>1, <1>3 DEF BehindTold, FloorTold, AheadTold, Sending
<1>8. SeatsInv
  <2>1. Seated = {} /\ Opens = {}
    BY <1>1 DEF Seated, Opens
  <2>2. Cardinality({}) = 0
    BY FS_EmptySet
  <2>3. SeatsHold
    BY <1>1, <2>1, <2>2, EventsAssumption DEF SeatsHold, Opens
  <2> QED
    BY <1>1, <2>3 DEF SeatsInv, TabPlaces
<1> QED
  BY <1>5, <1>6, <1>7, <1>8 DEF EventsInv

\* The cursor of a tab passes no event that was not sent, a stream at rest has sent
\* everything, none twice, and the cap of streams holds: for any lengths of backlog and
\* replay and any number of events, tabs and faults, but for the exceptions of EventsSafe.
THEOREM EventsSafeHolds == EventsSpec => []EventsSafe
<1>1. EventsInv /\ SeatsInv => EventsSafe
  <2> SUFFICES ASSUME EventsInv, SeatsInv PROVE EventsSafe
    OBVIOUS
  <2>1. NothingSkipped
    BY DEF NothingSkipped, Skipped, EventsInv, BehindTold, Told
  <2>2. CaughtUp
    <3> SUFFICES ASSUME pipe.pc = "live", pipe.lines = <<>>, pipe.inbox = <<>>,
                        feed.unsent = {}, NEW e \in client.base + 1..feed.last
                 PROVE  e \in client.got \cup slips \cup cut
      BY DEF CaughtUp
    <3>1. /\ Begin = client.base /\ DOMAIN pipe.lines = {} /\ DOMAIN pipe.inbox = {}
          /\ client.base \in Nat /\ feed.last \in Nat /\ pipe.floor \in Int
      BY DEF Begin, EventsInv, EventRows, PipeRow
    <3>2. ~InLines(e) /\ ~InInbox(e) /\ (Told(e) => e \in client.got \cup slips \cup cut)
      BY <3>1 DEF InLines, InInbox, Told
    <3>3. CASE e <= pipe.floor
      <4>1. e \in Begin + 1..pipe.floor
        BY <3>1, <3>3
      <4> QED
        BY <3>2, <4>1 DEF EventsInv, FloorTold, Sending
    <3>4. CASE e > pipe.floor
      BY <3>1, <3>2, <3>4 DEF EventsInv, AheadTold
    <3> QED
      BY <3>1, <3>3, <3>4
  <2> QED
    BY <2>1, <2>2 DEF EventsInv, SeatsInv, EventsSafe
<1> QED
  BY <1>1, EventsStart, EventsStep, SeatsStep, PTL DEF EventsSpec

-----------------------------------------------------------------------------
(* SandboxManager.  A kernel that did not cross has one holder: a thread    *)
(* that is about to bind it or to close it, or the session it is bound to.  *)
(* Only users of that session run in it, and they are counted, so a session *)
(* with no user is popped with nobody in its kernel.  The gateway has one   *)
(* kernel for a session, and somebody who will close it.                    *)

ThreadPlaces == {"idle", "close", "clear", "open", "bind", "failed", "entered",
                 "using", "drop"}

SessionRow == [object : Nat, handle : Nat, ready : BOOLEAN, inUse : Nat,
               expired : BOOLEAN, pendingClose : BOOLEAN]

ThreadRow == [pc : ThreadPlaces, sid : Sessions \cup {"none"}, object : Nat, kernel : Nat,
              todo : SUBSET (Sessions \X Nat)]

\* The types of SandboxTypeOK, without its bounds.
SandboxRows ==
  /\ registry \in [Sessions -> SessionRow]
  /\ kernels \in [Sessions -> Nat]
  /\ thread \in [Threads -> ThreadRow]
  /\ starts \in Seq(Sessions)
  /\ alive \subseteq DOMAIN starts
  /\ crossed \subseteq DOMAIN starts

\* No kernel, or one that was started for s.
Of(k, s) == k # 0 => k \in DOMAIN starts /\ starts[k] = s

\* The gateway knows the kernel of a session, and no other kernel of it runs.
KernelsTold ==
  /\ \A s \in Sessions : Of(kernels[s], s) /\ (kernels[s] # 0 => kernels[s] \in alive)
  /\ \A k \in alive : kernels[starts[k]] = k

\* A session that is bound has the handle of a kernel of its own when it is ready.
HandlesTold ==
  \A s \in Sessions :
    /\ Of(registry[s].handle, s)
    /\ registry[s].ready <=> registry[s].handle # 0
    /\ ~Bound(s) => registry[s].handle = 0

\* What a thread has in hands at each point.
ThreadTold(t) ==
  /\ Of(thread[t].kernel, thread[t].sid)
  /\ \A c \in thread[t].todo : Of(c[2], c[1])
  /\ thread[t].pc \notin {"idle", "close"} => thread[t].sid \in Sessions
  /\ thread[t].pc \notin {"close", "clear"} => thread[t].todo = {}
  /\ At(t, "idle") => thread[t].object = 0
  /\ At(t, "entered") => thread[t].kernel = 0
  /\ At(t, "bind") => thread[t].kernel # 0
  /\ At(t, "drop") => thread[t].kernel \in crossed
  /\ thread[t].pc \in {"entered", "using", "drop"} => thread[t].object # 0

ThreadsTold == \A t \in Threads : ThreadTold(t)

\* The threads that hold the session bound under s.
Users(s) == {t \in Threads : /\ thread[t].pc \in {"entered", "using", "drop"}
                             /\ thread[t].sid = s
                             /\ thread[t].object = registry[s].object}

HoldsCounted == \A s \in Sessions : Bound(s) => registry[s].inUse = Cardinality(Users(s))

\* t is about to bind k, or to close it.
Holder(t, k) ==
  \/ At(t, "bind") /\ thread[t].kernel = k
  \/ \E c \in thread[t].todo : c[2] = k

Runs(t, k) == At(t, "using") /\ thread[t].kernel = k

\* k has one holder: a thread that opens or closes it, or the session it is bound to,
\* whose users alone run in it.
HeldOnce(k) ==
  /\ \A t \in Threads : Holder(t, k) =>
       /\ \A u \in Threads : Holder(u, k) => u = t
       /\ \A u \in Threads : ~Runs(u, k)
       /\ \A s \in Sessions : registry[s].handle # k
       /\ At(t, "bind") => k \in alive
  /\ \A u \in Threads : Runs(u, k) =>
       /\ k \in alive
       /\ \A s \in Sessions : registry[s].handle = k => u \in Users(s)
  /\ \A s \in Sessions : registry[s].handle = k => k \in alive

OneHolder == \A k \in DOMAIN starts \ crossed : HeldOnce(k)

\* Somebody will close k, the kernel of s.
HasOwner(s, k) ==
  \/ Bound(s)
  \/ \E t \in Threads :
       \/ thread[t].sid = s /\ thread[t].pc \in {"open", "bind", "failed"}
       \/ thread[t].todo \cap {<<s, k>>, <<s, 0>>} # {}

\* A kernel of s crossed.
Crossing(s) == \E k \in crossed : starts[k] = s

OwnersTold == \A s \in Sessions : kernels[s] # 0 => HasOwner(s, kernels[s]) \/ Crossing(s)

SandboxBase == SandboxRows /\ KernelsTold /\ HandlesTold /\ ThreadsTold

SandboxInv == /\ SandboxBase /\ HoldsCounted /\ OneHolder /\ OwnersTold /\ SlotsBounded

\* t goes to p, with T to close, and the other threads stay where they are.
Turns(t, s, T, p) ==
  /\ thread' \in [Threads -> ThreadRow]
  /\ thread'[t].pc = p /\ thread'[t].sid = s /\ thread'[t].todo = T
  /\ thread'[t].object = 0 /\ thread'[t].kernel = 0
  /\ \A u \in Threads : u # t => thread'[u] = thread[u]

\* The record of a thread at rest.
LEMMA RestingIs ==
  /\ Resting \in ThreadRow
  /\ Resting.pc = "idle" /\ Resting.sid = "none" /\ Resting.todo = {}
  /\ Resting.object = 0 /\ Resting.kernel = 0
<1>1. PICK none : none = {}
  OBVIOUS
<1>2. PICK rest : rest = [pc |-> "idle", sid |-> "none", object |-> 0, kernel |-> 0,
                          todo |-> none]
  OBVIOUS
<1>3. rest = Resting
  BY <1>1, <1>2 DEF Resting
<1>4. rest \in ThreadRow
  BY <1>1, <1>2 DEF ThreadRow, ThreadPlaces
<1> QED
  BY <1>1, <1>2, <1>3, <1>4

\* A thread that sets out to tear kernels down, with what it is then about to close.
LEMMA TearsTurns ==
  ASSUME SandboxRows, NEW t \in Threads, NEW s \in Sessions \cup {"none"},
         NEW T \in SUBSET (Sessions \X Nat), NEW p \in ThreadPlaces, Tears(t, s, T, p)
  PROVE  Turns(t, s, T, p)
<1>1. thread \in [Threads -> ThreadRow]
  BY DEF SandboxRows
<1>2. PICK r : r = [Resting EXCEPT !.pc = p, !.sid = s, !.todo = T]
  OBVIOUS
<1>3. /\ r \in ThreadRow /\ r.pc = p /\ r.sid = s /\ r.todo = T
      /\ r.object = 0 /\ r.kernel = 0
  BY <1>2, RestingIs DEF ThreadRow
<1>4. thread' = [thread EXCEPT ![t] = r]
  BY <1>2 DEF Tears
<1> QED
  BY <1>1, <1>3, <1>4 DEF Turns

\* A thread that is done rests.
LEMMA RestTurns ==
  ASSUME SandboxRows, NEW t \in Threads, thread' = [thread EXCEPT ![t] = Resting]
  PROVE  Turns(t, "none", {}, "idle")
BY RestingIs DEF SandboxRows, Turns

\* The registry forgets the sessions of P.
LEMMA Popped ==
  ASSUME SandboxBase, NEW P \in SUBSET Sessions, registry' = Pop(P)
  PROVE  /\ registry' \in [Sessions -> SessionRow]
         /\ \A s \in P : registry'[s].handle = 0 /\ registry'[s].object = 0
         /\ \A s \in Sessions \ P : registry'[s] = registry[s]
         /\ starts' = starts => HandlesTold'
<1>1. registry \in [Sessions -> SessionRow] /\ HandlesTold
  BY DEF SandboxBase, SandboxRows
<1>2. Unbound \in SessionRow /\ Unbound.handle = 0 /\ Unbound.object = 0
      /\ Unbound.ready = FALSE
  BY DEF Unbound, SessionRow
<1>3. /\ \A s \in P : registry'[s] = Unbound
      /\ \A s \in Sessions \ P : registry'[s] = registry[s]
      /\ registry' \in [Sessions -> SessionRow]
  BY <1>1, <1>2 DEF Pop
<1>4. ASSUME starts' = starts PROVE HandlesTold'
  BY <1>1, <1>2, <1>3, <1>4 DEF HandlesTold, Of, Bound
<1> QED
  BY <1>2, <1>3, <1>4

\* What is captured of sessions that are popped.
LEMMA CapturedOf ==
  ASSUME SandboxBase, NEW P \in SUBSET Sessions
  PROVE  /\ Captured(P) \in SUBSET (Sessions \X Nat)
         /\ \A c \in Captured(P) : c[1] \in P /\ c[2] = registry[c[1]].handle
         /\ \A c \in Captured(P) : Of(c[2], c[1])
         /\ \A s \in P : <<s, registry[s].handle>> \in Captured(P)
<1>1. \A s \in Sessions : registry[s].handle \in Nat /\ Of(registry[s].handle, s)
  BY DEF SandboxBase, SandboxRows, SessionRow, HandlesTold
<1> QED
  BY <1>1 DEF Captured

\* The base of the invariant holds when one thread moves and no kernel starts or ends.
LEMMA BaseMoves ==
  ASSUME SandboxBase, NEW t \in Threads, UNCHANGED <<kernels, alive, starts>>,
         crossed \subseteq crossed', crossed' \subseteq DOMAIN starts,
         registry' \in [Sessions -> SessionRow], HandlesTold',
         thread' \in [Threads -> ThreadRow],
         \A u \in Threads : u # t => thread'[u] = thread[u],
         ThreadTold(t)'
  PROVE  SandboxBase'
<1>1. SandboxRows' /\ KernelsTold'
  BY DEF SandboxBase, SandboxRows, KernelsTold, Of
<1>2. ASSUME NEW u \in Threads, u # t PROVE ThreadTold(u)'
  BY <1>2 DEF SandboxBase, ThreadsTold, ThreadTold, Of, At
<1> QED
  BY <1>1, <1>2 DEF SandboxBase, ThreadsTold

\* A thread moves on over the same kernels: the base of the invariant is kept.
LEMMA BaseTurns ==
  ASSUME SandboxBase, NEW t \in Threads, NEW s \in Sessions \cup {"none"},
         NEW T \in SUBSET (Sessions \X Nat), NEW p \in {"idle", "close", "clear"},
         Turns(t, s, T, p), UNCHANGED <<kernels, alive, starts>>,
         crossed \subseteq crossed', crossed' \subseteq DOMAIN starts,
         registry' \in [Sessions -> SessionRow], HandlesTold',
         \A c \in T : Of(c[2], c[1]), p = "clear" => s \in Sessions,
         p = "idle" => T = {}
  PROVE  SandboxBase'
<1>1. ThreadTold(t)'
  BY DEF Turns, ThreadTold, Of, At
<1> QED
  BY <1>1, BaseMoves DEF Turns

\* The sessions of P are given up: what is closed is what they were bound to, or what t
\* was about to bind, and no other thread runs in it.
GivesUp(t, P, T) ==
  /\ \A r \in Sessions : registry'[r].handle = IF r \in P THEN 0 ELSE registry[r].handle
  /\ \A r \in Sessions \ P : registry[r].handle # 0 =>
       registry'[r].object = registry[r].object
  /\ \A c \in T : c[2] # 0 =>
       \/ Holder(t, c[2])
       \/ /\ c[1] \in P /\ c[2] = registry[c[1]].handle
          /\ \A u \in Users(c[1]) : At(u, "using") => u = t

\* The thread that gives up the sessions of P becomes the one holder of their kernels.
LEMMA HolderTurns ==
  ASSUME SandboxBase, OneHolder, NEW t \in Threads, thread[t].todo = {},
         NEW P \in SUBSET Sessions, NEW s \in Sessions \cup {"none"},
         NEW T \in SUBSET (Sessions \X Nat), NEW p \in {"idle", "close", "clear"},
         Turns(t, s, T, p), UNCHANGED <<kernels, alive, starts, crossed>>,
         GivesUp(t, P, T)
  PROVE  OneHolder'
<1> SUFFICES ASSUME NEW k \in DOMAIN starts, k \notin crossed
             PROVE  HeldOnce(k)'
  BY DEF OneHolder, HeldOnce
<1>1. /\ \A v \in Threads : Holder(v, k) =>
           /\ \A u \in Threads : Holder(u, k) => u = v
           /\ \A u \in Threads : ~Runs(u, k)
           /\ \A r \in Sessions : registry[r].handle # k
           /\ At(v, "bind") => k \in alive
      /\ \A u \in Threads : Runs(u, k) =>
           /\ k \in alive
           /\ \A r \in Sessions : registry[r].handle = k => u \in Users(r)
      /\ \A r \in Sessions : registry[r].handle = k => k \in alive
  BY DEF OneHolder, HeldOnce
<1>2. k # 0 /\ \A r \in Sessions : registry[r].handle = k => starts[k] = r
  BY DEF SandboxBase, SandboxRows, HandlesTold, Of
<1>3. /\ \A u \in Threads : u # t => (Holder(u, k)' <=> Holder(u, k))
      /\ \A u \in Threads : u # t => (Runs(u, k)' <=> Runs(u, k))
      /\ \A u \in Threads : u # t => (At(u, "bind")' <=> At(u, "bind"))
      /\ ~Runs(t, k)' /\ ~At(t, "bind")'
      /\ Holder(t, k)' <=> \E c \in T : c[2] = k
  BY DEF Turns, Holder, Runs, At
<1>4. \A r \in Sessions : registry'[r].handle = k =>
        /\ registry[r].handle = k /\ r \notin P
        /\ registry'[r].object = registry[r].object
  BY <1>2 DEF GivesUp
<1>5. ASSUME NEW u \in Threads, Runs(u, k)'
      PROVE  /\ k \in alive
             /\ \A r \in Sessions : registry'[r].handle = k => (u \in Users(r))'
  <2>1. u # t /\ Runs(u, k) /\ thread'[u] = thread[u]
    BY <1>3, <1>5 DEF Turns
  <2> QED
    BY <1>1, <1>4, <2>1 DEF Users, Turns
<1>6. ASSUME Holder(t, k)'
      PROVE  \/ Holder(t, k)
             \/ \E r \in P : registry[r].handle = k /\ \A u \in Users(r) : At(u, "using") => u = t
  BY <1>2, <1>3, <1>6 DEF GivesUp
<1>7. ASSUME NEW v \in Threads, Holder(v, k)'
      PROVE  /\ \A u \in Threads : Holder(u, k)' => u = v
             /\ \A u \in Threads : ~Runs(u, k)'
             /\ \A r \in Sessions : registry'[r].handle # k
             /\ At(v, "bind")' => k \in alive
  <2>1. CASE Holder(v, k)
    <3>1. \A u \in Threads : Holder(u, k)' => u = v
      BY <1>1, <1>3, <1>6, <2>1
    <3> QED
      BY <1>1, <1>3, <1>4, <2>1, <3>1
  <2>2. CASE ~Holder(v, k)
    <3>1. v = t
      BY <1>3, <1>7, <2>2
    <3>2. PICK r \in P : /\ registry[r].handle = k
                         /\ \A u \in Users(r) : At(u, "using") => u = t
      BY <1>6, <1>7, <2>2, <3>1
    <3>3. \A u \in Threads : ~Holder(u, k)
      BY <1>1, <3>2
    <3>4. \A u \in Threads : ~Runs(u, k)'
      BY <1>1, <1>3, <3>2 DEF Runs
    <3>5. \A q \in Sessions : registry'[q].handle # k
      BY <1>2, <1>4, <3>2
    <3> QED
      BY <1>3, <3>1, <3>3, <3>4, <3>5
  <2> QED
    BY <2>1, <2>2
<1> QED
  BY <1>1, <1>4, <1>5, <1>7 DEF HeldOnce

\* An owner that leaves hands its kernel over.
LEMMA OwnersTurn ==
  ASSUME OwnersTold, NEW t \in Threads, thread[t].todo = {},
         NEW P \in SUBSET Sessions, NEW s \in Sessions \cup {"none"},
         NEW T, NEW p \in {"idle", "close", "clear"},
         Turns(t, s, T, p), UNCHANGED <<kernels, starts>>, crossed \subseteq crossed',
         \A r \in Sessions \ P : Bound(r) => Bound(r)',
         \A r \in Sessions : kernels[r] # 0 /\
           (r \in P \/ (thread[t].sid = r /\ thread[t].pc \in {"open", "bind", "failed"})) =>
             \/ Crossing(r)
             \/ Bound(r)'
             \/ <<r, kernels[r]>> \in T \/ <<r, 0>> \in T
  PROVE  OwnersTold'
<1> SUFFICES ASSUME NEW r \in Sessions, kernels[r] # 0, ~Crossing(r)'
             PROVE  HasOwner(r, kernels[r])'
  BY DEF OwnersTold
<1>1. ~Crossing(r) /\ kernels' = kernels
  BY DEF Crossing
<1>2. HasOwner(r, kernels[r])
  BY <1>1 DEF OwnersTold
<1>3. /\ thread'[t].todo = T
      /\ \A u \in Threads : u # t => thread'[u] = thread[u]
  BY DEF Turns
<1>4. <<r, kernels[r]>> \in T \/ <<r, 0>> \in T => HasOwner(r, kernels[r])'
  BY <1>1, <1>3 DEF HasOwner
<1>5. CASE Bound(r)
  BY <1>1, <1>4, <1>5 DEF HasOwner
<1>6. ASSUME NEW u \in Threads,
             \/ thread[u].sid = r /\ thread[u].pc \in {"open", "bind", "failed"}
             \/ thread[u].todo \cap {<<r, kernels[r]>>, <<r, 0>>} # {}
      PROVE  HasOwner(r, kernels[r])'
  <2>1. CASE u = t
    BY <1>1, <1>4, <1>6, <2>1 DEF HasOwner
  <2>2. CASE u # t
    BY <1>1, <1>3, <1>6, <2>2 DEF HasOwner
  <2> QED
    BY <2>1, <2>2
<1> QED
  BY <1>2, <1>5, <1>6 DEF HasOwner

\* The users of a session are counted over a finite set.
LEMMA UsersFinite ==
  ASSUME NEW s \in Sessions
  PROVE  IsFiniteSet(Users(s)) /\ Users(s) \subseteq Threads
BY SandboxAssumption, FS_Subset DEF Users

\* A thread that neither held a session nor holds one now moves.
LEMMA CountKept ==
  ASSUME HoldsCounted, NEW t \in Threads,
         thread[t].pc \notin {"entered", "using", "drop"},
         thread'[t].pc \notin {"entered", "using", "drop"},
         \A u \in Threads : u # t => thread'[u] = thread[u],
         \A s \in Sessions : Bound(s)' =>
           \/ /\ registry'[s].object = registry[s].object
              /\ registry'[s].inUse = registry[s].inUse
           \/ /\ registry'[s].inUse = 0
              /\ \A u \in Threads : thread[u].object # registry'[s].object
  PROVE  HoldsCounted'
<1> SUFFICES ASSUME NEW s \in Sessions, Bound(s)'
             PROVE  registry'[s].inUse = Cardinality(Users(s)')
  BY DEF HoldsCounted
<1>1. CASE /\ registry'[s].object = registry[s].object
           /\ registry'[s].inUse = registry[s].inUse
  <2>1. Users(s)' = Users(s) /\ Bound(s)
    BY <1>1 DEF Users, Bound
  <2> QED
    BY <1>1, <2>1 DEF HoldsCounted
<1>2. CASE /\ registry'[s].inUse = 0
           /\ \A u \in Threads : thread[u].object # registry'[s].object
  <2>1. Users(s)' = {}
    BY <1>2 DEF Users
  <2> QED
    BY <1>2, <2>1, FS_EmptySet
<1> QED
  BY <1>1, <1>2

\* A thread that held a session lets it go.
LEMMA CountLeft ==
  ASSUME SandboxRows, HoldsCounted, NEW t \in Threads, NEW p, NEW T,
         thread[t].pc \in {"entered", "using", "drop"}, p \notin {"entered", "using", "drop"},
         NEW q, Turns(t, q, T, p),
         \A s \in Sessions : Bound(s)' =>
           /\ registry'[s].object = registry[s].object
           /\ registry'[s].inUse = registry[s].inUse - (IF t \in Users(s) THEN 1 ELSE 0)
  PROVE  HoldsCounted'
<1> SUFFICES ASSUME NEW s \in Sessions, Bound(s)'
             PROVE  registry'[s].inUse = Cardinality(Users(s)')
  BY DEF HoldsCounted
<1>1. /\ registry'[s].object = registry[s].object
      /\ registry'[s].inUse = registry[s].inUse - (IF t \in Users(s) THEN 1 ELSE 0)
      /\ registry[s].inUse \in Nat
      /\ registry[s].inUse = Cardinality(Users(s))
  BY DEF HoldsCounted, Bound, SandboxRows, SessionRow
<1>2. Users(s)' = Users(s) \ {t}
  BY <1>1 DEF Users, Turns
<1>3. IsFiniteSet(Users(s))
  BY UsersFinite
<1>4. CASE t \in Users(s)
  <2>1. Cardinality(Users(s) \ {t}) = Cardinality(Users(s)) - 1
    BY <1>3, <1>4, FS_RemoveElement
  <2> QED
    BY <1>1, <1>2, <1>4, <2>1
<1>5. CASE t \notin Users(s)
  <2>1. Users(s)' = Users(s)
    BY <1>2, <1>5
  <2>2. registry'[s].inUse = registry[s].inUse
    BY <1>1, <1>5
  <2> QED
    BY <1>1, <2>1, <2>2
<1> QED
  BY <1>4, <1>5

\* Nobody runs in a session that is not in use.
LEMMA Unused ==
  ASSUME HoldsCounted, NEW s \in Sessions, Bound(s), registry[s].inUse = 0
  PROVE  Users(s) = {}
BY UsersFinite, FS_EmptySet DEF HoldsCounted

\* The last user of a session.
LEMMA LastUser ==
  ASSUME HoldsCounted, NEW s \in Sessions, Bound(s), registry[s].inUse = 1,
         NEW t \in Users(s), NEW u \in Users(s)
  PROVE  u = t
<1>1. Cardinality(Users(s) \ {t}) = 0 /\ IsFiniteSet(Users(s) \ {t})
  BY UsersFinite, FS_RemoveElement DEF HoldsCounted
<1> QED
  BY <1>1, FS_EmptySet

\* No more sessions are bound.
LEMMA SlotsKept ==
  ASSUME SlotsBounded, \A s \in Sessions : Bound(s)' => Bound(s)
  PROVE  SlotsBounded'
<1> DEFINE B == {s \in Sessions : Bound(s)}
<1> DEFINE C == {s \in Sessions : Bound(s)'}
<1>1. C \subseteq B /\ IsFiniteSet(B)
  BY SandboxAssumption, FS_Subset
<1>2. Cardinality(C) <= Cardinality(B)
  BY <1>1, FS_Subset
<1>3. Cardinality(B) \in Nat /\ Cardinality(C) \in Nat
  BY <1>1, FS_Subset, FS_CardinalityType
<1>4. Cardinality(B) <= MaxSessions
  BY DEF SlotsBounded
<1>5. Cardinality(C) <= MaxSessions
  BY <1>2, <1>3, <1>4, SandboxAssumption
<1> QED
  BY <1>5 DEF SlotsBounded

\* The kernel a session is bound to is the one the gateway has for it.
LEMMA HandleKnown ==
  ASSUME SandboxBase, OneHolder, NEW s \in Sessions, ~Crossing(s), registry[s].handle # 0
  PROVE  registry[s].handle = kernels[s] /\ kernels[s] \in alive
<1>1. /\ registry[s].handle \in DOMAIN starts /\ starts[registry[s].handle] = s
      /\ registry[s].handle \notin crossed
  BY DEF SandboxBase, HandlesTold, Of, Crossing
<1>2. registry[s].handle \in alive
  BY <1>1 DEF OneHolder, HeldOnce
<1> QED
  BY <1>1, <1>2 DEF SandboxBase, KernelsTold

\* The clock of a session, or a close that is deferred: nothing else moves.
LEMMA RegistryTouched ==
  ASSUME SandboxInv, UNCHANGED <<thread, kernels, alive, starts, crossed>>,
         registry' \in [Sessions -> SessionRow],
         \A s \in Sessions : /\ registry'[s].object = registry[s].object
                             /\ registry'[s].handle = registry[s].handle
                             /\ registry'[s].ready = registry[s].ready
                             /\ registry'[s].inUse = registry[s].inUse
  PROVE  SandboxInv'
<1>1. SandboxBase'
  <2>1. SandboxRows' /\ KernelsTold'
    BY DEF SandboxInv, SandboxBase, SandboxRows, KernelsTold, Of
  <2>2. HandlesTold'
    BY DEF SandboxInv, SandboxBase, HandlesTold, Of, Bound
  <2>3. ThreadsTold'
    BY DEF SandboxInv, SandboxBase, ThreadsTold, ThreadTold, Of, At
  <2> QED
    BY <2>1, <2>2, <2>3 DEF SandboxBase
<1>2. \A s \in Sessions : Users(s)' = Users(s) /\ Bound(s)' = Bound(s)
  BY DEF Users, Bound
<1>3. HoldsCounted'
  BY <1>2 DEF SandboxInv, HoldsCounted
<1>4. OneHolder'
  BY <1>2 DEF SandboxInv, OneHolder, HeldOnce, Holder, Runs, At
<1>5. OwnersTold'
  BY <1>2 DEF SandboxInv, OwnersTold, HasOwner, Crossing
<1>6. SlotsBounded'
  BY <1>2, SlotsKept DEF SandboxInv
<1> QED
  BY <1>1, <1>3, <1>4, <1>5, <1>6 DEF SandboxInv

\* A step that only marks a session, as touched, expired or to be closed.
LEMMA TouchSteps ==
  ASSUME SandboxInv, NEW s \in Sessions,
         \/ registry' = [registry EXCEPT ![s].expired = FALSE]
         \/ registry' = [registry EXCEPT ![s].expired = TRUE]
         \/ registry' = [registry EXCEPT ![s].pendingClose = TRUE]
         \/ registry' = registry,
         UNCHANGED <<thread, kernels, alive, starts, crossed>>
  PROVE  SandboxInv'
<1>1. registry \in [Sessions -> SessionRow]
  BY DEF SandboxInv, SandboxBase, SandboxRows
<1>2. PICK row : /\ row \in SessionRow /\ registry' = [registry EXCEPT ![s] = row]
                 /\ row.object = registry[s].object /\ row.handle = registry[s].handle
                 /\ row.ready = registry[s].ready /\ row.inUse = registry[s].inUse
  <2>1. registry[s] \in SessionRow /\ registry = [registry EXCEPT ![s] = registry[s]]
    BY <1>1
  <2>2. \A b \in BOOLEAN :
          /\ [registry[s] EXCEPT !.expired = b] \in SessionRow
          /\ [registry[s] EXCEPT !.expired = b].object = registry[s].object
          /\ [registry[s] EXCEPT !.expired = b].handle = registry[s].handle
          /\ [registry[s] EXCEPT !.expired = b].ready = registry[s].ready
          /\ [registry[s] EXCEPT !.expired = b].inUse = registry[s].inUse
    BY <2>1 DEF SessionRow
  <2>3. /\ [registry[s] EXCEPT !.pendingClose = TRUE] \in SessionRow
        /\ [registry[s] EXCEPT !.pendingClose = TRUE].object = registry[s].object
        /\ [registry[s] EXCEPT !.pendingClose = TRUE].handle = registry[s].handle
        /\ [registry[s] EXCEPT !.pendingClose = TRUE].ready = registry[s].ready
        /\ [registry[s] EXCEPT !.pendingClose = TRUE].inUse = registry[s].inUse
    BY <2>1 DEF SessionRow
  <2> QED
    BY <2>1, <2>2, <2>3
<1>3. /\ registry' \in [Sessions -> SessionRow]
      /\ \A r \in Sessions : /\ registry'[r].object = registry[r].object
                             /\ registry'[r].handle = registry[r].handle
                             /\ registry'[r].ready = registry[r].ready
                             /\ registry'[r].inUse = registry[r].inUse
  BY <1>1, <1>2
<1> QED
  BY <1>3, RegistryTouched

\* Sessions that nobody else uses are popped, and t closes what they were bound to.
LEMMA TakeStep ==
  ASSUME SandboxInv, NEW t \in Threads, NEW P \in SUBSET Sessions,
         NEW s \in Sessions \cup {"none"}, NEW T \in SUBSET (Sessions \X Nat),
         registry' = Pop(P), UNCHANGED <<kernels, alive, starts, crossed>>,
         Tears(t, s, T, "close"),
         \/ thread[t].pc \in {"idle", "using"} /\ T = Captured(P)
         \/ /\ thread[t].pc = "failed" /\ T = {<<thread[t].sid, 0>>}
            /\ \A r \in P : r = thread[t].sid /\ ~registry[r].ready,
         \A r \in P : registry[r].handle # 0 => \A u \in Users(r) : At(u, "using") => u = t,
         thread[t].pc = "using" => \A r \in Sessions : t \in Users(r) => r \in P
  PROVE  SandboxInv'
<1> USE DEF SandboxInv
<1>1. /\ registry' \in [Sessions -> SessionRow]
      /\ \A r \in P : registry'[r].handle = 0 /\ registry'[r].object = 0
      /\ \A r \in Sessions \ P : registry'[r] = registry[r]
      /\ HandlesTold'
  BY Popped
<1>2. Turns(t, s, T, "close") /\ thread[t].todo = {}
  BY TearsTurns DEF SandboxBase, ThreadsTold, ThreadTold, ThreadPlaces
<1>3. /\ \A c \in Captured(P) : c[1] \in P /\ c[2] = registry[c[1]].handle
      /\ \A c \in Captured(P) : Of(c[2], c[1])
      /\ \A r \in P : <<r, registry[r].handle>> \in Captured(P)
  BY CapturedOf
<1>4. \A c \in T : /\ Of(c[2], c[1])
                   /\ c[2] # 0 => c[1] \in P /\ c[2] = registry[c[1]].handle
  BY <1>3 DEF Of
<1>5. SandboxBase'
  BY <1>1, <1>2, <1>4, BaseTurns DEF SandboxBase, SandboxRows
<1>6. HoldsCounted'
  <2>1. \A r \in Sessions : Bound(r)' => r \notin P /\ registry'[r] = registry[r]
    BY <1>1 DEF Bound
  <2>2. CASE thread[t].pc = "using"
    <3>1. \A r \in Sessions : Bound(r)' => t \notin Users(r)
      BY <2>1, <2>2
    <3>2. \A r \in Sessions : registry[r].inUse \in Nat
      BY DEF SandboxBase, SandboxRows, SessionRow
    <3>3. \A r \in Sessions : Bound(r)' =>
            /\ registry'[r].object = registry[r].object
            /\ registry'[r].inUse = registry[r].inUse - (IF t \in Users(r) THEN 1 ELSE 0)
      BY <2>1, <3>1, <3>2
    <3> QED
      BY <1>2, <2>2, <3>3, CountLeft DEF SandboxBase
  <2>3. CASE thread[t].pc # "using"
    BY <1>2, <2>1, <2>3, CountKept DEF Turns
  <2> QED
    BY <2>2, <2>3
<1>7. OneHolder'
  <2>1. GivesUp(t, P, T)
    BY <1>1, <1>4 DEF GivesUp
  <2> QED
    BY <1>2, <2>1, HolderTurns
<1>8. OwnersTold'
  <2>1. \A r \in Sessions \ P : Bound(r) => Bound(r)'
    BY <1>1 DEF Bound
  <2>2. ASSUME NEW r \in P, ~Crossing(r), kernels[r] # 0
        PROVE  <<r, kernels[r]>> \in T \/ <<r, 0>> \in T
    BY <1>3, <2>2, HandleKnown DEF SandboxBase, HandlesTold
  <2>3. \A r \in Sessions : kernels[r] # 0 /\
           (r \in P \/ (thread[t].sid = r /\ thread[t].pc \in {"open", "bind", "failed"})) =>
             \/ Crossing(r)
             \/ Bound(r)'
             \/ <<r, kernels[r]>> \in T \/ <<r, 0>> \in T
    BY <2>2
  <2> QED
    BY <1>2, <2>1, <2>3, OwnersTurn
<1>9. SlotsBounded'
  BY <1>1, SlotsKept DEF Bound
<1> QED
  BY <1>5, <1>6, <1>7, <1>8, <1>9

\* The open whose back end failed frees its placeholder, and sets out to close by the id.
LEMMA FreeStep == ASSUME SandboxInv, NEW t \in Threads, FreeSlot(t) PROVE SandboxInv'
<1> DEFINE s == thread[t].sid
<1>1. /\ thread[t].pc = "failed" /\ s \in Sessions
      /\ {<<s, 0>>} \in SUBSET (Sessions \X Nat)
      /\ UNCHANGED <<kernels, alive, starts, crossed>>
      /\ Tears(t, s, {<<s, 0>>}, "close")
  BY DEF FreeSlot, At, SandboxInv, SandboxBase, ThreadsTold, ThreadTold
<1>2. registry = Pop({})
  BY DEF Pop, SandboxInv, SandboxBase, SandboxRows
<1>3. PICK P \in SUBSET Sessions :
        /\ registry' = Pop(P)
        /\ \A r \in P : r = s /\ ~registry[r].ready
  <2>1. CASE registry[s].ready
    <3>1. registry' = Pop({})
      BY <1>2, <2>1 DEF FreeSlot
    <3> QED
      BY <3>1
  <2>2. CASE ~registry[s].ready
    <3>1. registry' = Pop({s}) /\ {s} \in SUBSET Sessions
      BY <1>1, <2>2 DEF FreeSlot
    <3> QED
      BY <2>2, <3>1
  <2> QED
    BY <2>1, <2>2
<1>4. \A r \in P : registry[r].handle = 0
  BY <1>3 DEF SandboxInv, SandboxBase, HandlesTold
<1> QED
  BY <1>1, <1>3, <1>4, TakeStep

\* What may be evicted or reaped has no user.
LEMMA EvictableUnused ==
  ASSUME SandboxInv, NEW s \in Sessions, Evictable(s)
  PROVE  Users(s) = {}
BY Unused DEF Evictable, SandboxInv

\* The reaper takes the expired sessions that nobody uses.
LEMMA ReapStep == ASSUME SandboxInv, NEW t \in Threads, ReapExpired(t) PROVE SandboxInv'
<1>1. /\ thread[t].pc = "idle" /\ Reapable \in SUBSET Sessions
      /\ registry' = Pop(Reapable) /\ UNCHANGED <<kernels, alive, starts, crossed>>
      /\ Tears(t, "none", Captured(Reapable), "close")
      /\ Captured(Reapable) \in SUBSET (Sessions \X Nat)
  BY CapturedOf DEF ReapExpired, At, Reapable, SandboxInv
<1>2. \A r \in Reapable : Users(r) = {}
  BY EvictableUnused DEF Reapable
<1> QED
  BY <1>1, <1>2, TakeStep

\* A close takes the session at once if nobody uses it, and leaves a mark if somebody does.
LEMMA CloseStep ==
  ASSUME SandboxInv, NEW t \in Threads, NEW s \in Sessions, CloseSession(t, s)
  PROVE  SandboxInv'
<1>1. CASE registry[s].inUse > 0
  BY <1>1, TouchSteps DEF CloseSession
<1>2. CASE ~(registry[s].inUse > 0)
  <2>1. /\ thread[t].pc = "idle" /\ {s} \in SUBSET Sessions /\ Bound(s)
        /\ registry' = Pop({s}) /\ UNCHANGED <<kernels, alive, starts, crossed>>
        /\ Tears(t, s, Captured({s}), "close")
        /\ Captured({s}) \in SUBSET (Sessions \X Nat)
    BY <1>2, CapturedOf DEF CloseSession, At, SandboxInv
  <2>2. registry[s].inUse = 0
    BY <1>2 DEF SandboxInv, SandboxBase, SandboxRows, SessionRow
  <2>3. Users(s) = {}
    BY <2>1, <2>2, Unused DEF SandboxInv
  <2> QED
    BY <2>1, <2>3, TakeStep
<1> QED
  BY <1>1, <1>2

\* A thread that held a session rests, and the session stays as it is or is popped.
LEMMA LetGo ==
  ASSUME SandboxInv, NEW t \in Threads, NEW P \in SUBSET Sessions,
         thread[t].pc \in {"entered", "using", "drop"},
         thread' = [thread EXCEPT ![t] = Resting],
         UNCHANGED <<kernels, alive, starts, crossed>>,
         registry' \in [Sessions -> SessionRow], HandlesTold',
         \A r \in P : Crossing(r) /\ registry'[r].handle = 0 /\ registry'[r].object = 0,
         \A r \in Sessions \ P :
           /\ registry'[r].object = registry[r].object
           /\ registry'[r].handle = registry[r].handle
           /\ registry'[r].inUse = registry[r].inUse - (IF t \in Users(r) THEN 1 ELSE 0)
  PROVE  SandboxInv'
<1> USE DEF SandboxInv
<1>1. Turns(t, "none", {}, "idle") /\ thread[t].todo = {}
  BY RestTurns DEF SandboxBase, ThreadsTold, ThreadTold
<1>2. SandboxBase'
  BY <1>1, BaseTurns DEF SandboxBase, SandboxRows
<1>3. HoldsCounted'
  <2>1. \A r \in Sessions : Bound(r)' => r \notin P
    BY DEF Bound
  <2> QED
    BY <1>1, <2>1, CountLeft DEF SandboxBase
<1>4. OneHolder'
  <2>1. GivesUp(t, P, {})
    BY DEF GivesUp
  <2> QED
    BY <1>1, <2>1, HolderTurns
<1>5. OwnersTold'
  <2>1. \A r \in Sessions \ P : Bound(r) => Bound(r)'
    BY DEF Bound
  <2> QED
    BY <1>1, <2>1, OwnersTurn
<1>6. SlotsBounded'
  BY SlotsKept DEF Bound
<1> QED
  BY <1>2, <1>3, <1>4, <1>5, <1>6

\* A thread whose kernel died under it drops the session's entry.
LEMMA DropStep == ASSUME SandboxInv, NEW t \in Threads, DropInvalidated(t) PROVE SandboxInv'
<1> DEFINE s == thread[t].sid
<1>1. /\ thread[t].pc = "drop" /\ s \in Sessions
      /\ thread' = [thread EXCEPT ![t] = Resting]
      /\ UNCHANGED <<kernels, alive, starts, crossed>>
      /\ \A r \in Sessions : registry[r].inUse \in Nat
      /\ registry \in [Sessions -> SessionRow] /\ HandlesTold /\ SandboxBase
      /\ crossed \subseteq DOMAIN starts
  BY DEF DropInvalidated, At, SandboxInv, SandboxBase, ThreadsTold, ThreadTold,
         SandboxRows, SessionRow
<1>2. Crossing(s)
  <2>1. thread[t].kernel \in crossed /\ Of(thread[t].kernel, s)
    BY <1>1 DEF SandboxInv, SandboxBase, ThreadsTold, ThreadTold, At
  <2>2. thread[t].kernel # 0
    BY <1>1, <2>1 DEF SandboxBase, SandboxRows
  <2> QED
    BY <2>1, <2>2 DEF Of, Crossing
<1>3. \A r \in Sessions : t \in Users(r) => r = s /\ Held(t)
  BY DEF Users, Held
<1>4. CASE Held(t)
  <2>1. registry' = Pop({s}) /\ {s} \in SUBSET Sessions
    BY <1>1, <1>4 DEF DropInvalidated
  <2>2. /\ registry' \in [Sessions -> SessionRow]
        /\ \A r \in {s} : registry'[r].handle = 0 /\ registry'[r].object = 0
        /\ \A r \in Sessions \ {s} : registry'[r] = registry[r]
        /\ HandlesTold'
    BY <1>1, <2>1, Popped
  <2>3. \A r \in Sessions \ {s} :
          /\ registry'[r].object = registry[r].object
          /\ registry'[r].handle = registry[r].handle
          /\ registry'[r].inUse = registry[r].inUse - (IF t \in Users(r) THEN 1 ELSE 0)
    BY <1>1, <1>3, <2>2
  <2>4. PICK P \in SUBSET Sessions : P = {s}
    BY <2>1
  <2>5. /\ \A r \in P : Crossing(r) /\ registry'[r].handle = 0 /\ registry'[r].object = 0
        /\ \A r \in Sessions \ P :
             /\ registry'[r].object = registry[r].object
             /\ registry'[r].handle = registry[r].handle
             /\ registry'[r].inUse = registry[r].inUse - (IF t \in Users(r) THEN 1 ELSE 0)
    BY <1>2, <2>2, <2>3, <2>4
  <2> QED
    BY <1>1, <2>2, <2>5, LetGo
<1>5. CASE ~Held(t)
  <2>1. registry' = registry
    BY <1>5 DEF DropInvalidated
  <2>2. HandlesTold'
    BY <1>1, <2>1 DEF HandlesTold, Of, Bound
  <2>3. PICK none \in SUBSET Sessions : none = {}
    OBVIOUS
  <2>4. \A r \in Sessions \ none :
          /\ registry'[r].object = registry[r].object
          /\ registry'[r].handle = registry[r].handle
          /\ registry'[r].inUse = registry[r].inUse - (IF t \in Users(r) THEN 1 ELSE 0)
    BY <1>1, <1>3, <1>5, <2>1
  <2> QED
    BY <1>1, <2>1, <2>2, <2>3, <2>4, LetGo
<1> QED
  BY <1>4, <1>5

\* A thread gives its hold back, and takes the session if its close waited for that.
LEMMA LeaveStep == ASSUME SandboxInv, NEW t \in Threads, Leave(t) PROVE SandboxInv'
<1> DEFINE s == thread[t].sid
<1>1. /\ thread[t].pc = "using" /\ s \in Sessions
      /\ UNCHANGED <<kernels, alive, starts, crossed>>
      /\ registry[s] \in SessionRow
      /\ \A r \in Sessions : registry[r].inUse \in Nat
      /\ registry \in [Sessions -> SessionRow] /\ HandlesTold /\ SandboxBase
  BY DEF Leave, At, SandboxInv, SandboxBase, ThreadsTold, ThreadTold, SandboxRows, SessionRow
<1>2. \A r \in Sessions : t \in Users(r) <=> r = s /\ Held(t)
  BY <1>1 DEF Users, Held
<1>3. Held(t) => Bound(s)
  BY <1>1 DEF Held, Bound, SandboxBase, ThreadsTold, ThreadTold
<1>4. Held(t) => registry[s].inUse > 0
  BY <1>1, <1>2, <1>3, Unused DEF SandboxInv
<1>5. CASE /\ Held(t) /\ registry[s].inUse = 1 /\ registry[s].pendingClose
  <2>1. /\ registry' = Pop({s}) /\ {s} \in SUBSET Sessions
        /\ Tears(t, s, Captured({s}), "close")
        /\ Captured({s}) \in SUBSET (Sessions \X Nat)
    BY <1>1, <1>5, CapturedOf DEF Leave
  <2>2. \A u \in Users(s) : u = t
    BY <1>1, <1>2, <1>3, <1>5, LastUser DEF SandboxInv
  <2>3. PICK P \in SUBSET Sessions :
          /\ P = {s} /\ registry' = Pop(P) /\ Tears(t, s, Captured(P), "close")
          /\ Captured(P) \in SUBSET (Sessions \X Nat)
    BY <2>1
  <2>4. /\ \A r \in P : registry[r].handle # 0 => \A u \in Users(r) : At(u, "using") => u = t
        /\ \A r \in Sessions : t \in Users(r) => r \in P
    BY <1>2, <2>2, <2>3
  <2>5. thread[t].pc \in {"idle", "using"} /\ s \in Sessions \cup {"none"}
    BY <1>1
  <2> QED
    BY <1>1, <2>3, <2>4, <2>5, TakeStep
<1>6. CASE /\ Held(t) /\ registry[s].inUse > 0
           /\ ~(registry[s].inUse = 1 /\ registry[s].pendingClose)
  <2>1. /\ registry' = [registry EXCEPT ![s].inUse = @ - 1, ![s].expired = FALSE]
        /\ thread' = [thread EXCEPT ![t] = Resting]
    BY <1>6 DEF Leave
  <2>2. /\ registry' \in [Sessions -> SessionRow]
        /\ registry'[s].inUse = registry[s].inUse - 1
        /\ registry'[s].object = registry[s].object
        /\ registry'[s].handle = registry[s].handle
        /\ registry'[s].ready = registry[s].ready
        /\ \A r \in Sessions : r # s => registry'[r] = registry[r]
    <3>1. PICK n \in Nat : n = registry[s].inUse - 1
      BY <1>1, <1>6
    <3>2. PICK row : row = [registry[s] EXCEPT !.inUse = n, !.expired = FALSE]
      OBVIOUS
    <3>3. /\ row \in SessionRow /\ row.inUse = n
          /\ row.object = registry[s].object /\ row.handle = registry[s].handle
          /\ row.ready = registry[s].ready
      BY <1>1, <3>2 DEF SessionRow
    <3>4. registry' = [registry EXCEPT ![s] = row]
      BY <2>1, <3>1, <3>2
    <3> QED
      BY <1>1, <3>1, <3>3, <3>4
  <2>3. HandlesTold'
    BY <1>1, <2>2 DEF HandlesTold, Of, Bound
  <2>4. PICK none \in SUBSET Sessions : none = {}
    OBVIOUS
  <2>5. \A r \in Sessions \ none :
          /\ registry'[r].object = registry[r].object
          /\ registry'[r].handle = registry[r].handle
          /\ registry'[r].inUse = registry[r].inUse - (IF t \in Users(r) THEN 1 ELSE 0)
    BY <1>1, <1>2, <1>6, <2>2
  <2> QED
    BY <1>1, <2>1, <2>2, <2>3, <2>4, <2>5, LetGo
<1>7. CASE ~(Held(t) /\ registry[s].inUse > 0)
  <2>1. registry' = registry /\ thread' = [thread EXCEPT ![t] = Resting]
    BY <1>7 DEF Leave
  <2>2. HandlesTold'
    BY <1>1, <2>1 DEF HandlesTold, Of, Bound
  <2>3. PICK none \in SUBSET Sessions : none = {}
    OBVIOUS
  <2>4. \A r \in Sessions \ none :
          /\ registry'[r].object = registry[r].object
          /\ registry'[r].handle = registry[r].handle
          /\ registry'[r].inUse = registry[r].inUse - (IF t \in Users(r) THEN 1 ELSE 0)
    BY <1>1, <1>2, <1>4, <1>7, <2>1
  <2> QED
    BY <1>1, <2>1, <2>2, <2>3, <2>4, LetGo
<1> QED
  BY <1>4, <1>5, <1>6, <1>7

\* t goes on with the registry as it is: it closes what it was about to bind, or nothing.
LEMMA TurnStep ==
  ASSUME SandboxInv, NEW t \in Threads, NEW s \in Sessions \cup {"none"},
         NEW T \in SUBSET (Sessions \X Nat), NEW p \in {"idle", "close"},
         thread[t].pc \in {"close", "bind"}, thread[t].todo = {},
         UNCHANGED <<registry, kernels, alive, starts, crossed>>,
         Turns(t, s, T, p), p = "idle" => T = {},
         \A c \in T : Of(c[2], c[1]) /\ Holder(t, c[2]),
         thread[t].pc = "bind" => <<thread[t].sid, thread[t].kernel>> \in T
  PROVE  SandboxInv'
<1> USE DEF SandboxInv
<1>1. SandboxBase'
  <2>1. HandlesTold' /\ registry' \in [Sessions -> SessionRow] /\ crossed \subseteq DOMAIN starts
    BY DEF SandboxBase, SandboxRows, HandlesTold, Of, Bound
  <2> QED
    BY <2>1, BaseTurns
<1>2. HoldsCounted'
  BY CountKept DEF Turns, Bound
<1>3. PICK none \in SUBSET Sessions : none = {}
  OBVIOUS
<1>4. OneHolder'
  <2>1. GivesUp(t, none, T)
    BY <1>3 DEF GivesUp
  <2> QED
    BY <2>1, HolderTurns
<1>5. OwnersTold'
  <2>1. ASSUME NEW r \in Sessions, kernels[r] # 0, thread[t].sid = r, thread[t].pc = "bind",
               ~Crossing(r)
        PROVE  <<r, kernels[r]>> \in T
    <3>1. /\ thread[t].kernel \in DOMAIN starts /\ starts[thread[t].kernel] = r
          /\ thread[t].kernel \notin crossed
      BY <2>1 DEF SandboxBase, ThreadsTold, ThreadTold, Of, Crossing, At
    <3>2. thread[t].kernel \in alive
      BY <2>1, <3>1 DEF OneHolder, HeldOnce, Holder, At
    <3> QED
      BY <2>1, <3>1, <3>2 DEF SandboxBase, KernelsTold
  <2>2. \A r \in Sessions \ none : Bound(r) => Bound(r)'
    BY DEF Bound
  <2>3. \A r \in Sessions : kernels[r] # 0 /\
          (r \in none \/ (thread[t].sid = r /\ thread[t].pc \in {"open", "bind", "failed"})) =>
            \/ Crossing(r)
            \/ Bound(r)'
            \/ <<r, kernels[r]>> \in T \/ <<r, 0>> \in T
    BY <1>3, <2>1
  <2>4. /\ OwnersTold /\ p \in {"idle", "close", "clear"} /\ crossed \subseteq crossed'
        /\ UNCHANGED <<kernels, starts>>
    OBVIOUS
  <2> HIDE DEF SandboxInv
  <2> QED
    BY <2>2, <2>3, <2>4, OwnersTurn
<1>6. SlotsBounded'
  BY SlotsKept DEF Bound
<1> QED
  BY <1>1, <1>2, <1>4, <1>5, <1>6

\* t goes on to another point outside a session, and takes nothing with it.
LEMMA VictimsStep == ASSUME SandboxInv, NEW t \in Threads, VictimsClosed(t) PROVE SandboxInv'
<1>1. /\ UNCHANGED <<registry, kernels, alive, starts, crossed>>
      /\ thread[t].pc \in {"close", "clear"} /\ thread[t].todo = {}
      /\ thread \in [Threads -> ThreadRow] /\ SandboxBase
  BY DEF VictimsClosed, SandboxInv, SandboxBase, SandboxRows, At
<1>2. CASE thread[t].pc = "close"
  <2>1. thread' = [thread EXCEPT ![t] = Resting]
    BY <1>2 DEF VictimsClosed, At
  <2>2. PICK none \in SUBSET (Sessions \X Nat) : none = {}
    OBVIOUS
  <2>3. Turns(t, "none", none, "idle")
    BY <1>1, <2>1, <2>2, RestTurns DEF SandboxBase
  <2> QED
    BY <1>1, <1>2, <2>2, <2>3, TurnStep
<1>3. CASE thread[t].pc = "clear"
  <2>1. thread' = [thread EXCEPT ![t] = [thread[t] EXCEPT !.pc = "open"]]
    BY <1>3 DEF VictimsClosed, At
  <2>2. /\ thread' \in [Threads -> ThreadRow]
        /\ thread'[t].pc = "open" /\ thread'[t].sid = thread[t].sid
        /\ thread'[t].todo = {} /\ thread'[t].object = thread[t].object
        /\ thread'[t].kernel = thread[t].kernel
        /\ \A u \in Threads : u # t => thread'[u] = thread[u]
    BY <1>1, <2>1 DEF ThreadRow, ThreadPlaces
  <2>3. SandboxBase'
    <3>1. ThreadTold(t)
      BY <1>1 DEF SandboxBase, ThreadsTold
    <3>2. ThreadTold(t)'
      BY <1>1, <1>3, <2>2, <3>1 DEF ThreadTold, Of, At
    <3>3. HandlesTold' /\ registry' \in [Sessions -> SessionRow] /\ crossed \subseteq DOMAIN starts
      BY <1>1 DEF SandboxBase, SandboxRows, HandlesTold, Of, Bound
    <3> QED
      BY <1>1, <2>2, <3>2, <3>3, BaseMoves
  <2>4. HoldsCounted'
    BY <1>1, <1>3, <2>2, CountKept DEF SandboxInv, Bound
  <2>5. OneHolder'
    <3>1. \A k : \A u \in Threads : /\ Holder(u, k)' <=> Holder(u, k)
                                    /\ Runs(u, k)' <=> Runs(u, k)
                                    /\ At(u, "bind")' <=> At(u, "bind")
      BY <1>1, <1>3, <2>2 DEF Holder, Runs, At
    <3>2. \A r \in Sessions : Users(r)' = Users(r)
      BY <1>1, <1>3, <2>2 DEF Users
    <3> QED
      BY <1>1, <3>1, <3>2 DEF OneHolder, HeldOnce, SandboxInv
  <2>6. OwnersTold'
    BY <1>1, <1>3, <2>2 DEF OwnersTold, HasOwner, Crossing, Bound, SandboxInv
  <2>7. SlotsBounded'
    BY <1>1, SlotsKept DEF Bound, SandboxInv
  <2> QED
    BY <2>3, <2>4, <2>5, <2>6, <2>7 DEF SandboxInv
<1> QED
  BY <1>1, <1>2, <1>3

\* t binds its kernel to the session.
LEMMA BindStep == ASSUME SandboxInv, NEW t \in Threads, Bind(t) PROVE SandboxInv'
<1> DEFINE s == thread[t].sid
<1> DEFINE k == thread[t].kernel
<1>1. /\ UNCHANGED <<kernels, alive, starts>>
      /\ thread[t].pc = "bind" /\ thread[t].todo = {} /\ s \in Sessions
      /\ k # 0 /\ k \in DOMAIN starts /\ starts[k] = s /\ k \in Nat
      /\ thread \in [Threads -> ThreadRow] /\ SandboxBase
      /\ registry \in [Sessions -> SessionRow] /\ registry[s] \in SessionRow
      /\ crossed \subseteq DOMAIN starts
  BY DEF Bind, SandboxInv, SandboxBase, SandboxRows, ThreadsTold, ThreadTold, Of, At, ThreadRow
<1>2. CASE ~Bound(s)
  <2>1. /\ Tears(t, s, {<<s, k>>}, "close") /\ UNCHANGED <<registry, crossed>>
        /\ {<<s, k>>} \in SUBSET (Sessions \X Nat)
    BY <1>1, <1>2 DEF Bind
  <2>2. Turns(t, s, {<<s, k>>}, "close")
    BY <1>1, <2>1, TearsTurns DEF SandboxBase, ThreadPlaces
  <2>3. \A c \in {<<s, k>>} : Of(c[2], c[1]) /\ Holder(t, c[2])
    BY <1>1 DEF Of, Holder, At
  <2> QED
    BY <1>1, <2>1, <2>2, <2>3, TurnStep
<1>3. CASE Bound(s)
  <2>1. /\ registry' = [registry EXCEPT ![s].handle = k, ![s].ready = TRUE,
                                        ![s].expired = FALSE]
        /\ thread' = [thread EXCEPT ![t] = Resting]
        /\ crossed' = IF registry[s].handle \in {0, k} THEN crossed
                      ELSE crossed \cup {registry[s].handle}
    BY <1>3 DEF Bind
  <2>2. /\ registry' \in [Sessions -> SessionRow]
        /\ registry'[s].object = registry[s].object /\ registry'[s].handle = k
        /\ registry'[s].ready = TRUE /\ registry'[s].inUse = registry[s].inUse
        /\ \A r \in Sessions : r # s => registry'[r] = registry[r]
    BY <1>1, <2>1 DEF SessionRow
  <2>3. PICK none \in SUBSET (Sessions \X Nat) : none = {}
    OBVIOUS
  <2>4. Turns(t, "none", none, "idle")
    BY <1>1, <2>1, <2>3, RestTurns DEF SandboxBase
  <2>5. /\ \A r \in Sessions : Bound(r)' = Bound(r)
        /\ \A r \in Sessions : registry'[r].object = registry[r].object
        /\ \A r \in Sessions : registry'[r].inUse = registry[r].inUse
    BY <2>2 DEF Bound
  <2>6. /\ crossed \subseteq crossed' /\ crossed' \subseteq DOMAIN starts
        /\ registry[s].handle # 0 /\ registry[s].handle # k => registry[s].handle \in crossed'
    BY <1>1, <2>1 DEF SandboxBase, HandlesTold, Of
  <2>7. SandboxBase'
    <3>1. HandlesTold'
      BY <1>1, <1>3, <2>2, <2>5 DEF SandboxBase, HandlesTold, Of
    <3> QED
      BY <1>1, <2>2, <2>3, <2>4, <2>6, <3>1, BaseTurns
  <2>8. HoldsCounted'
    BY <1>1, <2>4, <2>5, CountKept DEF Turns, SandboxInv
  <2>9. OneHolder'
    <3> SUFFICES ASSUME NEW j \in DOMAIN starts, j \notin crossed'
                 PROVE  HeldOnce(j)'
      BY <1>1 DEF OneHolder, HeldOnce
    <3>1. /\ \A v \in Threads : Holder(v, j) =>
               /\ \A u \in Threads : Holder(u, j) => u = v
               /\ \A u \in Threads : ~Runs(u, j)
               /\ \A r \in Sessions : registry[r].handle # j
               /\ At(v, "bind") => j \in alive
          /\ \A u \in Threads : Runs(u, j) =>
               /\ j \in alive
               /\ \A r \in Sessions : registry[r].handle = j => u \in Users(r)
          /\ \A r \in Sessions : registry[r].handle = j => j \in alive
      BY <2>6 DEF OneHolder, HeldOnce, SandboxInv
    <3>2. /\ \A u \in Threads : u # t => (Holder(u, j)' <=> Holder(u, j))
          /\ \A u \in Threads : u # t => (Runs(u, j)' <=> Runs(u, j))
          /\ \A u \in Threads : u # t => (At(u, "bind")' <=> At(u, "bind"))
          /\ ~Runs(t, j)' /\ ~Holder(t, j)'
      BY <2>3, <2>4 DEF Turns, Holder, Runs, At
    <3>3. \A r \in Sessions : \A u \in Threads : u # t => (u \in Users(r)' <=> u \in Users(r))
      BY <2>4, <2>5 DEF Users, Turns
    <3>4. CASE j = k
      <4>1. Holder(t, k)
        BY <1>1 DEF Holder, At
      <4>2. /\ \A u \in Threads : ~Holder(u, j)'
            /\ \A u \in Threads : ~Runs(u, j)'
            /\ j \in alive
        BY <1>1, <3>1, <3>2, <3>4, <4>1 DEF At
      <4> QED
        BY <1>1, <4>2 DEF HeldOnce
    <3>5. CASE j # k
      <4>1. \A r \in Sessions : registry'[r].handle = j => r # s /\ registry[r].handle = j
        BY <2>2, <3>5
      <4> QED
        BY <1>1, <3>1, <3>2, <3>3, <4>1 DEF HeldOnce
    <3> QED
      BY <3>4, <3>5
  <2>10. OwnersTold'
    <3>1. PICK P \in SUBSET Sessions : P = {}
      OBVIOUS
    <3>2. \A r \in Sessions \ P : Bound(r) => Bound(r)'
      BY <2>5
    <3>3. \A r \in Sessions : kernels[r] # 0 /\
            (r \in P \/ (thread[t].sid = r /\ thread[t].pc \in {"open", "bind", "failed"})) =>
              \/ Crossing(r)
              \/ Bound(r)'
              \/ <<r, kernels[r]>> \in none \/ <<r, 0>> \in none
      BY <1>3, <2>5, <3>1
    <3> QED
      BY <1>1, <2>4, <2>6, <3>2, <3>3, OwnersTurn DEF SandboxInv
  <2>11. SlotsBounded'
    BY <2>5, SlotsKept DEF SandboxInv
  <2> QED
    BY <2>7, <2>8, <2>9, <2>10, <2>11 DEF SandboxInv
<1> QED
  BY <1>2, <1>3

\* t enters a session that is ready.
LEMMA EnterStep ==
  ASSUME SandboxInv, NEW t \in Threads, NEW s \in Sessions, Enter(t, s)
  PROVE  SandboxInv'
<1> DEFINE o == registry[s].object
<1>1. /\ thread[t].pc = "idle" /\ thread[t].todo = {} /\ registry[s].ready
      /\ UNCHANGED <<kernels, alive, starts, crossed>> /\ SandboxBase
      /\ registry[s].handle # 0 /\ Bound(s) /\ o # 0 /\ o \in Nat
      /\ registry \in [Sessions -> SessionRow] /\ registry[s] \in SessionRow
      /\ crossed \subseteq DOMAIN starts
  BY DEF Enter, At, SandboxInv, SandboxBase, SandboxRows, HandlesTold, KernelsTold,
         ThreadsTold, ThreadTold, SessionRow, Bound
<1>2. PICK r : r = [Resting EXCEPT !.pc = "entered", !.sid = s, !.object = o]
  OBVIOUS
<1>3. /\ r \in ThreadRow /\ r.pc = "entered" /\ r.sid = s /\ r.todo = {}
      /\ r.object = o /\ r.kernel = 0
  BY <1>1, <1>2, RestingIs DEF ThreadRow, ThreadPlaces
<1>4. thread' = [thread EXCEPT ![t] = r]
  BY <1>2 DEF Enter
<1>5. /\ thread' \in [Threads -> ThreadRow] /\ thread'[t] = r
      /\ \A u \in Threads : u # t => thread'[u] = thread[u]
  BY <1>1, <1>3, <1>4 DEF SandboxBase, SandboxRows
<1>6. registry' = [registry EXCEPT ![s].inUse = @ + 1, ![s].expired = FALSE]
  BY DEF Enter
<1>7. /\ registry' \in [Sessions -> SessionRow] /\ registry'[s].inUse = registry[s].inUse + 1
      /\ \A q \in Sessions : /\ registry'[q].object = registry[q].object
                             /\ registry'[q].handle = registry[q].handle
                             /\ registry'[q].ready = registry[q].ready
                             /\ q # s => registry'[q].inUse = registry[q].inUse
                             /\ Bound(q)' = Bound(q)
  <2>1. /\ registry' \in [Sessions -> SessionRow]
        /\ registry'[s].inUse = registry[s].inUse + 1
        /\ registry'[s].object = registry[s].object
        /\ registry'[s].handle = registry[s].handle
        /\ registry'[s].ready = registry[s].ready
        /\ \A q \in Sessions : q # s => registry'[q] = registry[q]
    <3>1. /\ registry[s] \in SessionRow /\ registry \in [Sessions -> SessionRow]
          /\ registry[s].inUse \in Nat
      BY <1>1 DEF SessionRow
    <3>2. PICK n \in Nat : n = registry[s].inUse + 1
      BY <3>1
    <3>3. PICK row : row = [registry[s] EXCEPT !.inUse = n, !.expired = FALSE]
      OBVIOUS
    <3>4. /\ row \in SessionRow /\ row.inUse = n
          /\ row.object = registry[s].object /\ row.handle = registry[s].handle
          /\ row.ready = registry[s].ready
      BY <3>1, <3>3 DEF SessionRow
    <3>5. registry' = [registry EXCEPT ![s] = row]
      BY <1>6, <3>2, <3>3
    <3> QED
      BY <3>1, <3>2, <3>4, <3>5
  <2> QED
    BY <2>1 DEF Bound
<1>8. SandboxBase'
  <2>1. ThreadTold(t)'
    BY <1>1, <1>3, <1>5 DEF ThreadTold, Of, At
  <2>2. HandlesTold'
    BY <1>1, <1>7 DEF SandboxBase, HandlesTold, Of
  <2> QED
    BY <1>1, <1>5, <1>7, <2>1, <2>2, BaseMoves
<1>9. /\ Users(s)' = Users(s) \cup {t} /\ t \notin Users(s)
       /\ \A q \in Sessions : q # s => Users(q)' = Users(q)
  BY <1>1, <1>3, <1>5, <1>7 DEF Users
<1>10. HoldsCounted'
  <2> SUFFICES ASSUME NEW q \in Sessions, Bound(q)
               PROVE  registry'[q].inUse = Cardinality(Users(q)')
    BY <1>7 DEF HoldsCounted
  <2>1. registry[q].inUse = Cardinality(Users(q)) /\ IsFiniteSet(Users(q))
    BY UsersFinite DEF SandboxInv, HoldsCounted
  <2>2. CASE q = s
    <3>1. Cardinality(Users(s) \cup {t}) = Cardinality(Users(s)) + 1
      BY <1>9, <2>1, <2>2, FS_AddElement
    <3> QED
      BY <1>7, <1>9, <2>1, <2>2, <3>1
  <2>3. CASE q # s
    BY <1>7, <1>9, <2>1, <2>3
  <2> QED
    BY <2>2, <2>3
<1>11. OneHolder'
  <2> SUFFICES ASSUME NEW j \in DOMAIN starts, j \notin crossed PROVE HeldOnce(j)'
    BY <1>1 DEF OneHolder
  <2>1. HeldOnce(j) /\ j # 0
    BY <1>1 DEF OneHolder, SandboxInv, SandboxBase, SandboxRows
  <2>2. /\ \A u \in Threads : Holder(u, j)' <=> Holder(u, j)
        /\ \A u \in Threads : At(u, "bind")' <=> At(u, "bind")
        /\ \A u \in Threads : Runs(u, j)' <=> Runs(u, j)
    BY <1>1, <1>3, <1>5 DEF Holder, Runs, At
  <2>3. \A q \in Sessions : Users(q) \subseteq Users(q)'
    BY <1>9
  <2> QED
    BY <1>1, <1>7, <2>1, <2>2, <2>3 DEF HeldOnce
<1>12. OwnersTold'
  <2> SUFFICES ASSUME NEW q \in Sessions, kernels[q] # 0, ~Crossing(q)
               PROVE  HasOwner(q, kernels[q])'
    BY <1>1 DEF OwnersTold, Crossing
  <2>1. HasOwner(q, kernels[q])
    BY <1>1 DEF OwnersTold, SandboxInv
  <2> QED
    BY <1>1, <1>5, <1>7, <2>1 DEF HasOwner
<1>13. SlotsBounded'
  BY <1>7, SlotsKept DEF SandboxInv
<1> QED
  BY <1>8, <1>10, <1>11, <1>12, <1>13 DEF SandboxInv

\* t goes on in the kernel its session id has: the one it is counted for, or one that
\* crosses.
LEMMA GetKernelStep == ASSUME SandboxInv, NEW t \in Threads, GetKernel(t) PROVE SandboxInv'
<1> DEFINE s == thread[t].sid
<1> DEFINE k == kernels[s]
<1>1. /\ thread[t].pc = "entered" /\ thread[t].todo = {} /\ s \in Sessions
      /\ thread[t].object # 0
      /\ UNCHANGED <<registry, kernels, alive, starts>> /\ SandboxBase
      /\ k \in Nat /\ Of(k, s) /\ (k # 0 => k \in alive)
      /\ thread \in [Threads -> ThreadRow] /\ crossed \subseteq DOMAIN starts
      /\ thread' = [thread EXCEPT ![t] = [thread[t] EXCEPT !.pc = "using", !.kernel = k]]
  BY DEF GetKernel, At, SandboxInv, SandboxBase, SandboxRows, KernelsTold, ThreadsTold,
         ThreadTold
<1>2. PICK r : r = [thread[t] EXCEPT !.pc = "using", !.kernel = k]
  OBVIOUS
<1>3. /\ r \in ThreadRow /\ r.pc = "using" /\ r.sid = s /\ r.todo = {}
      /\ r.object = thread[t].object /\ r.kernel = k
  BY <1>1, <1>2 DEF ThreadRow, ThreadPlaces
<1>4. /\ thread' \in [Threads -> ThreadRow] /\ thread'[t] = r
      /\ \A u \in Threads : u # t => thread'[u] = thread[u]
  BY <1>1, <1>2, <1>3
<1>5. /\ crossed \subseteq crossed' /\ crossed' \subseteq DOMAIN starts
      /\ k # 0 /\ k \notin crossed' => Held(t) /\ registry[s].handle = k
  BY <1>1 DEF GetKernel, Of
<1>6. SandboxBase'
  <2>1. ThreadTold(t)'
    BY <1>1, <1>3, <1>4 DEF ThreadTold, Of, At
  <2>2. HandlesTold' /\ registry' \in [Sessions -> SessionRow]
    BY <1>1 DEF SandboxBase, SandboxRows, HandlesTold, Of, Bound
  <2> QED
    BY <1>1, <1>4, <1>5, <2>1, <2>2, BaseMoves
<1>7. \A q \in Sessions : Users(q)' = Users(q) /\ Bound(q)' = Bound(q)
  BY <1>1, <1>3, <1>4 DEF Users, Bound
<1>8. HoldsCounted'
  BY <1>1, <1>7 DEF HoldsCounted, SandboxInv
<1>9. OneHolder'
  <2> SUFFICES ASSUME NEW j \in DOMAIN starts, j \notin crossed' PROVE HeldOnce(j)'
    BY <1>1 DEF OneHolder
  <2>1. HeldOnce(j) /\ j # 0
    BY <1>1, <1>5 DEF OneHolder, SandboxInv, SandboxBase, SandboxRows
  <2>2. /\ \A u \in Threads : Holder(u, j)' <=> Holder(u, j)
        /\ \A u \in Threads : At(u, "bind")' <=> At(u, "bind")
        /\ \A u \in Threads : u # t => (Runs(u, j)' <=> Runs(u, j))
        /\ Runs(t, j)' => j = k
    BY <1>1, <1>3, <1>4 DEF Holder, Runs, At
  <2>3. CASE j = k
    <3>1. Held(t) /\ registry[s].handle = j /\ j \in alive
      BY <1>1, <1>5, <2>1, <2>3
    <3>2. \A u \in Threads : ~Holder(u, j)
      BY <1>1, <2>1, <3>1 DEF HeldOnce
    <3>3. \A q \in Sessions : registry[q].handle = j => q = s
      BY <1>1, <2>1, <3>1 DEF SandboxBase, HandlesTold, Of
    <3>4. t \in Users(s)
      BY <1>1, <3>1 DEF Users, Held
    <3> QED
      BY <1>1, <1>7, <2>1, <2>2, <3>1, <3>2, <3>3, <3>4 DEF HeldOnce
  <2>4. CASE j # k
    <3>1. \A u \in Threads : Runs(u, j)' => Runs(u, j)
      BY <2>2, <2>4
    <3> QED
      BY <1>1, <1>7, <2>1, <2>2, <3>1 DEF HeldOnce
  <2> QED
    BY <2>3, <2>4
<1>10. OwnersTold'
  <2> SUFFICES ASSUME NEW q \in Sessions, kernels[q] # 0, ~Crossing(q)
               PROVE  HasOwner(q, kernels[q])'
    BY <1>1, <1>5 DEF OwnersTold, Crossing
  <2>1. HasOwner(q, kernels[q])
    BY <1>1 DEF OwnersTold, SandboxInv
  <2> QED
    BY <1>1, <1>3, <1>4, <1>7, <2>1 DEF HasOwner
<1>11. SlotsBounded'
  BY <1>7, SlotsKept DEF SandboxInv
<1> QED
  BY <1>6, <1>8, <1>9, <1>10, <1>11 DEF SandboxInv

\* t deletes the kernel it runs in.
LEMMA InvalidateStep == ASSUME SandboxInv, NEW t \in Threads, Invalidate(t) PROVE SandboxInv'
<1> DEFINE k == thread[t].kernel
<1> DEFINE s == thread[t].sid
<1>1. /\ thread[t].pc = "using" /\ thread[t].todo = {} /\ s \in Sessions
      /\ k \in alive /\ k \in DOMAIN starts /\ k # 0 /\ Of(k, s) /\ k \in Nat
      /\ UNCHANGED <<registry, starts>> /\ SandboxBase
      /\ thread \in [Threads -> ThreadRow] /\ crossed \subseteq DOMAIN starts
      /\ kernels \in [Sessions -> Nat] /\ alive \subseteq DOMAIN starts
  <2>1. thread[t].pc = "using" /\ k \in alive /\ UNCHANGED <<registry, starts>>
    BY DEF Invalidate, At
  <2>2. SandboxBase /\ ThreadTold(t) /\ SandboxRows
    BY DEF SandboxInv, SandboxBase, ThreadsTold
  <2>3. /\ thread \in [Threads -> ThreadRow] /\ crossed \subseteq DOMAIN starts
        /\ kernels \in [Sessions -> Nat] /\ alive \subseteq DOMAIN starts
        /\ starts \in Seq(Sessions)
    BY <2>2 DEF SandboxRows
  <2>4. thread[t].todo = {} /\ s \in Sessions /\ Of(k, s)
    BY <2>1, <2>2 DEF ThreadTold
  <2>5. k \in DOMAIN starts /\ k # 0 /\ k \in Nat
    BY <2>1, <2>3
  <2> QED
    BY <2>1, <2>2, <2>3, <2>4, <2>5
<1>2. /\ alive' = alive \ {k} /\ crossed' = crossed \cup {k}
      /\ kernels' = [r \in Sessions |-> IF kernels[r] = k THEN 0 ELSE kernels[r]]
  BY DEF Invalidate
<1>10. PICK next \in {"drop", "using"} :
         thread' = [thread EXCEPT ![t] = [thread[t] EXCEPT !.pc = next]]
  BY DEF Invalidate
<1>3. /\ thread' \in [Threads -> ThreadRow]
      /\ thread'[t].pc = next /\ thread'[t].sid = s /\ thread'[t].todo = {}
      /\ thread'[t].object = thread[t].object /\ thread'[t].kernel = k
      /\ \A u \in Threads : u # t => thread'[u] = thread[u]
  BY <1>1, <1>10 DEF ThreadRow, ThreadPlaces
<1>4. SandboxBase'
  <2>1. SandboxRows'
    BY <1>1, <1>2, <1>3 DEF SandboxBase, SandboxRows
  <2>2. KernelsTold'
    <3>1. ASSUME NEW r \in Sessions
          PROVE  Of(kernels[r], r)' /\ (kernels'[r] # 0 => kernels'[r] \in alive')
      <4>1. Of(kernels[r], r) /\ (kernels[r] # 0 => kernels[r] \in alive)
        BY <1>1 DEF SandboxBase, KernelsTold
      <4> QED
        BY <1>1, <1>2, <4>1 DEF Of
    <3>2. \A j \in alive' : kernels'[starts'[j]] = j
      <4> SUFFICES ASSUME NEW j \in alive, j # k PROVE kernels'[starts[j]] = j
        BY <1>1, <1>2
      <4>1. kernels[starts[j]] = j /\ starts[j] \in Sessions
        BY <1>1 DEF SandboxBase, SandboxRows, KernelsTold
      <4> QED
        BY <1>2, <4>1
    <3> QED
      BY <3>1, <3>2 DEF KernelsTold
  <2>3. HandlesTold'
    BY <1>1 DEF SandboxBase, HandlesTold, Of, Bound
  <2>4. ThreadsTold'
    <3> SUFFICES ASSUME NEW u \in Threads PROVE ThreadTold(u)'
      BY DEF ThreadsTold
    <3>1. ThreadTold(u)
      BY <1>1 DEF SandboxBase, ThreadsTold
    <3>2. CASE u = t
      BY <1>1, <1>2, <1>3, <3>1, <3>2 DEF ThreadTold, Of, At
    <3>3. CASE u # t
      BY <1>1, <1>2, <1>3, <3>1, <3>3 DEF ThreadTold, Of, At
    <3> QED
      BY <3>2, <3>3
  <2> QED
    BY <2>1, <2>2, <2>3, <2>4 DEF SandboxBase
<1>5. \A r \in Sessions : Users(r)' = Users(r) /\ Bound(r)' = Bound(r)
  BY <1>1, <1>3 DEF Users, Bound
<1>6. HoldsCounted'
  BY <1>1, <1>5 DEF SandboxInv, HoldsCounted
<1>7. OneHolder'
  <2> SUFFICES ASSUME NEW j \in DOMAIN starts, j \notin crossed, j # k PROVE HeldOnce(j)'
    BY <1>1, <1>2 DEF OneHolder
  <2>1. HeldOnce(j)
    BY DEF OneHolder, SandboxInv
  <2>2. /\ \A u \in Threads : Holder(u, j)' <=> Holder(u, j)
        /\ \A u \in Threads : At(u, "bind")' <=> At(u, "bind")
        /\ \A u \in Threads : Runs(u, j)' <=> Runs(u, j)
    BY <1>1, <1>3 DEF Holder, Runs, At
  <2>3. j \in alive => j \in alive'
    BY <1>2
  <2> QED
    BY <1>1, <1>5, <2>1, <2>2, <2>3 DEF HeldOnce
<1>8. OwnersTold'
  <2> SUFFICES ASSUME NEW r \in Sessions, kernels'[r] # 0, ~Crossing(r)'
               PROVE  HasOwner(r, kernels[r])'
    BY DEF OwnersTold
  <2>1. kernels'[r] = kernels[r] /\ kernels[r] # 0
    BY <1>2
  <2>2. HasOwner(r, kernels[r])
    BY <1>1, <1>2, <2>1 DEF OwnersTold, SandboxInv, Crossing
  <2> QED
    BY <1>1, <1>3, <1>5, <2>1, <2>2 DEF HasOwner
<1>9. SlotsBounded'
  BY <1>5, SlotsKept DEF SandboxInv
<1> QED
  BY <1>4, <1>6, <1>7, <1>8, <1>9 DEF SandboxInv

\* A kernel is started: t is about to bind it, or its open has failed.
LEMMA NewKernel ==
  ASSUME SandboxInv, NEW t \in Threads, NEW k, k = Len(starts) + 1,
         thread[t].pc = "open", kernels[thread[t].sid] = 0,
         starts' = Append(starts, thread[t].sid), alive' = alive \cup {k},
         kernels' = [kernels EXCEPT ![thread[t].sid] = k],
         UNCHANGED <<registry, crossed>>,
         \/ thread' = [thread EXCEPT ![t].pc = "bind", ![t].kernel = k]
         \/ thread' = [thread EXCEPT ![t].pc = "failed"]
  PROVE  SandboxInv'
<1> DEFINE s == thread[t].sid
<1>1. /\ s \in Sessions /\ thread[t].todo = {} /\ SandboxBase
      /\ starts \in Seq(Sessions) /\ Len(starts) \in Nat /\ DOMAIN starts = 1..Len(starts)
      /\ thread \in [Threads -> ThreadRow] /\ kernels \in [Sessions -> Nat]
      /\ alive \subseteq DOMAIN starts /\ crossed \subseteq DOMAIN starts
      /\ Of(thread[t].kernel, s)
  <2>1. SandboxBase /\ ThreadTold(t)
    BY DEF SandboxInv, SandboxBase, ThreadsTold
  <2>2. /\ starts \in Seq(Sessions) /\ kernels \in [Sessions -> Nat]
        /\ thread \in [Threads -> ThreadRow]
        /\ alive \subseteq DOMAIN starts /\ crossed \subseteq DOMAIN starts
    BY <2>1 DEF SandboxBase, SandboxRows
  <2>3. Len(starts) \in Nat /\ DOMAIN starts = 1..Len(starts)
    BY <2>2
  <2> QED
    BY <2>1, <2>2, <2>3 DEF ThreadTold
<1>2. /\ k \in Nat /\ k # 0 /\ k \notin DOMAIN starts
      /\ starts' \in Seq(Sessions) /\ DOMAIN starts' = DOMAIN starts \cup {k}
      /\ starts'[k] = s /\ \A j \in DOMAIN starts : starts'[j] = starts[j]
  <2>1. /\ starts' \in Seq(Sessions) /\ Len(starts') = Len(starts) + 1
        /\ \A j \in 1..Len(starts) : starts'[j] = starts[j]
        /\ starts'[Len(starts) + 1] = s
    BY <1>1, AppendProperties
  <2>2. DOMAIN starts' = 1..Len(starts) + 1
    BY <2>1
  <2> QED
    BY <1>1, <2>1, <2>2
<1>3. PICK p : /\ thread' \in [Threads -> ThreadRow] /\ p \in {"bind", "failed"}
               /\ thread'[t].pc = p /\ thread'[t].sid = s /\ thread'[t].todo = {}
               /\ thread'[t].object = thread[t].object
               /\ p = "bind" => thread'[t].kernel = k
               /\ p = "failed" => thread'[t].kernel = thread[t].kernel
               /\ \A u \in Threads : u # t => thread'[u] = thread[u]
  <2>1. CASE thread' = [thread EXCEPT ![t].pc = "bind", ![t].kernel = k]
    <3>1. /\ thread' \in [Threads -> ThreadRow]
          /\ thread'[t].pc = "bind" /\ thread'[t].sid = s /\ thread'[t].todo = {}
          /\ thread'[t].object = thread[t].object /\ thread'[t].kernel = k
          /\ \A u \in Threads : u # t => thread'[u] = thread[u]
      <4>1. PICK row : row = [thread[t] EXCEPT !.pc = "bind", !.kernel = k]
        OBVIOUS
      <4>2. /\ row \in ThreadRow /\ row.pc = "bind" /\ row.sid = s /\ row.todo = thread[t].todo
            /\ row.object = thread[t].object /\ row.kernel = k
        <5>1. thread[t] \in ThreadRow /\ k \in Nat
          BY <1>1, <1>2
        <5> QED
          BY <4>1, <5>1 DEF ThreadRow, ThreadPlaces
      <4>3. thread' = [thread EXCEPT ![t] = row]
        BY <2>1, <4>1
      <4> QED
        BY <1>1, <4>2, <4>3
    <3> QED
      BY <3>1
  <2>2. CASE thread' = [thread EXCEPT ![t].pc = "failed"]
    <3>1. /\ thread' \in [Threads -> ThreadRow]
          /\ thread'[t].pc = "failed" /\ thread'[t].sid = s /\ thread'[t].todo = {}
          /\ thread'[t].object = thread[t].object /\ thread'[t].kernel = thread[t].kernel
          /\ \A u \in Threads : u # t => thread'[u] = thread[u]
      BY <1>1, <2>2 DEF ThreadRow, ThreadPlaces
    <3> QED
      BY <3>1
  <2> QED
    BY <2>1, <2>2
<1>4. \A j, r : Of(j, r) => Of(j, r)'
  BY <1>2 DEF Of
<1>5. SandboxBase'
  <2>1. SandboxRows'
    BY <1>1, <1>2, <1>3 DEF SandboxBase, SandboxRows
  <2>2. KernelsTold'
    <3>1. ASSUME NEW r \in Sessions
          PROVE  Of(kernels[r], r)' /\ (kernels'[r] # 0 => kernels'[r] \in alive')
      <4>1. Of(kernels[r], r) /\ (kernels[r] # 0 => kernels[r] \in alive)
        BY <1>1 DEF SandboxBase, KernelsTold
      <4> QED
        BY <1>1, <1>2, <4>1 DEF Of
    <3>2. ASSUME NEW j \in alive' PROVE kernels'[starts'[j]] = j
      <4>1. CASE j = k
        BY <1>1, <1>2, <4>1
      <4>2. CASE j # k
        <5>1. j \in alive /\ kernels[starts[j]] = j /\ starts[j] \in Sessions /\ j # 0
          BY <1>1, <4>2 DEF SandboxBase, KernelsTold
        <5> QED
          BY <1>1, <1>2, <5>1
      <4> QED
        BY <4>1, <4>2
    <3> QED
      BY <3>1, <3>2 DEF KernelsTold
  <2>3. HandlesTold'
    BY <1>1, <1>4 DEF SandboxBase, HandlesTold, Bound
  <2>4. ThreadsTold'
    <3> SUFFICES ASSUME NEW u \in Threads PROVE ThreadTold(u)'
      BY DEF ThreadsTold
    <3>1. ThreadTold(u)
      BY <1>1 DEF SandboxBase, ThreadsTold
    <3>2. CASE u = t
      <4>1. Of(thread[t].kernel, thread[t].sid)'
        BY <1>1, <1>2, <1>3, <1>4 DEF Of
      <4> QED
        BY <1>1, <1>2, <1>3, <3>2, <4>1 DEF ThreadTold, At
    <3>3. CASE u # t
      BY <1>3, <1>4, <3>1, <3>3 DEF ThreadTold, At
    <3> QED
      BY <3>2, <3>3
  <2> QED
    BY <2>1, <2>2, <2>3, <2>4 DEF SandboxBase
<1>6. \A r \in Sessions : Users(r)' = Users(r) /\ Bound(r)' = Bound(r)
  BY <1>3 DEF Users, Bound
<1>7. HoldsCounted'
  BY <1>6 DEF SandboxInv, HoldsCounted
<1>8. OneHolder'
  <2> SUFFICES ASSUME NEW j \in DOMAIN starts \cup {k}, j \notin crossed PROVE HeldOnce(j)'
    BY <1>2 DEF OneHolder
  <2>1. CASE j = k
    <3>1. \A u \in Threads : u # t => ~Holder(u, k)' /\ ~Runs(u, k)'
      BY <1>1, <1>2, <1>3 DEF SandboxBase, ThreadsTold, ThreadTold, Holder, Runs, At, Of
    <3>2. \A r \in Sessions : registry[r].handle # k
      BY <1>1, <1>2 DEF SandboxBase, HandlesTold, Of
    <3>3. k \in alive' /\ ~Runs(t, k)'
      BY <1>3 DEF Runs, At
    <3> QED
      BY <2>1, <3>1, <3>2, <3>3 DEF HeldOnce
  <2>2. CASE j # k
    <3>1. HeldOnce(j)
      BY <2>2 DEF OneHolder, SandboxInv
    <3>2. \A u \in Threads : u # t => /\ Holder(u, j)' <=> Holder(u, j)
                                      /\ At(u, "bind")' <=> At(u, "bind")
                                      /\ Runs(u, j)' <=> Runs(u, j)
      BY <1>3 DEF Holder, Runs, At
    <3>3. ~Holder(t, j)' /\ ~Runs(t, j)'
      BY <1>3, <2>2 DEF Holder, Runs, At
    <3> QED
      BY <1>6, <3>1, <3>2, <3>3 DEF HeldOnce
  <2> QED
    BY <2>1, <2>2
<1>9. OwnersTold'
  <2> SUFFICES ASSUME NEW r \in Sessions, kernels'[r] # 0, ~Crossing(r)'
               PROVE  HasOwner(r, kernels[r])'
    BY DEF OwnersTold, HasOwner
  <2>1. CASE r = s
    BY <1>3, <2>1 DEF HasOwner
  <2>2. CASE r # s
    <3>1. kernels'[r] = kernels[r] /\ ~Crossing(r)
      BY <1>1, <1>2, <2>2 DEF Crossing
    <3>2. HasOwner(r, kernels[r])
      BY <3>1 DEF OwnersTold, SandboxInv
    <3> QED
      BY <1>1, <1>3, <1>6, <2>2, <3>1, <3>2 DEF HasOwner
  <2> QED
    BY <2>1, <2>2
<1>10. SlotsBounded'
  BY <1>6, SlotsKept DEF SandboxInv
<1> QED
  BY <1>5, <1>7, <1>8, <1>9, <1>10 DEF SandboxInv

\* The gateway answers an open with the kernel the session has.
LEMMA SameKernel ==
  ASSUME SandboxInv, NEW t \in Threads, BackendOpen(t), kernels[thread[t].sid] # 0
  PROVE  SandboxInv'
<1> DEFINE s == thread[t].sid
<1> DEFINE k == kernels[s]
<1>1. /\ s \in Sessions /\ thread[t].todo = {} /\ thread[t].pc = "open"
      /\ thread \in [Threads -> ThreadRow] /\ kernels \in [Sessions -> Nat]
      /\ alive \subseteq DOMAIN starts /\ crossed \subseteq DOMAIN starts
  <2>1. SandboxBase /\ ThreadTold(t) /\ thread[t].pc = "open"
    BY DEF SandboxInv, SandboxBase, ThreadsTold, BackendOpen, At
  <2> QED
    BY <2>1 DEF SandboxBase, SandboxRows, ThreadTold
<1>2. /\ thread' = [thread EXCEPT ![t].pc = "bind", ![t].kernel = k]
      /\ kernels' = [kernels EXCEPT ![s] = k] /\ crossed' = crossed \cup {k}
      /\ UNCHANGED <<registry, alive, starts>>
  BY DEF BackendOpen
<1>3. kernels' = kernels /\ k \in Nat /\ k # 0 /\ k \in DOMAIN starts /\ Of(k, s)
  BY <1>1, <1>2 DEF SandboxInv, SandboxBase, KernelsTold, Of
<1>4. /\ thread' \in [Threads -> ThreadRow]
      /\ thread'[t].pc = "bind" /\ thread'[t].sid = s /\ thread'[t].todo = {}
      /\ thread'[t].object = thread[t].object /\ thread'[t].kernel = k
      /\ \A u \in Threads : u # t => thread'[u] = thread[u]
  <2>1. PICK row : row = [thread[t] EXCEPT !.pc = "bind", !.kernel = k]
    OBVIOUS
  <2>2. /\ row \in ThreadRow /\ row.pc = "bind" /\ row.sid = s /\ row.todo = thread[t].todo
        /\ row.object = thread[t].object /\ row.kernel = k
    <3>1. thread[t] \in ThreadRow /\ k \in Nat
      BY <1>1, <1>3
    <3> QED
      BY <2>1, <3>1 DEF ThreadRow, ThreadPlaces
  <2>3. thread' = [thread EXCEPT ![t] = row]
    BY <1>2, <2>1
  <2> QED
    BY <1>1, <2>2, <2>3
<1>5. SandboxBase'
  <2>1. ThreadTold(t)'
    BY <1>1, <1>2, <1>3, <1>4 DEF ThreadTold, Of, At
  <2>2. HandlesTold' /\ registry' \in [Sessions -> SessionRow]
    BY <1>2 DEF SandboxInv, SandboxBase, SandboxRows, HandlesTold, Of, Bound
  <2>3. crossed \subseteq crossed' /\ crossed' \subseteq DOMAIN starts
    BY <1>1, <1>2, <1>3
  <2> QED
    BY <1>2, <1>3, <1>4, <2>1, <2>2, <2>3, BaseMoves DEF SandboxInv
<1>6. \A r \in Sessions : Users(r)' = Users(r) /\ Bound(r)' = Bound(r)
  BY <1>1, <1>2, <1>4 DEF Users, Bound
<1>7. HoldsCounted'
  BY <1>2, <1>6 DEF SandboxInv, HoldsCounted
<1>8. OneHolder'
  <2> SUFFICES ASSUME NEW j \in DOMAIN starts, j \notin crossed, j # k PROVE HeldOnce(j)'
    BY <1>2 DEF OneHolder
  <2>1. HeldOnce(j)
    BY DEF OneHolder, SandboxInv
  <2>2. \A u \in Threads : u # t => /\ Holder(u, j)' <=> Holder(u, j)
                                    /\ At(u, "bind")' <=> At(u, "bind")
                                    /\ Runs(u, j)' <=> Runs(u, j)
    BY <1>4 DEF Holder, Runs, At
  <2>3. ~Holder(t, j)' /\ ~Runs(t, j)'
    BY <1>4 DEF Holder, Runs, At
  <2> QED
    BY <1>2, <1>6, <2>1, <2>2, <2>3 DEF HeldOnce
<1>9. OwnersTold'
  <2> SUFFICES ASSUME NEW r \in Sessions, kernels[r] # 0, ~Crossing(r)'
               PROVE  HasOwner(r, kernels[r])'
    BY <1>3 DEF OwnersTold
  <2>1. HasOwner(r, kernels[r])
    BY <1>2 DEF OwnersTold, SandboxInv, Crossing
  <2> QED
    BY <1>1, <1>3, <1>4, <1>6, <2>1 DEF HasOwner
<1>10. SlotsBounded'
  BY <1>6, SlotsKept DEF SandboxInv
<1> QED
  BY <1>5, <1>7, <1>8, <1>9, <1>10 DEF SandboxInv

\* The back end hands the open the session's kernel, or starts one.
LEMMA BackendStep ==
  ASSUME SandboxInv, NEW t \in Threads, BackendOpen(t)
  PROVE  SandboxInv'
<1>1. CASE kernels[thread[t].sid] = 0
  <2>1. /\ thread[t].pc = "open"
        /\ thread' = [thread EXCEPT ![t].pc = "bind", ![t].kernel = Len(starts) + 1]
        /\ kernels' = [kernels EXCEPT ![thread[t].sid] = Len(starts) + 1]
        /\ alive' = alive \cup {Len(starts) + 1}
        /\ starts' = Append(starts, thread[t].sid) /\ UNCHANGED <<registry, crossed>>
    BY <1>1 DEF BackendOpen, At
  <2> QED
    BY <1>1, <2>1, NewKernel
<1> QED
  BY <1>1, SameKernel

\* The back end fails, with or without a kernel started: the thread goes on to free the slot.
LEMMA FailsStep == ASSUME SandboxInv, NEW t \in Threads, BackendFails(t) PROVE SandboxInv'
<1> DEFINE s == thread[t].sid
<1>1. /\ thread[t].pc = "open" /\ kernels[s] = 0 /\ UNCHANGED <<registry, crossed>>
      /\ thread' = [thread EXCEPT ![t].pc = "failed"]
  BY DEF BackendFails, At
<1>2. CASE UNCHANGED <<kernels, alive, starts>>
  <2>1. /\ thread \in [Threads -> ThreadRow] /\ crossed \subseteq DOMAIN starts
        /\ ThreadTold(t)
    BY DEF SandboxInv, SandboxBase, SandboxRows, ThreadsTold
  <2>2. /\ thread' \in [Threads -> ThreadRow]
        /\ thread'[t].pc = "failed" /\ thread'[t].sid = s
        /\ thread'[t].todo = thread[t].todo
        /\ thread'[t].object = thread[t].object /\ thread'[t].kernel = thread[t].kernel
        /\ \A u \in Threads : u # t => thread'[u] = thread[u]
    BY <1>1, <2>1 DEF ThreadRow, ThreadPlaces
  <2>3. SandboxBase'
    <3>1. ThreadTold(t)'
      BY <1>1, <1>2, <2>1, <2>2 DEF ThreadTold, Of, At
    <3>2. HandlesTold' /\ registry' \in [Sessions -> SessionRow]
      BY <1>1, <1>2 DEF SandboxInv, SandboxBase, SandboxRows, HandlesTold, Of, Bound
    <3> QED
      BY <1>1, <1>2, <2>1, <2>2, <3>1, <3>2, BaseMoves DEF SandboxInv
  <2>4. \A r \in Sessions : Users(r)' = Users(r) /\ Bound(r)' = Bound(r)
    BY <1>1, <2>2 DEF Users, Bound
  <2>5. HoldsCounted'
    BY <1>1, <2>4 DEF SandboxInv, HoldsCounted
  <2>6. OneHolder'
    <3>1. \A k : \A u \in Threads : /\ Holder(u, k)' <=> Holder(u, k)
                                    /\ Runs(u, k)' <=> Runs(u, k)
                                    /\ At(u, "bind")' <=> At(u, "bind")
      BY <1>1, <2>2 DEF Holder, Runs, At
    <3> QED
      BY <1>1, <1>2, <2>4, <3>1 DEF OneHolder, HeldOnce, SandboxInv
  <2>7. OwnersTold'
    <3> SUFFICES ASSUME NEW r \in Sessions, kernels[r] # 0, ~Crossing(r)
                 PROVE  HasOwner(r, kernels[r])'
      BY <1>1, <1>2 DEF OwnersTold, Crossing
    <3>1. HasOwner(r, kernels[r])
      BY DEF OwnersTold, SandboxInv
    <3> QED
      BY <1>1, <1>2, <2>2, <2>4, <3>1 DEF HasOwner
  <2>8. SlotsBounded'
    BY <2>4, SlotsKept DEF SandboxInv
  <2> QED
    BY <2>3, <2>5, <2>6, <2>7, <2>8 DEF SandboxInv
<1>3. CASE ~UNCHANGED <<kernels, alive, starts>>
  <2>1. /\ starts' = Append(starts, s)
        /\ kernels' = [kernels EXCEPT ![s] = Len(starts')]
        /\ alive' = alive \cup {Len(starts')}
    BY <1>3 DEF BackendFails
  <2>2. starts \in Seq(Sessions) /\ s \in Sessions
    BY <1>1 DEF SandboxInv, SandboxBase, SandboxRows, ThreadsTold, ThreadTold
  <2>3. Len(starts') = Len(starts) + 1
    BY <2>1, <2>2, AppendProperties
  <2> QED
    BY <1>1, <2>1, <2>3, NewKernel
<1> QED
  BY <1>2, <1>3

\* t closes a kernel of its list.
LEMMA CloseBackendStep == ASSUME SandboxInv, NEW t \in Threads, CloseBackend(t) PROVE SandboxInv'
<1>1. PICK c \in thread[t].todo :
        LET k == IF c[2] = 0 THEN kernels[c[1]] ELSE c[2]
        IN /\ alive' = alive \ {k}
           /\ kernels' = IF kernels[c[1]] = k THEN [kernels EXCEPT ![c[1]] = 0] ELSE kernels
           /\ crossed' = IF c[2] = 0 THEN crossed \cup ({k} \ {0}) ELSE crossed
           /\ thread' = [thread EXCEPT ![t].todo = @ \ {c}]
  BY DEF CloseBackend
<1> DEFINE s == c[1]
<1>2. PICK k : /\ k = IF c[2] = 0 THEN kernels[s] ELSE c[2]
               /\ alive' = alive \ {k}
               /\ kernels' = IF kernels[s] = k THEN [kernels EXCEPT ![s] = 0] ELSE kernels
               /\ crossed' = IF c[2] = 0 THEN crossed \cup ({k} \ {0}) ELSE crossed
  BY <1>1
<1>3. /\ thread \in [Threads -> ThreadRow] /\ kernels \in [Sessions -> Nat]
      /\ alive \subseteq DOMAIN starts /\ crossed \subseteq DOMAIN starts
      /\ SandboxBase /\ ThreadTold(t) /\ UNCHANGED <<registry, starts>>
      /\ thread[t].pc \in {"close", "clear"}
  BY DEF SandboxInv, SandboxBase, SandboxRows, ThreadsTold, CloseBackend
<1>4. c \in Sessions \X Nat /\ s \in Sessions /\ c = <<s, c[2]>>
  BY <1>3 DEF ThreadRow
<1>5. Of(c[2], s) /\ Of(kernels[s], s)
  BY <1>3, <1>4 DEF ThreadTold, SandboxBase, KernelsTold
<1>6. k # 0 => k \in DOMAIN starts /\ starts[k] = s
  BY <1>2, <1>5 DEF Of
<1>7. /\ thread' \in [Threads -> ThreadRow]
      /\ thread'[t].pc = thread[t].pc /\ thread'[t].sid = thread[t].sid
      /\ thread'[t].todo = thread[t].todo \ {c}
      /\ thread'[t].object = thread[t].object /\ thread'[t].kernel = thread[t].kernel
      /\ \A u \in Threads : u # t => thread'[u] = thread[u]
  BY <1>1, <1>3 DEF ThreadRow
<1>8. \A r \in Sessions : /\ kernels'[r] # 0 => kernels'[r] = kernels[r] /\ kernels[r] # k
                          /\ kernels'[r] = 0 \/ kernels'[r] = kernels[r]
                          /\ kernels'[r] \in Nat
  <2> SUFFICES ASSUME NEW r \in Sessions
               PROVE  /\ kernels'[r] # 0 => kernels'[r] = kernels[r] /\ kernels[r] # k
                      /\ kernels'[r] = 0 \/ kernels'[r] = kernels[r]
                      /\ kernels'[r] \in Nat
    OBVIOUS
  <2>1. kernels[r] = k /\ k # 0 => r = s
    BY <1>3, <1>6 DEF SandboxBase, KernelsTold, Of
  <2> QED
    BY <1>2, <1>3, <1>4, <2>1
<1>9. /\ crossed \subseteq crossed' /\ crossed' \subseteq DOMAIN starts
      /\ kernels' \in [Sessions -> Nat]
  BY <1>2, <1>3, <1>4, <1>6
<1>10. SandboxBase'
  <2>1. SandboxRows'
    BY <1>2, <1>3, <1>7, <1>9 DEF SandboxBase, SandboxRows
  <2>2. KernelsTold'
    <3>1. ASSUME NEW r \in Sessions
          PROVE  Of(kernels[r], r)' /\ (kernels'[r] # 0 => kernels'[r] \in alive')
      <4>1. Of(kernels[r], r) /\ (kernels[r] # 0 => kernels[r] \in alive)
        BY <1>3 DEF SandboxBase, KernelsTold
      <4> QED
        BY <1>2, <1>3, <1>8, <4>1 DEF Of
    <3>2. ASSUME NEW j \in alive' PROVE kernels'[starts'[j]] = j
      <4>1. j \in alive /\ j # k /\ kernels[starts[j]] = j /\ starts[j] \in Sessions
        BY <1>2, <1>3 DEF SandboxBase, SandboxRows, KernelsTold
      <4>2. starts[j] = s => kernels[s] # k
        BY <4>1
      <4> QED
        BY <1>2, <1>3, <1>4, <4>1, <4>2
    <3> QED
      BY <3>1, <3>2 DEF KernelsTold
  <2>3. HandlesTold'
    BY <1>3 DEF SandboxBase, HandlesTold, Of, Bound
  <2>4. ThreadsTold'
    <3> SUFFICES ASSUME NEW u \in Threads PROVE ThreadTold(u)'
      BY DEF ThreadsTold
    <3>1. ThreadTold(u)
      BY <1>3 DEF SandboxBase, ThreadsTold
    <3>2. CASE u = t
      BY <1>3, <1>7, <1>9, <3>1, <3>2 DEF ThreadTold, Of, At
    <3>3. CASE u # t
      BY <1>3, <1>7, <1>9, <3>1, <3>3 DEF ThreadTold, Of, At
    <3> QED
      BY <3>2, <3>3
  <2> QED
    BY <2>1, <2>2, <2>3, <2>4 DEF SandboxBase
<1>11. \A r \in Sessions : Users(r)' = Users(r) /\ Bound(r)' = Bound(r)
  BY <1>3, <1>7 DEF Users, Bound
<1>12. HoldsCounted'
  BY <1>3, <1>11 DEF SandboxInv, HoldsCounted
<1>13. OneHolder'
  <2> SUFFICES ASSUME NEW j \in DOMAIN starts, j \notin crossed' PROVE HeldOnce(j)'
    BY <1>3 DEF OneHolder
  <2>1. HeldOnce(j) /\ j # 0
    BY <1>9 DEF OneHolder, SandboxInv, SandboxBase, SandboxRows
  <2>2. \A u \in Threads : u # t => /\ Holder(u, j)' <=> Holder(u, j)
                                    /\ At(u, "bind")' <=> At(u, "bind")
    BY <1>7 DEF Holder, At
  <2>3. /\ ~At(t, "bind")' /\ (Holder(t, j)' => Holder(t, j))
        /\ \A u \in Threads : Runs(u, j)' <=> Runs(u, j)
    BY <1>3, <1>7 DEF Holder, Runs, At
  <2>4. CASE j = k
    <3>1. c[2] = k
      BY <1>2, <2>1, <2>4
    <3>2. Holder(t, j)
      BY <2>4, <3>1 DEF Holder
    <3> QED
      BY <1>3, <2>1, <2>2, <2>3, <3>2 DEF HeldOnce
  <2>5. CASE j # k
    <3>1. j \in alive => j \in alive'
      BY <1>2, <2>5
    <3> QED
      BY <1>3, <1>11, <2>1, <2>2, <2>3, <3>1 DEF HeldOnce
  <2> QED
    BY <2>4, <2>5
<1>14. OwnersTold'
  <2> SUFFICES ASSUME NEW r \in Sessions, kernels'[r] # 0, ~Crossing(r)'
               PROVE  HasOwner(r, kernels[r])'
    BY DEF OwnersTold
  <2>1. kernels'[r] = kernels[r] /\ kernels[r] # 0 /\ kernels[r] # k
    BY <1>8
  <2>2. HasOwner(r, kernels[r])
    BY <1>3, <1>9, <2>1 DEF OwnersTold, SandboxInv, Crossing
  <2>3. c # <<r, kernels[r]>> /\ c # <<r, 0>>
    BY <1>2, <1>4, <2>1
  <2>4. thread[t].todo \cap {<<r, kernels[r]>>, <<r, 0>>}
          = thread'[t].todo \cap {<<r, kernels[r]>>, <<r, 0>>}
    BY <1>7, <2>3
  <2>5. CASE Bound(r)
    BY <1>11, <2>1, <2>5 DEF HasOwner
  <2>6. ASSUME NEW u \in Threads,
               \/ thread[u].sid = r /\ thread[u].pc \in {"open", "bind", "failed"}
               \/ thread[u].todo \cap {<<r, kernels[r]>>, <<r, 0>>} # {}
        PROVE  HasOwner(r, kernels[r])'
    BY <1>7, <2>1, <2>4, <2>6 DEF HasOwner
  <2> QED
    BY <2>2, <2>5, <2>6 DEF HasOwner
<1>15. SlotsBounded'
  BY <1>11, SlotsKept DEF SandboxInv
<1> QED
  BY <1>10, <1>12, <1>13, <1>14, <1>15 DEF SandboxInv

\* A thread that rests has no object, so there is one that nobody has in hands.
LEMMA FreshIsFree ==
  ASSUME SandboxBase, NEW t \in Threads, At(t, "idle"), NEW s \in Sessions, ~Bound(s)
  PROVE  /\ FreshObject \in Objects
         /\ \A u \in Threads : thread[u].object # FreshObject
<1> DEFINE f == [u \in Threads \ {t} |-> thread[u].object]
<1> DEFINE g == [r \in Sessions \ {s} |-> registry[r].object]
<1> DEFINE F == {f[u] : u \in Threads \ {t}}
<1> DEFINE G == {g[r] : r \in Sessions \ {s}}
<1>1. /\ IsFiniteSet(Threads \ {t}) /\ Cardinality(Threads \ {t}) = Cardinality(Threads) - 1
      /\ IsFiniteSet(Sessions \ {s}) /\ Cardinality(Sessions \ {s}) = Cardinality(Sessions) - 1
      /\ Cardinality(Threads) \in Nat /\ Cardinality(Sessions) \in Nat
  BY SandboxAssumption, FS_RemoveElement, FS_CardinalityType
<1>2. /\ IsFiniteSet(F) /\ Cardinality(F) <= Cardinality(Threads) - 1
  <2>1. f \in Surjection(Threads \ {t}, F)
    BY DEF Surjection
  <2> QED
    BY <1>1, <2>1, FS_Surjection
<1>3. /\ IsFiniteSet(G) /\ Cardinality(G) <= Cardinality(Sessions) - 1
  <2>1. g \in Surjection(Sessions \ {s}, G)
    BY DEF Surjection
  <2> QED
    BY <1>1, <2>1, FS_Surjection
<1>4. IsFiniteSet(F \cup G) /\ Cardinality(F \cup G) <= Cardinality(F) + Cardinality(G)
  <2>1. /\ IsFiniteSet(F \cup G) /\ IsFiniteSet(F \cap G)
        /\ Cardinality(F \cup G) = Cardinality(F) + Cardinality(G) - Cardinality(F \cap G)
    BY <1>2, <1>3, FS_Union, FS_Intersection
  <2>2. /\ Cardinality(F) \in Nat /\ Cardinality(G) \in Nat /\ Cardinality(F \cap G) \in Nat
    BY <1>2, <1>3, <2>1, FS_CardinalityType
  <2> QED
    BY <2>1, <2>2
<1>5. /\ IsFiniteSet(Objects)
      /\ Cardinality(Objects) = Cardinality(Sessions) + Cardinality(Threads)
  <2>1. Cardinality(Sessions) + Cardinality(Threads) \in Nat
    BY <1>1
  <2> QED
    BY <1>1, <2>1, FS_Interval DEF Objects
<1>6. ~(Objects \subseteq F \cup G)
  <2> SUFFICES ASSUME Objects \subseteq F \cup G PROVE FALSE
    OBVIOUS
  <2>1. Cardinality(Objects) <= Cardinality(F \cup G)
    BY <1>4, FS_Subset
  <2>2. /\ Cardinality(F) \in Nat /\ Cardinality(G) \in Nat /\ Cardinality(F \cup G) \in Nat
    BY <1>2, <1>3, <1>4, FS_CardinalityType
  <2> QED
    BY <1>1, <1>2, <1>3, <1>4, <1>5, <2>1, <2>2
<1>7. PICK o \in Objects : o \notin F /\ o \notin G
  BY <1>6
<1>8. o # 0
  BY <1>1 DEF Objects
<1>9. thread[t].object = 0 /\ registry[s].object = 0
  BY DEF SandboxBase, ThreadsTold, ThreadTold, Bound
<1>10. /\ \A r \in Sessions : registry[r].object # o
       /\ \A u \in Threads : thread[u].object # o
  <2>1. \A r \in Sessions : r # s => registry[r].object \in G
    OBVIOUS
  <2>2. \A u \in Threads : u # t => thread[u].object \in F
    OBVIOUS
  <2> QED
    BY <1>7, <1>8, <1>9, <2>1, <2>2
<1> QED
  BY <1>10 DEF FreshObject

\* A placeholder takes a slot only when one is left.
LEMMA SlotTaken ==
  ASSUME SlotsBounded, NEW S \in SUBSET {r \in Sessions : Bound(r)}, NEW E \in SUBSET S,
         NEW s \in Sessions, s \notin S,
         Cardinality(E) = IF Cardinality(S) >= MaxSessions THEN 1 ELSE 0,
         \A r \in Sessions : Bound(r)' => r = s \/ r \in S \ E
  PROVE  SlotsBounded'
<1> DEFINE B == {r \in Sessions : Bound(r)}
<1> DEFINE C == {r \in Sessions : Bound(r)'}
<1>1. IsFiniteSet(B) /\ IsFiniteSet(S) /\ IsFiniteSet(E) /\ IsFiniteSet(S \ E)
  BY SandboxAssumption, FS_Subset
<1>2. /\ Cardinality(S) <= Cardinality(B)
      /\ Cardinality(B) \in Nat /\ Cardinality(S) \in Nat /\ Cardinality(S \ E) \in Nat
  BY <1>1, FS_Subset, FS_CardinalityType
<1>3. Cardinality(S \ E) = Cardinality(S) - Cardinality(E)
  <2>1. Cardinality(S \ E) = Cardinality(S) - Cardinality(S \cap E) /\ S \cap E = E
    BY <1>1, FS_Difference
  <2> QED
    BY <2>1
<1>4. /\ IsFiniteSet((S \ E) \cup {s})
      /\ Cardinality((S \ E) \cup {s}) = Cardinality(S \ E) + 1
  BY <1>1, FS_AddElement
<1>5. C \subseteq (S \ E) \cup {s}
  OBVIOUS
<1>6. Cardinality(C) <= Cardinality(S \ E) + 1 /\ Cardinality(C) \in Nat
  BY <1>4, <1>5, FS_Subset, FS_CardinalityType
<1>7. Cardinality(B) <= MaxSessions /\ MaxSessions \in Nat \ {0}
  BY SandboxAssumption DEF SlotsBounded
<1>8. Cardinality(C) <= MaxSessions
  BY <1>2, <1>3, <1>6, <1>7
<1> QED
  BY <1>8 DEF SlotsBounded

\* An open takes the expired sessions, evicts one if that left no room, and registers its own.
LEMMA OpenStep ==
  ASSUME SandboxInv, NEW t \in Threads, NEW s \in Sessions, OpenSession(t, s)
  PROVE  SandboxInv'
<1> DEFINE left == {r \in Sessions : Bound(r)} \ Reapable
<1>1. PICK evicted \in SUBSET {r \in left : Evictable(r)} :
        /\ Cardinality(evicted) = IF ~Bound(s) /\ Cardinality(left) >= MaxSessions THEN 1 ELSE 0
        /\ registry' = [Pop(Reapable \cup evicted) EXCEPT ![s] =
                          IF Bound(s) THEN registry[s]
                          ELSE [Unbound EXCEPT !.object = FreshObject]]
        /\ Tears(t, s, Captured(Reapable \cup evicted), "clear")
  BY DEF OpenSession
<1>2. PICK P \in SUBSET Sessions :
        P = Reapable \cup evicted /\ \A r \in P : Evictable(r) /\ Users(r) = {}
  <2>1. \A r \in Reapable \cup evicted : r \in Sessions /\ Evictable(r)
    BY DEF Reapable
  <2> QED
    BY <2>1, EvictableUnused
<1>3. /\ thread[t].pc = "idle" /\ ~registry[s].ready /\ s \notin P
      /\ UNCHANGED <<kernels, alive, starts, crossed>>
      /\ SandboxBase /\ crossed \subseteq DOMAIN starts
      /\ registry \in [Sessions -> SessionRow] /\ registry[s].handle = 0
      /\ thread[t].todo = {} /\ At(t, "idle")
  BY <1>2 DEF OpenSession, Evictable, At, SandboxInv, SandboxBase, SandboxRows, HandlesTold,
              ThreadsTold, ThreadTold
<1>4. PICK T \in SUBSET (Sessions \X Nat) :
        /\ T = Captured(P)
        /\ \A c \in T : c[1] \in P /\ c[2] = registry[c[1]].handle /\ Of(c[2], c[1])
        /\ \A r \in P : <<r, registry[r].handle>> \in T
  BY <1>3, CapturedOf
<1>5. Turns(t, s, T, "clear")
  BY <1>1, <1>2, <1>3, <1>4, TearsTurns DEF SandboxBase, ThreadPlaces
<1>6. PICK row \in SessionRow :
        /\ registry' = [Pop(P) EXCEPT ![s] = row]
        /\ row.handle = 0 /\ row.ready = FALSE /\ row.object # 0
        /\ Bound(s) => row = registry[s]
        /\ ~Bound(s) => row.inUse = 0 /\ row.object = FreshObject
  <2>1. CASE Bound(s)
    BY <1>1, <1>2, <1>3, <2>1 DEF Bound, SessionRow
  <2>2. CASE ~Bound(s)
    <3>1. FreshObject \in Objects
      BY <1>3, <2>2, FreshIsFree
    <3>2. FreshObject \in Nat /\ FreshObject # 0
      <4>1. Cardinality(Sessions) + Cardinality(Threads) \in Int
        BY SandboxAssumption, FS_CardinalityType
      <4> QED
        BY <3>1, <4>1 DEF Objects
    <3>3. PICK row : row = [Unbound EXCEPT !.object = FreshObject]
      OBVIOUS
    <3>4. /\ row \in SessionRow /\ row.handle = 0 /\ row.ready = FALSE /\ row.inUse = 0
          /\ row.object = FreshObject
      BY <3>2, <3>3 DEF Unbound, SessionRow
    <3>5. registry' = [Pop(P) EXCEPT ![s] = row]
      BY <1>1, <1>2, <2>2, <3>3
    <3> QED
      BY <2>2, <3>2, <3>4, <3>5
  <2> QED
    BY <2>1, <2>2
<1>7. /\ registry' \in [Sessions -> SessionRow] /\ registry'[s] = row
      /\ \A r \in P : registry'[r].handle = 0 /\ registry'[r].object = 0
                      /\ registry'[r].ready = FALSE
      /\ \A r \in Sessions \ P : r # s => registry'[r] = registry[r]
  <2>1. Unbound \in SessionRow /\ Unbound.handle = 0 /\ Unbound.object = 0
        /\ Unbound.ready = FALSE
    BY DEF Unbound, SessionRow
  <2>2. /\ Pop(P) \in [Sessions -> SessionRow]
        /\ \A r \in P : Pop(P)[r] = Unbound
        /\ \A r \in Sessions \ P : Pop(P)[r] = registry[r]
    BY <1>3, <2>1 DEF Pop
  <2> QED
    BY <1>3, <1>6, <2>1, <2>2
<1>8. SandboxBase'
  <2>1. HandlesTold'
    BY <1>3, <1>6, <1>7 DEF SandboxBase, HandlesTold, Of, Bound
  <2> QED
    BY <1>3, <1>4, <1>5, <1>7, <2>1, BaseTurns
<1>9. HoldsCounted'
  <2>1. ASSUME NEW r \in Sessions, Bound(r)'
        PROVE  \/ /\ registry'[r].object = registry[r].object
                  /\ registry'[r].inUse = registry[r].inUse
               \/ /\ registry'[r].inUse = 0
                  /\ \A u \in Threads : thread[u].object # registry'[r].object
    <3>1. r \notin P
      BY <1>7, <2>1 DEF Bound
    <3>2. CASE r = s
      BY <1>3, <1>6, <1>7, <3>2, FreshIsFree
    <3>3. CASE r # s
      BY <1>7, <3>1, <3>3
    <3> QED
      BY <3>2, <3>3
  <2> QED
    BY <1>3, <1>5, <2>1, CountKept DEF Turns, SandboxInv
<1>10. OneHolder'
  <2>1. GivesUp(t, P, T)
    BY <1>2, <1>3, <1>4, <1>6, <1>7 DEF GivesUp
  <2> QED
    BY <1>3, <1>5, <2>1, HolderTurns DEF SandboxInv
<1>11. OwnersTold'
  <2>1. \A r \in Sessions \ P : Bound(r) => Bound(r)'
    BY <1>6, <1>7 DEF Bound
  <2>2. \A r \in Sessions : kernels[r] # 0 /\
          (r \in P \/ (thread[t].sid = r /\ thread[t].pc \in {"open", "bind", "failed"})) =>
            \/ Crossing(r)
            \/ Bound(r)'
            \/ <<r, kernels[r]>> \in T \/ <<r, 0>> \in T
    <3> SUFFICES ASSUME NEW r \in P, ~Crossing(r) PROVE <<r, kernels[r]>> \in T
      BY <1>3
    <3>1. registry[r].handle # 0
      BY <1>2, <1>3 DEF Evictable, SandboxBase, HandlesTold
    <3> QED
      BY <1>3, <1>4, <3>1, HandleKnown DEF SandboxInv
  <2> QED
    BY <1>3, <1>5, <2>1, <2>2, OwnersTurn DEF SandboxInv
<1>12. SlotsBounded'
  <2>1. CASE Bound(s)
    <3>1. \A r \in Sessions : Bound(r)' => Bound(r)
      BY <1>7, <2>1 DEF Bound
    <3> QED
      BY <3>1, SlotsKept DEF SandboxInv
  <2>2. CASE ~Bound(s)
    <3>1. \A r \in Sessions : Bound(r)' => r = s \/ r \in left \ evicted
      BY <1>2, <1>7 DEF Bound
    <3> QED
      BY <1>1, <2>2, <3>1, SlotTaken DEF SandboxInv
  <2> QED
    BY <2>1, <2>2
<1> QED
  BY <1>8, <1>9, <1>10, <1>11, <1>12 DEF SandboxInv

\* No session is registered and no kernel started.
LEMMA SandboxStart == SandboxInit => SandboxInv
<1> SUFFICES ASSUME SandboxInit PROVE SandboxInv
  OBVIOUS
<1>1. /\ registry = [s \in Sessions |-> Unbound] /\ kernels = [s \in Sessions |-> 0]
      /\ alive = {} /\ thread = [t \in Threads |-> Resting] /\ starts = <<>> /\ crossed = {}
  BY DEF SandboxInit
<1>2. Unbound \in SessionRow /\ Unbound.handle = 0 /\ Unbound.object = 0
      /\ Unbound.ready = FALSE
  BY DEF Unbound, SessionRow
<1>3. /\ registry \in [Sessions -> SessionRow]
      /\ \A s \in Sessions : registry[s].handle = 0 /\ registry[s].ready = FALSE /\ ~Bound(s)
  BY <1>1, <1>2 DEF Bound
<1>4. /\ thread \in [Threads -> ThreadRow]
      /\ \A t \in Threads : /\ thread[t].pc = "idle" /\ thread[t].sid = "none"
                            /\ thread[t].todo = {} /\ thread[t].object = 0
                            /\ thread[t].kernel = 0
  BY <1>1, RestingIs
<1>5. starts \in Seq(Sessions) /\ DOMAIN starts = {}
  BY <1>1
<1>6. SandboxBase
  <2>1. SandboxRows
    BY <1>1, <1>3, <1>4, <1>5 DEF SandboxRows
  <2>2. KernelsTold /\ HandlesTold
    BY <1>1, <1>3 DEF KernelsTold, HandlesTold, Of
  <2>3. ThreadsTold
    BY <1>4 DEF ThreadsTold, ThreadTold, Of, At
  <2> QED
    BY <2>1, <2>2, <2>3 DEF SandboxBase
<1>7. HoldsCounted /\ OneHolder /\ OwnersTold
  BY <1>1, <1>3, <1>5 DEF HoldsCounted, OneHolder, OwnersTold
<1>8. SlotsBounded
  <2>1. {s \in Sessions : Bound(s)} = {}
    BY <1>3
  <2> QED
    BY <2>1, FS_EmptySet, SandboxAssumption DEF SlotsBounded
<1> QED
  BY <1>6, <1>7, <1>8 DEF SandboxInv

\* Opens, closes, evictions and reaps of any threads never exceed the cap; code that runs
\* keeps its kernel and a kernel that runs has an owner, but for the kernels that crossed.
THEOREM SandboxSafeHolds == SandboxSpec => []SandboxSafe
<1>1. SandboxInv => SandboxSafe
  <2> SUFFICES ASSUME SandboxInv PROVE SandboxSafe
    OBVIOUS
  <2>1. KernelKept
    <3>1. ASSUME NEW t \in Threads, At(t, "using"), thread[t].kernel # 0
          PROVE  thread[t].kernel \in alive \cup crossed
      <4>1. thread[t].kernel \in DOMAIN starts
        BY <3>1 DEF SandboxInv, SandboxBase, ThreadsTold, ThreadTold, Of
      <4> QED
        BY <3>1, <4>1 DEF SandboxInv, OneHolder, HeldOnce, Runs
    <3>2. ASSUME NEW s \in Sessions, registry[s].ready
          PROVE  registry[s].handle \in alive \cup crossed
      <4>1. registry[s].handle \in DOMAIN starts
        BY <3>2 DEF SandboxInv, SandboxBase, HandlesTold, Of
      <4> QED
        BY <4>1 DEF SandboxInv, OneHolder, HeldOnce
    <3> QED
      BY <3>1, <3>2 DEF KernelKept
  <2>2. NoOrphan
    <3> SUFFICES ASSUME NEW k \in alive PROVE Owned(k) \/ Crossing(starts[k])
      BY DEF NoOrphan, Crossing
    <3>1. /\ k # 0 /\ starts[k] \in Sessions /\ kernels[starts[k]] = k
      BY DEF SandboxInv, SandboxBase, SandboxRows, KernelsTold
    <3> QED
      BY <3>1 DEF SandboxInv, OwnersTold, HasOwner, Owned
  <2> QED
    BY <2>1, <2>2 DEF SandboxSafe, SandboxInv
<1>2. SandboxInv /\ [SandboxNext]_sandboxVars => SandboxInv'
  <2> SUFFICES ASSUME SandboxInv, [SandboxNext]_sandboxVars PROVE SandboxInv'
    OBVIOUS
  <2>1. ASSUME NEW t \in Threads, ThreadStep(t) PROVE SandboxInv'
    <3>1. ASSUME NEW s \in Sessions, Reuse(t, s) PROVE SandboxInv'
      BY <3>1, TouchSteps DEF Reuse
    <3> QED
      BY <2>1, <3>1, OpenStep, EnterStep, GetKernelStep, CloseStep, CloseBackendStep, VictimsStep,
         BackendStep, FailsStep, FreeStep, BindStep, LeaveStep, InvalidateStep, DropStep,
         ReapStep DEF ThreadStep
  <2>2. ASSUME NEW s \in Sessions, IdlesOut(s) PROVE SandboxInv'
    BY <2>2, TouchSteps DEF IdlesOut
  <2>3. CASE UNCHANGED sandboxVars
    <3>1. registry' \in [Sessions -> SessionRow]
      BY <2>3 DEF sandboxVars, SandboxInv, SandboxBase, SandboxRows
    <3> QED
      BY <2>3, <3>1, RegistryTouched DEF sandboxVars
  <2> QED
    BY <2>1, <2>2, <2>3 DEF SandboxNext
<1> QED
  BY <1>1, <1>2, SandboxStart, PTL DEF SandboxSpec
=============================================================================
