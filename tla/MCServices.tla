------------------------------ MODULE MCServices ------------------------------
(* Small instances of the services that share nothing with each other.  An initial   *)
(* state picks one of them; the others stay as they are.  Three come in two parts:    *)
(* of the user's events, the stream of one tab or the seats of two; of the syncs,     *)
(* those that fail in any way but do not overlap, or those that overlap and have no   *)
(* failed listing; of the wiki, edits with their tasks, or more edits without them.   *)
EXTENDS IntelligenceSync, WikiPages, SandboxManager, IngestProgress, DeviceBroker,
        DevicePairing, CompletionKey, UserEvents, GuardrailStream, TLC

CONSTANTS x, y

\* The members of a pair are interchangeable.
Twins == Permutations({x, y})

VARIABLE service

ServicesInit ==
  /\ service \in {"sandbox", "device", "pairing", "ingest", "wiki", "edits", "completion",
                  "sync", "overlap", "stream", "seats", "guard"}
  /\ SandboxInit
  /\ DeviceInit
  /\ PairingInit
  /\ IngestInit /\ (service # "ingest" => store = "table")
  /\ WikiInit
  /\ CompletionInit
  /\ SyncInit /\ (service \notin {"sync", "overlap"} => kind = [r \in Evidence |-> "document"])
  /\ EventsInit
  /\ GuardInit /\ (service # "guard" => setup = CHOOSE c \in GuardSetups : TRUE)

\* Only the variables of `running` may change.
Rest(running) ==
  /\ IF running = "sandbox"    THEN TRUE ELSE UNCHANGED sandboxVars
  /\ IF running = "device"     THEN TRUE ELSE UNCHANGED deviceVars
  /\ IF running = "pairing"    THEN TRUE ELSE UNCHANGED pairingVars
  /\ IF running = "ingest"     THEN TRUE ELSE UNCHANGED ingestVars
  /\ IF running = "wiki"       THEN TRUE ELSE UNCHANGED wikiVars
  /\ IF running = "completion" THEN TRUE ELSE UNCHANGED completionVars
  /\ IF running = "sync"       THEN TRUE ELSE UNCHANGED syncVars
  /\ IF running = "events"     THEN TRUE ELSE UNCHANGED eventVars
  /\ IF running = "guard"      THEN TRUE ELSE UNCHANGED guardVars

\* No other tab comes, and the counter does not fail.
OneTab ==
  /\ \A t \in Tabs \ {Reader} : UNCHANGED tab[t]
  /\ tab'[Reader].counted = (tab'[Reader].pc # "away")
  /\ seats'.expires \/ seats'.value = 0
  /\ UNCHANGED <<leaks, lapsedSeats>>

\* With tasks one version less.
FewVersions == page'.version < MaxVersion

\* No sync starts while another one is at work.
OneSync == \A r, s \in Syncs : r = s \/ "idle" \in {sync'[r].pc, sync'[s].pc}

AllListed == \A s \in Syncs : sync'[s].result # "failed"

ServicesNext ==
  /\ UNCHANGED service
  /\ \/ service = "sandbox"    /\ SandboxNext    /\ Rest("sandbox")
     \/ service = "device"     /\ DeviceNext     /\ Rest("device")
     \/ service = "pairing"    /\ PairingNext    /\ Rest("pairing")
     \/ service = "ingest"     /\ IngestNext     /\ Rest("ingest")
     \/ service = "wiki"       /\ WikiNext       /\ Rest("wiki") /\ FewVersions
     \/ service = "edits"      /\ WikiNext       /\ Rest("wiki") /\ UNCHANGED embed
     \/ service = "completion" /\ CompletionNext /\ Rest("completion")
     \/ service = "sync"       /\ SyncNext       /\ Rest("sync") /\ OneSync
     \/ service = "overlap"    /\ SyncNext       /\ Rest("sync") /\ AllListed
     \/ service = "stream"     /\ EventsNext     /\ Rest("events") /\ OneTab
     \/ service = "seats"      /\ EventsNext     /\ Rest("events") /\ UNCHANGED feed
     \/ service = "guard"      /\ GuardNext      /\ Rest("guard")

ServicesSpec ==
  ServicesInit /\ [][ServicesNext]_<<service, sandboxVars, deviceVars, pairingVars,
                                    ingestVars, wikiVars, completionVars, syncVars,
                                    eventVars, guardVars>>

\* The VIEW: the variables of the services that do not run keep their first values, so
\* that a state is told from another by the service and its own variables.
ServiceView ==
  <<service, CASE service = "sandbox"    -> sandboxVars
               [] service = "device"     -> deviceVars
               [] service = "pairing"    -> pairingVars
               [] service = "ingest"     -> ingestVars
               [] service \in {"wiki", "edits"}   -> wikiVars
               [] service = "completion" -> completionVars
               [] service \in {"sync", "overlap"} -> syncVars
               [] service = "guard"      -> guardVars
               [] OTHER                  -> eventVars>>

\* The service that runs keeps its variables in their types; the others do not move.
AllTypes ==
  CASE service = "sandbox"    -> SandboxTypeOK
    [] service = "device"     -> DeviceTypeOK
    [] service = "pairing"    -> PairingTypeOK
    [] service = "ingest"     -> IngestTypeOK
    [] service \in {"wiki", "edits"} -> WikiTypeOK
    [] service = "completion" -> CompletionTypeOK
    [] service \in {"sync", "overlap"} -> SyncTypeOK
    [] service = "guard"      -> GuardTypeOK
    [] OTHER                  -> EventsTypeOK
=============================================================================
