------------------------------- MODULE WikiPages -------------------------------
(***************************************************************************)
(* One page of a wiki source: editors (the agent's tool and people) that   *)
(* write it under a version check, and the re-embed tasks that bring the   *)
(* search index up to date.  A task is keyed by the hash of the text of    *)
(* its edit, so that a task of the same text within 24 h is answered from  *)
(* the idempotency table; tasks of different texts may run at once.        *)
(***************************************************************************)
EXTENDS Integers, FiniteSets

CONSTANTS
  Editors,      \* edits in flight at the same time
  Texts,        \* texts of the page, which stand for their hashes
  MaxVersion    \* bound: writes since the page was created

ASSUME WikiAssumption == IsFiniteSet(Editors) /\ MaxVersion \in Nat \ {0}

VARIABLES
  page,       \* wiki_pages: the row of the path
  chunks,     \* the texts whose chunks the index holds for the path
  embed,      \* the re-embed task of each text
  answered,   \* task_dedup: the keys that are completed
  editor,     \* the edits
  outdated    \* history: a task was answered by its key, lost, or ran beside another

wikiVars == <<page, chunks, embed, answered, editor, outdated>>

NoPage == [text |-> "none", version |-> 0]
NoEdit == [pc |-> "idle", text |-> "none", base |-> "none", version |-> 0,
           deleted |-> FALSE, clobbered |-> FALSE]
NoTask == [pc |-> "none", text |-> "none", again |-> FALSE]

Text   == Texts \cup {"none"}

WikiTypeOK ==
  /\ page \in [text : Text, version : 0..MaxVersion]
  /\ chunks \subseteq Texts
  /\ embed \in [Texts -> [pc : {"none", "queued", "purged", "read"},
                          text : Text, again : BOOLEAN]]
  /\ answered \subseteq Texts
  /\ editor \in [Editors ->
       [pc : {"idle", "read", "update", "insert", "saved"}, text : Text, base : Text,
        version : 0..MaxVersion, deleted : BOOLEAN, clobbered : BOOLEAN]]
  /\ outdated \in BOOLEAN

EditorAt(e, pc) == editor[e].pc = pc

Embedding(k) == embed[k].pc \in {"purged", "read"}

\* What the index should hold.
Wanted == {page.text} \ {"none"}

-----------------------------------------------------------------------------
(* Edits: WikiTool, the page route, WikiPagesRepository.                    *)

\* The editor reads the page it will edit: its text and, for a checked write, its
\* version.  A page that is not there, or a person who sends no version, gives 0.
ReadPage(e) ==
  /\ EditorAt(e, "idle")
  /\ editor' \in {[editor EXCEPT ![e] = [NoEdit EXCEPT !.pc = "read"]],
                  [editor EXCEPT ![e] = [NoEdit EXCEPT !.pc = "read",
                     !.base = page.text, !.version = page.version]]}
  /\ UNCHANGED <<page, chunks, embed, answered, outdated>>

\* upsert looks at the row: the same text is not written again; an expected version
\* and a row that is there make a conditional update, anything else an insert.
LookAtPage(e, text) ==
  /\ EditorAt(e, "read")
  /\ editor' = [editor EXCEPT
       ![e] = IF page.text = text THEN [NoEdit EXCEPT !.pc = "saved", !.text = text]
              ELSE IF editor[e].version # 0 /\ page.version # 0
                THEN [@ EXCEPT !.pc = "update", !.text = text]
              ELSE [@ EXCEPT !.pc = "insert", !.text = text]]
  /\ UNCHANGED <<page, chunks, embed, answered, outdated>>

Writes(e) ==
  /\ page.version < MaxVersion
  /\ page' = [text |-> editor[e].text, version |-> page.version + 1]
  /\ editor' = [editor EXCEPT ![e] = [NoEdit EXCEPT !.pc = "saved", !.text = editor[e].text,
       !.clobbered = editor[e].version # 0 /\ ~editor[e].deleted
                     /\ page.text # editor[e].base]]

\* Mutant: the row is updated whatever its version.
Matches_any(e) == page.version # 0

\* WHERE version = expected_version
Matches(e) == page.version = editor[e].version

UpdatePage(e) ==
  /\ EditorAt(e, "update")
  /\ IF Matches(e)
       THEN Writes(e)
       ELSE editor' = [editor EXCEPT ![e] = NoEdit] /\ UNCHANGED page
  /\ UNCHANGED <<chunks, embed, answered, outdated>>

\* INSERT ... ON CONFLICT DO UPDATE
InsertPage(e) ==
  /\ EditorAt(e, "insert")
  /\ Writes(e)
  /\ UNCHANGED <<chunks, embed, answered, outdated>>

\* delete_by_path.  The version dies with the row.
DeletePage(e) ==
  /\ EditorAt(e, "idle")
  /\ page # NoPage
  /\ page' = NoPage
  /\ editor' = [d \in Editors |->
       IF d = e THEN [NoEdit EXCEPT !.pc = "saved", !.text = page.text]
       ELSE [editor[d] EXCEPT !.deleted = editor[d].version # 0]]
  /\ UNCHANGED <<chunks, embed, answered, outdated>>

\* After its commit the edit sends the task of its text, or of the deleted one.
SendEmbed(e) ==
  LET k == editor[e].text
  IN /\ EditorAt(e, "saved")
     /\ editor' = [editor EXCEPT ![e] = NoEdit]
     /\ embed' = [embed EXCEPT
          ![k] = IF embed[k].pc = "none" THEN [NoTask EXCEPT !.pc = "queued"]
                 ELSE [@ EXCEPT !.again = TRUE]]
     /\ UNCHANGED <<page, chunks, answered, outdated>>

\* ... unless the broker refuses it, which is logged, or the process dies.
SendFails(e) ==
  /\ EditorAt(e, "saved")
  /\ editor' = [editor EXCEPT ![e] = NoEdit]
  /\ outdated' = TRUE
  /\ UNCHANGED <<page, chunks, embed, answered>>

-----------------------------------------------------------------------------
(* reembed_wiki_page, under with_idempotency.                               *)

\* The next message of the same text, if one came meanwhile.
Leaves(k) ==
  embed' = [embed EXCEPT ![k] = IF @.again THEN [NoTask EXCEPT !.pc = "queued"]
                                ELSE NoTask]

\* The key is completed: the task does nothing.
AnswerByKey(k) ==
  /\ embed[k].pc = "queued"
  /\ k \in answered
  /\ Leaves(k)
  /\ outdated' = (outdated \/ chunks # Wanted \/ \E l \in Texts : Embedding(l))
  /\ UNCHANGED <<page, chunks, answered, editor>>

\* Mutant: the task adds to what is there.
Purged_nothing == chunks

\* delete_chunks_by_source_path
Purged == {}

StartEmbed(k) ==
  /\ embed[k].pc = "queued"
  /\ k \notin answered
  /\ embed' = [embed EXCEPT ![k].pc = "purged"]
  /\ chunks' = Purged
  /\ outdated' = \E l \in Texts : Embedding(l)
  /\ UNCHANGED <<page, answered, editor>>

\* The page as it is now, whatever text the task was sent for.
ReadForEmbed(k) ==
  /\ embed[k].pc = "purged"
  /\ embed' = [embed EXCEPT ![k].pc = "read", ![k].text = page.text]
  /\ UNCHANGED <<page, chunks, answered, editor, outdated>>

Added(k) == chunks \cup ({embed[k].text} \ {"none"})

\* The chunks are added, the status of the page set and the key completed.
FinishEmbed(k) ==
  /\ embed[k].pc = "read"
  /\ chunks' = Added(k)
  /\ answered' = answered \cup {k}
  /\ Leaves(k)
  /\ UNCHANGED <<page, editor, outdated>>

\* The worker dies, or the task raises, with the chunks added or not: it is
\* delivered again ...
EmbedAgain(k) ==
  /\ Embedding(k)
  /\ chunks' \in {chunks, Added(k)}
  /\ embed' = [embed EXCEPT ![k].pc = "queued", ![k].text = "none"]
  /\ UNCHANGED <<page, answered, editor, outdated>>

\* ... until its retries are used up.
EmbedGivenUp(k) ==
  /\ Embedding(k)
  /\ Leaves(k)
  /\ outdated' = TRUE
  /\ UNCHANGED <<page, chunks, answered, editor>>

\* The 24 h of the key pass.
KeyForgotten(k) ==
  /\ k \in answered
  /\ answered' = answered \ {k}
  /\ UNCHANGED <<page, chunks, embed, editor, outdated>>

WikiInit ==
  /\ page = NoPage
  /\ chunks = {}
  /\ embed = [k \in Texts |-> NoTask]
  /\ answered = {}
  /\ editor = [e \in Editors |-> NoEdit]
  /\ outdated = FALSE

EditorStep(e) ==
  \/ ReadPage(e) \/ (\E text \in Texts : LookAtPage(e, text))
  \/ UpdatePage(e) \/ InsertPage(e) \/ DeletePage(e)
  \/ SendEmbed(e) \/ SendFails(e)

EmbedStep(k) ==
  \/ AnswerByKey(k) \/ StartEmbed(k) \/ ReadForEmbed(k) \/ FinishEmbed(k)
  \/ EmbedAgain(k) \/ EmbedGivenUp(k) \/ KeyForgotten(k)

WikiNext == (\E e \in Editors : EditorStep(e)) \/ (\E k \in Texts : EmbedStep(k))

WikiSpec == WikiInit /\ [][WikiNext]_wikiVars

-----------------------------------------------------------------------------
(* Properties.                                                              *)

\* A write with a version replaces only the text its editor had read, unless the page
\* was deleted meanwhile: versions start again with the page, and an insert has no check.
NoLostUpdate ==
  \A e \in Editors : ~editor[e].clobbered

\* When edits and tasks have come to rest the index holds the page and nothing else,
\* unless a task was answered by the key of an earlier edit, was lost or given up, or
\* ran beside the task of another text.
SearchCatchesUp ==
  (\A e \in Editors : ~EditorAt(e, "saved")) /\ (\A k \in Texts : embed[k] = NoTask)
    => outdated \/ chunks = Wanted

WikiSafe == NoLostUpdate /\ SearchCatchesUp
=============================================================================
