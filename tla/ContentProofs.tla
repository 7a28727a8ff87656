----------------------------- MODULE ContentProofs -----------------------------
(***************************************************************************)
(* Theorems about what is embedded and indexed: the pages of a wiki        *)
(* (WikiPages), for any writers, texts, tasks and workers, and the chunks  *)
(* of a source (IngestProgress), for any attempts, workers, chunks and     *)
(* batches.                                                                *)
(***************************************************************************)
EXTENDS WikiPages, IngestProgress, TLAPS

-----------------------------------------------------------------------------
(* WikiPages.                                                               *)

\* What an editor has read is the page as long as its version is, and the version
\* does not come back while the page lives.
VersionsTold ==
  \A e \in Editors :
    /\ editor[e].version # 0 /\ ~editor[e].deleted =>
         /\ editor[e].version <= page.version
         /\ editor[e].version = page.version => page.text = editor[e].base
    /\ EditorAt(e, "insert") /\ editor[e].version # 0 => editor[e].deleted
    /\ ~editor[e].clobbered

\* There is a page when it has a text, and an edit that writes or has written has one.
TextsTold ==
  /\ page = NoPage \/ page.text \in Texts
  /\ \A e \in Editors : editor[e].pc \in {"update", "insert", "saved"} =>
                        editor[e].text \in Texts

\* Until the index holds the page an edit has yet to send its task, a task has yet to
\* begin, or the one at work will read the page or has read it as it is.
IndexDue ==
  \/ \E e \in Editors : EditorAt(e, "saved")
  \/ \E k \in Texts : \/ embed[k].pc \in {"queued", "purged"} \/ embed[k].again
                      \/ embed[k].pc = "read" /\ embed[k].text = page.text
  \/ chunks = Wanted /\ \A k \in Texts : ~Embedding(k)

\* A task at work has the index to itself.
OneEmbeds ==
  /\ \A k, l \in Texts : Embedding(k) /\ Embedding(l) => k = l
  /\ \A k \in Texts : Embedding(k) => chunks = {}

WikiInv ==
  /\ WikiTypeOK
  /\ VersionsTold /\ TextsTold
  /\ ~outdated => IndexDue /\ OneEmbeds

LEMMA WikiTypeStep == WikiTypeOK /\ [WikiNext]_wikiVars => WikiTypeOK'
<1> SUFFICES ASSUME WikiTypeOK, [WikiNext]_wikiVars PROVE WikiTypeOK'
  OBVIOUS
<1> DEFINE Edit == [pc : {"idle", "read", "update", "insert", "saved"}, text : Text,
                    base : Text, version : 0..MaxVersion, deleted : BOOLEAN,
                    clobbered : BOOLEAN]
           Task == [pc : {"none", "queued", "purged", "read"}, text : Text,
                    again : BOOLEAN]
<1>1. /\ editor \in [Editors -> Edit] /\ embed \in [Texts -> Task]
      /\ page \in [text : Text, version : 0..MaxVersion] /\ chunks \subseteq Texts
      /\ answered \subseteq Texts /\ outdated \in BOOLEAN
  BY DEF WikiTypeOK
<1>2. 0 \in 0..MaxVersion /\ MaxVersion \in Nat /\ "none" \in Text /\ Texts \subseteq Text
  BY WikiAssumption DEF Text
<1>3. NoEdit \in Edit /\ NoTask \in Task /\ NoPage \in [text : Text, version : 0..MaxVersion]
  BY <1>2 DEF NoEdit, NoTask, NoPage
<1>4. ASSUME NEW e \in Editors, NEW r \in Edit, editor' = [editor EXCEPT ![e] = r]
      PROVE  editor' \in [Editors -> Edit]
  BY <1>1, <1>4
<1>5. ASSUME NEW k \in Texts, NEW r \in Task, embed' = [embed EXCEPT ![k] = r]
      PROVE  embed' \in [Texts -> Task]
  BY <1>1, <1>5
<1>6. \A e \in Editors : editor[e] \in Edit
  BY <1>1
<1>7. \A k \in Texts : embed[k] \in Task /\ Added(k) \subseteq Texts
  <2>1. \A k \in Texts : embed[k] \in Task
    BY <1>1
  <2> QED
    BY <1>1, <2>1 DEF Added, Text
<1> DEFINE Queued == [NoTask EXCEPT !.pc = "queued"]
<1>8. Queued \in Task
  BY <1>2 DEF NoTask
<1>9. ASSUME NEW k \in Texts, Leaves(k) PROVE embed' \in [Texts -> Task]
  <2>1. CASE embed[k].again
    BY <1>5, <1>8, <1>9, <2>1 DEF Leaves
  <2>2. CASE ~embed[k].again
    BY <1>3, <1>5, <1>9, <2>2 DEF Leaves
  <2> QED
    BY <2>1, <2>2
<1>10. CASE UNCHANGED wikiVars
  BY <1>10 DEF wikiVars, WikiTypeOK
<1>11. ASSUME NEW e \in Editors, ReadPage(e) PROVE WikiTypeOK'
  <2>1. [NoEdit EXCEPT !.pc = "read"] \in Edit
    BY <1>3
  <2>2. [NoEdit EXCEPT !.pc = "read", !.base = page.text, !.version = page.version] \in Edit
    BY <1>1, <1>3
  <2>3. PICK r \in Edit : editor' = [editor EXCEPT ![e] = r]
    BY <1>11, <2>1, <2>2 DEF ReadPage
  <2> QED
    BY <1>4, <1>11, <2>3 DEF ReadPage, WikiTypeOK
<1>12. ASSUME NEW e \in Editors, NEW text \in Texts, LookAtPage(e, text)
       PROVE  WikiTypeOK'
  <2>1. /\ [NoEdit EXCEPT !.pc = "saved", !.text = text] \in Edit
        /\ [editor[e] EXCEPT !.pc = "update", !.text = text] \in Edit
        /\ [editor[e] EXCEPT !.pc = "insert", !.text = text] \in Edit
    BY <1>2, <1>3, <1>6
  <2>2. PICK r \in Edit : editor' = [editor EXCEPT ![e] = r]
    BY <1>12, <2>1 DEF LookAtPage
  <2> QED
    BY <1>4, <1>12, <2>2 DEF LookAtPage, WikiTypeOK
<1>13. ASSUME NEW e \in Editors, Writes(e)
       PROVE  /\ editor' \in [Editors -> Edit]
              /\ page' \in [text : Text, version : 0..MaxVersion]
  <2>1. PICK b \in BOOLEAN : editor' = [editor EXCEPT ![e] = [NoEdit EXCEPT
            !.pc = "saved", !.text = editor[e].text, !.clobbered = b]]
    BY <1>13 DEF Writes
  <2>2. [NoEdit EXCEPT !.pc = "saved", !.text = editor[e].text, !.clobbered = b] \in Edit
    BY <1>3, <1>6
  <2>3. page.version + 1 \in 0..MaxVersion /\ editor[e].text \in Text
    BY <1>1, <1>2, <1>6, <1>13 DEF Writes
  <2>4. page' = [text |-> editor[e].text, version |-> page.version + 1]
    BY <1>13 DEF Writes
  <2> QED
    BY <1>4, <2>1, <2>2, <2>3, <2>4
<1>14. ASSUME NEW e \in Editors, UpdatePage(e) \/ InsertPage(e) PROVE WikiTypeOK'
  <2>1. \/ Writes(e)
        \/ editor' = [editor EXCEPT ![e] = NoEdit] /\ UNCHANGED page
    BY <1>14 DEF UpdatePage, InsertPage
  <2>2. /\ editor' \in [Editors -> Edit]
        /\ page' \in [text : Text, version : 0..MaxVersion]
    BY <1>1, <1>3, <1>4, <1>13, <2>1
  <2> QED
    BY <1>14, <2>2 DEF UpdatePage, InsertPage, WikiTypeOK
<1>15. ASSUME NEW e \in Editors, DeletePage(e) PROVE WikiTypeOK'
  <2>1. [NoEdit EXCEPT !.pc = "saved", !.text = page.text] \in Edit
    BY <1>1, <1>3
  <2>2. \A d \in Editors : [editor[d] EXCEPT !.deleted = editor[d].version # 0] \in Edit
    BY <1>6
  <2>3. editor' \in [Editors -> Edit]
    BY <1>15, <2>1, <2>2 DEF DeletePage
  <2> QED
    BY <1>3, <1>15, <2>3 DEF DeletePage, WikiTypeOK
<1>16. ASSUME NEW e \in Editors, SendEmbed(e) \/ SendFails(e) PROVE WikiTypeOK'
  <2>1. editor' \in [Editors -> Edit]
    BY <1>3, <1>4, <1>16 DEF SendEmbed, SendFails
  <2>2. CASE SendFails(e)
    BY <2>1, <2>2 DEF SendFails, WikiTypeOK
  <2>3. CASE SendEmbed(e)
    <3>1. PICK k : k = editor[e].text
      OBVIOUS
    <3>2. embed' = [embed EXCEPT
             ![k] = IF embed[k].pc = "none" THEN Queued ELSE [embed[k] EXCEPT !.again = TRUE]]
      BY <2>3, <3>1 DEF SendEmbed
    <3>3. \A l \in Texts : [embed[l] EXCEPT !.again = TRUE] \in Task
      BY <1>7
    <3>4. \A l \in Texts : embed'[l] \in {embed[l], Queued, [embed[l] EXCEPT !.again = TRUE]}
      BY <1>1, <3>2
    <3>5. embed' = [l \in Texts |-> embed'[l]]
      BY <1>1, <3>2
    <3>6. \A l \in Texts : embed'[l] \in Task
      BY <1>7, <1>8, <3>3, <3>4
    <3>7. embed' \in [Texts -> Task]
      <4> HIDE DEF Task
      <4> QED
        BY <3>5, <3>6
    <3> QED
      BY <2>1, <2>3, <3>7 DEF SendEmbed, WikiTypeOK
  <2> QED
    BY <1>16, <2>2, <2>3
<1>17. ASSUME NEW k \in Texts, AnswerByKey(k) \/ FinishEmbed(k) \/ EmbedGivenUp(k)
       PROVE  WikiTypeOK'
  <2>1. embed' \in [Texts -> Task]
    BY <1>9, <1>17 DEF AnswerByKey, FinishEmbed, EmbedGivenUp
  <2>2. chunks' \subseteq Texts /\ answered' \subseteq Texts /\ outdated' \in BOOLEAN
    BY <1>1, <1>7, <1>17 DEF AnswerByKey, FinishEmbed, EmbedGivenUp
  <2> QED
    BY <1>17, <2>1, <2>2 DEF AnswerByKey, FinishEmbed, EmbedGivenUp, WikiTypeOK
<1>18. ASSUME NEW k \in Texts,
              StartEmbed(k) \/ ReadForEmbed(k) \/ EmbedAgain(k) \/ KeyForgotten(k)
       PROVE  WikiTypeOK'
  <2>1. embed[k] \in Task /\ page.text \in Text
    BY <1>1, <1>7
  <2>2. embed' \in [Texts -> Task]
    <3>1. CASE StartEmbed(k)
      <4>1. [embed[k] EXCEPT !.pc = "purged"] \in Task
        BY <2>1
      <4>2. embed' = [embed EXCEPT ![k] = [embed[k] EXCEPT !.pc = "purged"]]
        BY <3>1 DEF StartEmbed
      <4> QED
        BY <1>5, <4>1, <4>2
    <3>2. CASE ReadForEmbed(k)
      <4>1. [embed[k] EXCEPT !.pc = "read", !.text = page.text] \in Task
        BY <2>1
      <4>2. embed' = [embed EXCEPT ![k] = [embed[k] EXCEPT !.pc = "read", !.text = page.text]]
        BY <3>2 DEF ReadForEmbed
      <4> QED
        BY <1>5, <4>1, <4>2
    <3>3. CASE EmbedAgain(k)
      <4>1. [embed[k] EXCEPT !.pc = "queued", !.text = "none"] \in Task
        BY <1>2, <2>1
      <4>2. embed' = [embed EXCEPT ![k] = [embed[k] EXCEPT !.pc = "queued", !.text = "none"]]
        BY <3>3 DEF EmbedAgain
      <4> QED
        BY <1>5, <4>1, <4>2
    <3>4. CASE KeyForgotten(k)
      BY <1>1, <3>4 DEF KeyForgotten
    <3> QED
      BY <1>18, <3>1, <3>2, <3>3, <3>4
  <2>3. chunks' \subseteq Texts /\ answered' \subseteq Texts /\ outdated' \in BOOLEAN
    BY <1>1, <1>7, <1>18 DEF StartEmbed, Purged, ReadForEmbed, EmbedAgain, KeyForgotten
  <2> QED
    BY <1>18, <2>2, <2>3 DEF StartEmbed, ReadForEmbed, EmbedAgain, KeyForgotten, WikiTypeOK
<1> QED
  BY <1>10, <1>11, <1>12, <1>14, <1>15, <1>16, <1>17, <1>18
     DEF WikiNext, EditorStep, EmbedStep

\* What an edit does to the page and to the other edits.
LEMMA VersionsStep ==
  ASSUME WikiTypeOK, WikiTypeOK', VersionsTold, WikiNext
  PROVE  VersionsTold'
<1>1. /\ page.version \in Nat /\ page'.version \in Nat
      /\ \A e \in Editors : editor[e].version \in Nat /\ editor[e].deleted \in BOOLEAN
  BY WikiAssumption DEF WikiTypeOK
<1>2. /\ DOMAIN editor = Editors /\ DOMAIN editor' = Editors
      /\ NoEdit.version = 0 /\ NoEdit.pc = "idle" /\ ~NoEdit.clobbered /\ ~NoEdit.deleted
  BY DEF WikiTypeOK, NoEdit
<1>3. ASSUME UNCHANGED <<page, editor>> PROVE VersionsTold'
  BY <1>3 DEF VersionsTold, EditorAt
<1>4. ASSUME NEW e \in Editors, NEW r, editor' = [editor EXCEPT ![e] = r], r.version = 0,
             ~r.clobbered, UNCHANGED page
      PROVE  VersionsTold'
  BY <1>2, <1>4 DEF VersionsTold, EditorAt
<1>5. ASSUME NEW e \in Editors, ReadPage(e) PROVE VersionsTold'
  <2>1. PICK r : r = [NoEdit EXCEPT !.pc = "read", !.base = page.text,
                                    !.version = page.version]
    OBVIOUS
  <2>2. r.pc = "read" /\ r.base = page.text /\ r.version = page.version /\ ~r.clobbered
    BY <2>1 DEF NoEdit
  <2>3. CASE editor' = [editor EXCEPT ![e] = [NoEdit EXCEPT !.pc = "read"]]
    <3>1. PICK n : n = [NoEdit EXCEPT !.pc = "read"]
      OBVIOUS
    <3>2. n.version = 0 /\ ~n.clobbered
      BY <3>1 DEF NoEdit
    <3> QED
      BY <1>4, <1>5, <2>3, <3>1, <3>2 DEF ReadPage
  <2>4. CASE editor' = [editor EXCEPT ![e] = r]
    BY <1>1, <1>2, <1>5, <2>2, <2>4 DEF ReadPage, VersionsTold, EditorAt
  <2> QED
    BY <1>5, <2>1, <2>3, <2>4 DEF ReadPage
<1>6. ASSUME NEW e \in Editors, NEW text \in Texts, LookAtPage(e, text)
      PROVE  VersionsTold'
  <2>1. CASE editor' = [editor EXCEPT ![e] = [NoEdit EXCEPT !.pc = "saved", !.text = text]]
    <3>1. PICK n : n = [NoEdit EXCEPT !.pc = "saved", !.text = text]
      OBVIOUS
    <3>2. n.version = 0 /\ ~n.clobbered
      BY <3>1 DEF NoEdit
    <3> QED
      BY <1>4, <1>6, <2>1, <3>1, <3>2 DEF LookAtPage
  <2>2. ASSUME NEW pc \in {"update", "insert"},
               editor' = [editor EXCEPT ![e] = [editor[e] EXCEPT !.pc = pc, !.text = text]],
               pc = "insert" /\ editor[e].version # 0 => page.version = 0
        PROVE  VersionsTold'
    <3>1. PICK r : r = [editor[e] EXCEPT !.pc = pc, !.text = text]
      OBVIOUS
    <3>2. /\ r.pc = pc /\ r.version = editor[e].version /\ r.deleted = editor[e].deleted
          /\ r.base = editor[e].base /\ r.clobbered = editor[e].clobbered
      BY <3>1 DEF WikiTypeOK
    <3>3. editor'[e] = r /\ \A d \in Editors : d # e => editor'[d] = editor[d]
      BY <1>2, <2>2, <3>1
    <3>4. pc = "insert" /\ r.version # 0 => r.deleted
      BY <1>1, <2>2, <3>2 DEF VersionsTold
    <3>5. UNCHANGED page
      BY <1>6 DEF LookAtPage
    <3>6. \A d \in Editors : /\ editor'[d].version = editor[d].version
                             /\ editor'[d].deleted = editor[d].deleted
                             /\ editor'[d].base = editor[d].base
                             /\ editor'[d].clobbered = editor[d].clobbered
      BY <3>2, <3>3
    <3>7. \A d \in Editors : editor'[d].pc = "insert" /\ editor'[d].version # 0 =>
                             editor'[d].deleted
      <4>1. ASSUME NEW d \in Editors, d # e
            PROVE  editor'[d].pc = "insert" /\ editor'[d].version # 0 => editor'[d].deleted
        BY <3>3, <4>1 DEF VersionsTold, EditorAt
      <4> QED
        BY <3>2, <3>3, <3>4, <4>1
    <3>8. \A d \in Editors :
            /\ editor[d].version # 0 /\ ~editor[d].deleted =>
                 /\ editor[d].version <= page.version
                 /\ editor[d].version = page.version => page.text = editor[d].base
            /\ ~editor[d].clobbered
      BY DEF VersionsTold
    <3> QED
      BY <3>5, <3>6, <3>7, <3>8 DEF VersionsTold, EditorAt
  <2>3. CASE page.text # text /\ editor[e].version # 0 /\ page.version # 0
    <3>1. editor' = [editor EXCEPT ![e] = [editor[e] EXCEPT !.pc = "update", !.text = text]]
      BY <1>6, <2>3 DEF LookAtPage
    <3> QED
      BY <2>2, <3>1
  <2>4. CASE page.text # text /\ ~(editor[e].version # 0 /\ page.version # 0)
    <3>1. editor' = [editor EXCEPT ![e] = [editor[e] EXCEPT !.pc = "insert", !.text = text]]
      BY <1>6, <2>4 DEF LookAtPage
    <3> QED
      BY <2>2, <2>4, <3>1
  <2> QED
    BY <1>6, <2>1, <2>3, <2>4 DEF LookAtPage
<1>7. ASSUME NEW e \in Editors, Writes(e),
             editor[e].version # 0 /\ ~editor[e].deleted => page.text = editor[e].base
      PROVE  VersionsTold'
  <2>1. PICK r : r = [NoEdit EXCEPT !.pc = "saved", !.text = editor[e].text,
           !.clobbered = editor[e].version # 0 /\ ~editor[e].deleted
                         /\ page.text # editor[e].base]
    OBVIOUS
  <2>2. r.pc = "saved" /\ r.version = 0 /\ ~r.clobbered
    BY <1>7, <2>1 DEF NoEdit
  <2>3. editor'[e] = r /\ \A d \in Editors : d # e => editor'[d] = editor[d]
    BY <1>2, <1>7, <2>1 DEF Writes
  <2>4. page'.version = page.version + 1
    BY <1>7 DEF Writes
  <2> QED
    BY <1>1, <2>2, <2>3, <2>4 DEF VersionsTold, EditorAt
<1>8. ASSUME NEW e \in Editors, UpdatePage(e) PROVE VersionsTold'
  <2>1. CASE Matches(e)
    BY <1>7, <1>8, <2>1 DEF UpdatePage, Matches, VersionsTold
  <2>2. CASE ~Matches(e)
    BY <1>2, <1>4, <1>8, <2>2 DEF UpdatePage
  <2> QED
    BY <2>1, <2>2
<1>9. ASSUME NEW e \in Editors, InsertPage(e) PROVE VersionsTold'
  BY <1>7, <1>9 DEF InsertPage, VersionsTold
<1>10. ASSUME NEW e \in Editors, DeletePage(e) PROVE VersionsTold'
  <2>1. PICK n : n = [NoEdit EXCEPT !.pc = "saved", !.text = page.text]
    OBVIOUS
  <2>2. n.version = 0 /\ ~n.clobbered
    BY <2>1 DEF NoEdit
  <2>3. editor'[e] = n
    BY <1>10, <2>1 DEF DeletePage
  <2>4. ASSUME NEW d \in Editors, d # e
        PROVE  /\ editor'[d].version # 0 => editor'[d].deleted
               /\ ~editor'[d].clobbered
    <3>1. PICK r : r = [editor[d] EXCEPT !.deleted = editor[d].version # 0]
      OBVIOUS
    <3>2. /\ r.deleted = (editor[d].version # 0) /\ r.version = editor[d].version
          /\ r.clobbered = editor[d].clobbered
      BY <3>1 DEF WikiTypeOK
    <3>3. editor'[d] = r
      BY <1>10, <2>4, <3>1 DEF DeletePage
    <3> QED
      BY <3>2, <3>3 DEF VersionsTold
  <2>5. ASSUME NEW d \in Editors
        PROVE  /\ editor'[d].version # 0 => editor'[d].deleted
               /\ ~editor'[d].clobbered
    BY <2>2, <2>3, <2>4
  <2> QED
    BY <2>5 DEF VersionsTold, EditorAt
<1>11. ASSUME NEW e \in Editors, SendEmbed(e) \/ SendFails(e) PROVE VersionsTold'
  BY <1>2, <1>4, <1>11 DEF SendEmbed, SendFails
<1>12. ASSUME NEW k \in Texts, EmbedStep(k) PROVE VersionsTold'
  BY <1>3, <1>12 DEF EmbedStep, AnswerByKey, StartEmbed, ReadForEmbed, FinishEmbed,
     EmbedAgain, EmbedGivenUp, KeyForgotten
<1> QED
  BY <1>5, <1>6, <1>8, <1>9, <1>10, <1>11, <1>12 DEF WikiNext, EditorStep

LEMMA TextsStep ==
  ASSUME WikiTypeOK, TextsTold, WikiNext PROVE TextsTold'
<1>1. DOMAIN editor = Editors /\ NoEdit.pc = "idle"
  BY DEF WikiTypeOK, NoEdit
<1>2. ASSUME NEW e \in Editors, NEW r, editor' = [editor EXCEPT ![e] = r],
             r.pc \in {"update", "insert", "saved"} => r.text \in Texts,
             page' = NoPage \/ page'.text \in Texts
      PROVE  TextsTold'
  BY <1>1, <1>2 DEF TextsTold
<1>3. ASSUME NEW e \in Editors, ReadPage(e) PROVE TextsTold'
  <2>1. PICK r : editor' = [editor EXCEPT ![e] = r] /\ r.pc = "read"
    <3>1. /\ [NoEdit EXCEPT !.pc = "read"].pc = "read"
          /\ [NoEdit EXCEPT !.pc = "read", !.base = page.text,
                            !.version = page.version].pc = "read"
      BY DEF NoEdit
    <3> QED
      BY <1>3, <3>1 DEF ReadPage
  <2> QED
    BY <1>2, <1>3, <2>1 DEF ReadPage, TextsTold
<1>4. ASSUME NEW e \in Editors, NEW text \in Texts, LookAtPage(e, text) PROVE TextsTold'
  <2>1. /\ [NoEdit EXCEPT !.pc = "saved", !.text = text].text = text
        /\ [editor[e] EXCEPT !.pc = "update", !.text = text].text = text
        /\ [editor[e] EXCEPT !.pc = "insert", !.text = text].text = text
    BY DEF WikiTypeOK, NoEdit
  <2>2. PICK r : editor' = [editor EXCEPT ![e] = r] /\ r.text = text
    BY <1>4, <2>1 DEF LookAtPage
  <2> QED
    BY <1>2, <1>4, <2>2 DEF LookAtPage, TextsTold
<1>5. ASSUME NEW e \in Editors, Writes(e), editor[e].pc \in {"update", "insert"}
      PROVE  TextsTold'
  <2>1. PICK r : editor' = [editor EXCEPT ![e] = r] /\ r.text = editor[e].text
    <3>1. PICK r : r = [NoEdit EXCEPT !.pc = "saved", !.text = editor[e].text,
            !.clobbered = editor[e].version # 0 /\ ~editor[e].deleted
                          /\ page.text # editor[e].base]
      OBVIOUS
    <3>2. r.text = editor[e].text
      BY <3>1 DEF NoEdit
    <3>3. editor' = [editor EXCEPT ![e] = r]
      BY <1>5, <3>1 DEF Writes
    <3> QED
      BY <3>2, <3>3
  <2>2. page'.text = editor[e].text /\ editor[e].text \in Texts
    BY <1>5 DEF Writes, TextsTold
  <2> QED
    BY <1>2, <2>1, <2>2
<1>6. ASSUME NEW e \in Editors, UpdatePage(e) \/ InsertPage(e) PROVE TextsTold'
  <2>1. Writes(e) \/ (editor' = [editor EXCEPT ![e] = NoEdit] /\ UNCHANGED page)
    BY <1>6 DEF UpdatePage, InsertPage
  <2>2. editor[e].pc \in {"update", "insert"}
    BY <1>6 DEF UpdatePage, InsertPage, EditorAt
  <2> QED
    BY <1>1, <1>2, <1>5, <2>1, <2>2 DEF TextsTold
<1>7. ASSUME NEW e \in Editors, DeletePage(e) PROVE TextsTold'
  <2>1. page' = NoPage /\ page.text \in Texts
    BY <1>7 DEF DeletePage, TextsTold
  <2>2. editor'[e].text = page.text
    BY <1>1, <1>7 DEF DeletePage, NoEdit
  <2>3. \A d \in Editors : d # e => editor'[d].pc = editor[d].pc
                                   /\ editor'[d].text = editor[d].text
    BY <1>7 DEF DeletePage, WikiTypeOK
  <2>4. \A d \in Editors : editor'[d].pc \in {"update", "insert", "saved"} =>
                             editor'[d].text \in Texts
    BY <2>1, <2>2, <2>3 DEF TextsTold
  <2> QED
    BY <2>1, <2>4 DEF TextsTold
<1>8. ASSUME NEW e \in Editors, SendEmbed(e) \/ SendFails(e) PROVE TextsTold'
  BY <1>1, <1>2, <1>8 DEF SendEmbed, SendFails, TextsTold
<1>9. ASSUME NEW k \in Texts, EmbedStep(k) PROVE TextsTold'
  BY <1>9 DEF EmbedStep, AnswerByKey, StartEmbed, ReadForEmbed, FinishEmbed,
     EmbedAgain, EmbedGivenUp, KeyForgotten, TextsTold
<1> QED
  BY <1>3, <1>4, <1>6, <1>7, <1>8, <1>9 DEF WikiNext, EditorStep

\* The task of `k` ends: what it leaves is still due if a message came meanwhile.
LEMMA TaskLeaves ==
  ASSUME WikiTypeOK, NEW k \in Texts, Leaves(k)
  PROVE  /\ \A l \in Texts : l # k => embed'[l] = embed[l]
         /\ embed'[k].pc \in {"none", "queued"}
         /\ embed[k].again => embed'[k].pc = "queued"
BY DEF Leaves, NoTask, WikiTypeOK

LEMMA IndexStep ==
  ASSUME WikiTypeOK, TextsTold, ~outdated => IndexDue /\ OneEmbeds, WikiNext, ~outdated'
  PROVE  IndexDue' /\ OneEmbeds'
<1>1. DOMAIN editor = Editors /\ DOMAIN embed = Texts
  BY DEF WikiTypeOK
<1>2. ASSUME NEW e \in Editors, ReadPage(e) \/ \E text \in Texts : LookAtPage(e, text)
      PROVE  IndexDue' /\ OneEmbeds'
  <2>1. UNCHANGED <<page, chunks, embed, outdated>> /\ ~EditorAt(e, "saved")
        /\ \A d \in Editors : d # e => editor'[d] = editor[d]
    <3>1. ~EditorAt(e, "saved")
      BY <1>2 DEF ReadPage, LookAtPage, EditorAt
    <3>2. \A d \in Editors : d # e => editor'[d] = editor[d]
      BY <1>1, <1>2 DEF ReadPage, LookAtPage
    <3> QED
      BY <1>2, <3>1, <3>2 DEF ReadPage, LookAtPage
  <2> QED
    BY <2>1 DEF IndexDue, OneEmbeds, Embedding, EditorAt, Wanted
<1>3. ASSUME NEW e \in Editors, UpdatePage(e) \/ InsertPage(e) \/ DeletePage(e)
      PROVE  IndexDue' /\ OneEmbeds'
  <2>1. UNCHANGED <<chunks, embed, outdated>> /\ ~EditorAt(e, "saved")
    BY <1>3 DEF UpdatePage, InsertPage, DeletePage, EditorAt
  <2>2. CASE editor'[e].pc = "saved"
    BY <2>1, <2>2 DEF IndexDue, OneEmbeds, Embedding, EditorAt
  <2>3. CASE UNCHANGED page /\ editor' = [editor EXCEPT ![e] = NoEdit]
    <3>1. \A d \in Editors : d # e => editor'[d] = editor[d]
      BY <1>1, <2>3
    <3> QED
      BY <2>1, <2>3, <3>1 DEF IndexDue, OneEmbeds, Embedding, EditorAt, Wanted
  <2>4. ASSUME Writes(e) PROVE editor'[e].pc = "saved"
    BY <1>1, <2>4 DEF Writes, NoEdit
  <2>5. ASSUME DeletePage(e) PROVE editor'[e].pc = "saved"
    BY <1>1, <2>5 DEF DeletePage, NoEdit
  <2> QED
    BY <1>3, <2>2, <2>3, <2>4, <2>5 DEF UpdatePage, InsertPage
<1>4. ASSUME NEW e \in Editors, SendEmbed(e) PROVE IndexDue' /\ OneEmbeds'
  <2>1. PICK k : k = editor[e].text
    OBVIOUS
  <2>2. UNCHANGED <<page, chunks, outdated>>
        /\ embed' = [embed EXCEPT
             ![k] = IF embed[k].pc = "none" THEN [NoTask EXCEPT !.pc = "queued"]
                    ELSE [@ EXCEPT !.again = TRUE]]
    BY <1>4, <2>1 DEF SendEmbed
  <2>3. k \in Texts
    BY <1>4, <2>1 DEF SendEmbed, EditorAt, TextsTold
  <2>4. \A l \in Texts : l # k => embed'[l] = embed[l]
    BY <1>1, <2>2
  <2>5. CASE embed[k].pc = "none"
    <3>1. embed'[k].pc = "queued"
      BY <1>1, <2>2, <2>3, <2>5 DEF NoTask
    <3> QED
      BY <2>2, <2>3, <2>4, <3>1 DEF IndexDue, OneEmbeds, Embedding
  <2>6. CASE embed[k].pc # "none"
    <3>1. embed'[k].again /\ embed'[k].pc = embed[k].pc
      BY <1>1, <2>2, <2>3, <2>6 DEF WikiTypeOK
    <3> QED
      BY <2>2, <2>3, <2>4, <3>1 DEF IndexDue, OneEmbeds, Embedding
  <2> QED
    BY <2>5, <2>6
<1>5. ASSUME NEW e \in Editors, SendFails(e) PROVE FALSE
  BY <1>5 DEF SendFails
<1>6. ASSUME NEW k \in Texts, AnswerByKey(k) PROVE IndexDue' /\ OneEmbeds'
  <2>1. chunks = Wanted /\ UNCHANGED <<chunks, page>> /\ \A l \in Texts : ~Embedding(l)
    BY <1>6 DEF AnswerByKey
  <2>2. \A l \in Texts : ~Embedding(l)'
    BY <1>6, <2>1, TaskLeaves DEF AnswerByKey, Embedding
  <2> QED
    BY <2>1, <2>2 DEF IndexDue, OneEmbeds, Wanted
<1>7. ASSUME NEW k \in Texts, StartEmbed(k) PROVE IndexDue' /\ OneEmbeds'
  <2>1. chunks' = {} /\ \A l \in Texts : ~Embedding(l)
    BY <1>7 DEF StartEmbed, Purged
  <2>2. embed'[k].pc = "purged" /\ \A l \in Texts : l # k => embed'[l] = embed[l]
    BY <1>1, <1>7 DEF StartEmbed, WikiTypeOK
  <2> QED
    BY <2>1, <2>2 DEF IndexDue, OneEmbeds, Embedding
<1>8. ASSUME NEW k \in Texts, ReadForEmbed(k) PROVE IndexDue' /\ OneEmbeds'
  <2>1. UNCHANGED <<page, chunks, outdated>> /\ Embedding(k)
    BY <1>8 DEF ReadForEmbed, Embedding
  <2>2. /\ embed'[k].pc = "read" /\ embed'[k].text = page.text
        /\ \A l \in Texts : l # k => embed'[l] = embed[l]
    BY <1>1, <1>8 DEF ReadForEmbed, WikiTypeOK
  <2> QED
    BY <2>1, <2>2 DEF IndexDue, OneEmbeds, Embedding
<1>9. ASSUME NEW k \in Texts, FinishEmbed(k) PROVE IndexDue' /\ OneEmbeds'
  <2>1. UNCHANGED <<page, editor, outdated>> /\ embed[k].pc = "read" /\ chunks' = Added(k)
        /\ Leaves(k)
    BY <1>9 DEF FinishEmbed
  <2>2. IndexDue /\ OneEmbeds /\ chunks = {}
    BY <2>1 DEF OneEmbeds, Embedding
  <2>3. \A l \in Texts : ~Embedding(l)'
    BY <2>1, <2>2, TaskLeaves DEF OneEmbeds, Embedding
  <2>4. CASE embed[k].text = page.text
    BY <2>1, <2>2, <2>3, <2>4 DEF IndexDue, OneEmbeds, Added, Wanted
  <2>5. CASE embed[k].text # page.text
    <3>1. CASE \E e \in Editors : EditorAt(e, "saved")
      BY <2>1, <2>3, <3>1 DEF IndexDue, OneEmbeds, EditorAt
    <3>2. CASE \E l \in Texts : embed[l].pc \in {"queued", "purged"} \/ embed[l].again
                                \/ (embed[l].pc = "read" /\ embed[l].text = page.text)
      <4>1. PICK l \in Texts : embed[l].pc \in {"queued", "purged"} \/ embed[l].again
                               \/ (embed[l].pc = "read" /\ embed[l].text = page.text)
        BY <3>2
      <4>2. CASE l = k
        BY <2>1, <2>3, <2>5, <4>1, <4>2, TaskLeaves DEF IndexDue, OneEmbeds
      <4>3. CASE l # k
        BY <2>1, <2>3, <4>1, <4>3, TaskLeaves DEF IndexDue, OneEmbeds
      <4> QED
        BY <4>2, <4>3
    <3> QED
      BY <2>1, <2>2, <3>1, <3>2 DEF IndexDue, Embedding
  <2> QED
    BY <2>4, <2>5
<1>10. ASSUME NEW k \in Texts, EmbedAgain(k) PROVE IndexDue' /\ OneEmbeds'
  <2>1. OneEmbeds /\ Embedding(k)
    BY <1>10 DEF EmbedAgain
  <2>2. embed'[k].pc = "queued" /\ \A l \in Texts : l # k => embed'[l] = embed[l]
    BY <1>1, <1>10 DEF EmbedAgain, WikiTypeOK
  <2> QED
    BY <2>1, <2>2 DEF IndexDue, OneEmbeds, Embedding
<1>11. ASSUME NEW k \in Texts, EmbedGivenUp(k) PROVE FALSE
  BY <1>11 DEF EmbedGivenUp
<1>12. ASSUME NEW k \in Texts, KeyForgotten(k) PROVE IndexDue' /\ OneEmbeds'
  BY <1>12 DEF KeyForgotten, IndexDue, OneEmbeds, Embedding, EditorAt, Wanted
<1> QED
  BY <1>2, <1>3, <1>4, <1>5, <1>6, <1>7, <1>8, <1>9, <1>10, <1>11, <1>12
     DEF WikiNext, EditorStep, EmbedStep

\* A checked write replaces only what its editor had read, and the index holds the
\* page when edits and tasks have come to rest, but for the exceptions that WikiSafe
\* names: for any number of editors, texts and versions, and tasks that die, are
\* delivered again, are answered by their key or run beside each other.
THEOREM WikiSafeHolds == WikiSpec => []WikiSafe
<1>1. WikiInit => WikiInv
  <2> SUFFICES ASSUME WikiInit PROVE WikiInv
    OBVIOUS
  <2>1. WikiTypeOK
    <3>1. 0 \in 0..MaxVersion
      BY WikiAssumption
    <3> QED
      BY <3>1 DEF WikiInit, WikiTypeOK, NoPage, NoEdit, NoTask, Text
  <2>2. VersionsTold /\ TextsTold
    BY DEF WikiInit, VersionsTold, TextsTold, NoEdit, EditorAt
  <2>3. IndexDue /\ OneEmbeds
    BY DEF WikiInit, IndexDue, OneEmbeds, Embedding, Wanted, NoPage, NoTask
  <2> QED
    BY <2>1, <2>2, <2>3 DEF WikiInv
<1>2. WikiInv /\ [WikiNext]_wikiVars => WikiInv'
  <2> SUFFICES ASSUME WikiInv, [WikiNext]_wikiVars PROVE WikiInv'
    OBVIOUS
  <2>1. WikiTypeOK'
    BY WikiTypeStep DEF WikiInv
  <2>2. CASE WikiNext
    BY <2>1, <2>2, VersionsStep, TextsStep, IndexStep DEF WikiInv
  <2>3. CASE UNCHANGED wikiVars
    BY <2>1, <2>3 DEF WikiInv, wikiVars, VersionsTold, TextsTold, IndexDue, OneEmbeds, EditorAt,
       Embedding, Wanted
  <2> QED
    BY <2>2, <2>3
<1>3. WikiInv => WikiSafe
  <2> SUFFICES ASSUME WikiInv PROVE WikiSafe
    OBVIOUS
  <2>1. NoLostUpdate
    BY DEF WikiInv, VersionsTold, NoLostUpdate
  <2>2. SearchCatchesUp
    BY DEF WikiInv, IndexDue, SearchCatchesUp, NoTask
  <2> QED
    BY <2>1, <2>2 DEF WikiSafe
<1> QED
  BY <1>1, <1>2, <1>3, PTL DEF WikiSpec

-----------------------------------------------------------------------------
(* IngestProgress.                                                          *)

IngestWorker ==
  [pc : {"idle", "begun", "seed", "add", "sidecar", "record", "check", "done"},
   attempt : Attempts \cup {"none"}, next : 1..(ChunkCount + 1),
   memory : SUBSET (Attempts \X Chunks), unsaved : BOOLEAN, skewed : BOOLEAN,
   then : {"none", "record", "failed", "check"}]

Sidecars == {"none", "fits", "skewed"}

Busy(w) == ~WorkerAt(w, "idle")

\* The index `v` holds the chunks of attempt `a` before `next`, and nothing else but
\* further chunks of it.
Holds(v, a, next) == ({a} \X (1..(next - 1)) \subseteq v) /\ (v \subseteq {a} \X Chunks)

\* No index.faiss stands beside an index.json of another save.
Paired == store = "faiss" => sidecar # "skewed"

\* What is known of a delivery `r` at work: the row is its own or was dropped, is not ahead
\* of it, and the index, or the memory that will be saved, holds what it has embedded.
Told(r) ==
  /\ checkpoint.attempt \in {r.attempt, "none"}
  /\ checkpoint.next <= r.next
  /\ r.unsaved => r.pc \in {"add", "sidecar"} /\ store = "faiss"
  /\ ~r.skewed
  /\ r.pc = "begun" /\ r.next > 1 => Holds(vectors, r.attempt, r.next) /\ Paired
  /\ r.pc = "seed" => /\ store = "faiss" /\ r.next = 1
                      /\ r.memory = {<<r.attempt, 1>>}
  /\ r.pc = "add" => /\ IF store = "table" THEN Holds(vectors, r.attempt, r.next)
                                           ELSE Holds(r.memory, r.attempt, r.next)
                     /\ r.unsaved \/ Paired
  /\ r.pc = "sidecar" => /\ store = "faiss" /\ Holds(vectors, r.attempt, r.next)
                         /\ r.then = "record" => r.memory = vectors
                         /\ r.then = "check" => r.next > ChunkCount
  /\ r.pc = "record" => /\ Holds(vectors, r.attempt, r.next) /\ Paired
                        /\ store = "faiss" => r.memory = vectors
  /\ r.pc \in {"check", "done"} => /\ vectors = {r.attempt} \X Chunks
                                   /\ store = "faiss" => sidecar = "fits"
  /\ ~lapsed => ~checkpoint.stalled

\* A checkpoint tells what the index holds, unless a faiss seed is yet to be saved; its
\* sidecar fits, unless it is about to be written.
RowTold ==
  checkpoint.next > 1 =>
    \/ \E w \in Workers : worker[w].unsaved
    \/ /\ Holds(vectors, checkpoint.attempt, checkpoint.next)
       /\ Paired \/ \E w \in Workers : WorkerAt(w, "sidecar")

IngestBase ==
  /\ IngestTypeOK
  /\ checkpoint.attempt = "none" => checkpoint.next = 1
  /\ \A w \in Workers :
       /\ IF Busy(w) THEN worker[w].attempt \in Attempts ELSE ~worker[w].unsaved
       /\ worker[w].pc = "sidecar" => worker[w].then # "none"

OneIngest ==
  /\ \A v, w \in Workers : Busy(v) /\ Busy(w) => v = w
  /\ \A w \in Workers : Busy(w) => Told(worker[w])
  /\ RowTold

IngestInv == IngestBase /\ (~adrift => OneIngest)

IngestRow ==
  [attempt : Attempts \cup {"none"}, next : 1..(ChunkCount + 1), stalled : BOOLEAN]

LEMMA IngestConstants ==
  /\ ChunkCount \in Nat /\ 1 \in 1..(ChunkCount + 1) /\ 2 \in 1..(ChunkCount + 1)
  /\ Chunks = 1..ChunkCount /\ 1 \in Chunks /\ MaxBatch \in Nat
  /\ OffDuty \in IngestWorker /\ NoCheckpoint \in IngestRow
  /\ OffDuty.pc = "idle" /\ ~OffDuty.unsaved /\ ~OffDuty.skewed
<1>1. /\ ChunkCount \in Nat /\ 1 \in 1..(ChunkCount + 1) /\ 2 \in 1..(ChunkCount + 1)
      /\ Chunks = 1..ChunkCount /\ 1 \in Chunks /\ MaxBatch \in Nat
  BY IngestAssumption DEF Chunks
<1> QED
  BY <1>1 DEF OffDuty, NoCheckpoint, IngestWorker, IngestRow

LEMMA IngestTypes ==
  ASSUME IngestTypeOK
  PROVE  /\ worker \in [Workers -> IngestWorker] /\ checkpoint \in IngestRow
         /\ vectors \subseteq Attempts \X Chunks /\ store \in {"table", "faiss"}
         /\ adrift \in BOOLEAN /\ lapsed \in BOOLEAN /\ sidecar \in Sidecars
         /\ \A w \in Workers : /\ worker[w] \in IngestWorker
                               /\ worker[w].next \in 1..(ChunkCount + 1)
                               /\ worker[w].unsaved \in BOOLEAN
                               /\ worker[w].memory \subseteq Attempts \X Chunks
BY DEF IngestTypeOK, IngestWorker, IngestRow, Sidecars

\* A step of delivery `w` leaves it as `r`.
LEMMA DeliveryBase ==
  ASSUME IngestBase, NEW w \in Workers, NEW r \in IngestWorker,
         worker' = [worker EXCEPT ![w] = r],
         IF r.pc # "idle" THEN r.attempt \in Attempts ELSE ~r.unsaved,
         r.pc = "sidecar" => r.then # "none", sidecar' \in Sidecars,
         checkpoint' \in IngestRow, checkpoint'.attempt = "none" => checkpoint'.next = 1,
         vectors' \subseteq Attempts \X Chunks, UNCHANGED store,
         adrift' \in BOOLEAN, lapsed' \in BOOLEAN
  PROVE  IngestBase'
<1>1. worker' \in [Workers -> IngestWorker]
  BY IngestTypes DEF IngestBase
<1>2. IngestTypeOK'
  BY <1>1, IngestTypes DEF IngestBase, IngestTypeOK, IngestWorker, IngestRow, Sidecars
<1>3. ASSUME NEW v \in Workers
      PROVE  /\ IF Busy(v)' THEN worker'[v].attempt \in Attempts ELSE ~worker'[v].unsaved
             /\ worker'[v].pc = "sidecar" => worker'[v].then # "none"
  <2>1. worker'[v] = IF v = w THEN r ELSE worker[v]
    BY IngestTypes DEF IngestBase
  <2> QED
    BY <2>1 DEF IngestBase, Busy, WorkerAt
<1> QED
  BY <1>2, <1>3 DEF IngestBase

\* While no other is at work, it is enough to tell what `w` leaves.
LEMMA DeliveryAlone ==
  ASSUME IngestBase, NEW w \in Workers, ~OthersBusy(w), NEW r,
         worker' = [worker EXCEPT ![w] = r],
         r.pc # "idle" => Told(r)',
         checkpoint'.next > 1 /\ ~r.unsaved =>
           /\ Holds(vectors', checkpoint'.attempt, checkpoint'.next)
           /\ Paired' \/ r.pc = "sidecar"
  PROVE  OneIngest'
<1>1. worker'[w] = r /\ \A v \in Workers : v # w => worker'[v] = worker[v] /\ ~Busy(v)'
  BY IngestTypes DEF IngestBase, OthersBusy, Busy, WorkerAt
<1>2. \A v \in Workers : Busy(v)' => v = w /\ r.pc # "idle"
  BY <1>1 DEF Busy, WorkerAt
<1>3. \A v \in Workers : Busy(v)' => Told(worker[v])'
  <2>1. \A v \in Workers : Busy(v)' => worker'[v] = r /\ Told(r)'
    BY <1>1, <1>2
  <2> QED
    BY <2>1 DEF Told, Paired
<1>4. RowTold'
  BY <1>1 DEF RowTold, Holds, Paired, WorkerAt
<1> QED
  BY <1>2, <1>3, <1>4 DEF OneIngest

\* A delivery that ends leaves the row as true as it was.
LEMMA DeliveryEnds ==
  ASSUME IngestBase, OneIngest, NEW w \in Workers, Busy(w),
         worker' = [worker EXCEPT ![w] = OffDuty],
         UNCHANGED <<store, checkpoint, vectors, sidecar>>,
         ~worker[w].unsaved, worker[w].pc = "sidecar" => Paired
  PROVE  OneIngest'
<1>1. \A v \in Workers : ~worker[v].unsaved /\ (WorkerAt(v, "sidecar") => v = w)
  BY DEF IngestBase, OneIngest, Busy, WorkerAt
<1>2. checkpoint.next > 1 => /\ Holds(vectors, checkpoint.attempt, checkpoint.next)
                             /\ Paired
  BY <1>1 DEF OneIngest, RowTold, WorkerAt
<1>3. ~OthersBusy(w)
  BY DEF OneIngest, OthersBusy, Busy
<1>4. Paired' = Paired
  BY DEF Paired
<1> QED
  BY <1>2, <1>3, <1>4, DeliveryAlone, IngestConstants

LEMMA WithinChunks ==
  ASSUME NEW k \in Nat \ {0}, NEW n \in Nat, k + n <= ChunkCount + 1
  PROVE  k..(k + n - 1) \subseteq Chunks
BY IngestConstants

LEMMA BatchHolds ==
  ASSUME NEW V, NEW w \in Workers, NEW n \in Nat, worker[w].attempt \in Attempts,
         worker[w].next \in Nat \ {0}, worker[w].next + n <= ChunkCount + 1,
         Holds(V, worker[w].attempt, worker[w].next)
  PROVE  /\ Batch(w, n) \subseteq Attempts \X Chunks
         /\ \A m \in 1..(worker[w].next + n) :
              Holds(V \cup Batch(w, n), worker[w].attempt, m)
<1>1. PICK a, k : a = worker[w].attempt /\ k = worker[w].next
  OBVIOUS
<1>2. k \in Nat \ {0} /\ ChunkCount \in Nat /\ Chunks = 1..ChunkCount
  BY <1>1, IngestConstants
<1>3. Batch(w, n) = {a} \X (k..(k + n - 1))
  BY <1>1 DEF Batch
<1>4. k..(k + n - 1) \subseteq Chunks
  BY <1>1, <1>2, WithinChunks
<1>5. \A m \in 1..(k + n) : 1..(m - 1) \subseteq (1..(k - 1)) \cup (k..(k + n - 1))
  BY <1>2
<1>6. {a} \X (1..(k - 1)) \subseteq V /\ V \subseteq {a} \X Chunks
  BY <1>1 DEF Holds
<1>7. \A m \in 1..(k + n) : {a} \X (1..(m - 1)) \subseteq V \cup Batch(w, n)
  BY <1>3, <1>5, <1>6
<1>8. V \cup Batch(w, n) \subseteq {a} \X Chunks
  BY <1>3, <1>4, <1>6
<1> QED
  BY <1>1, <1>3, <1>4, <1>7, <1>8 DEF Holds

LEMMA FullHolds ==
  ASSUME NEW V, NEW a, NEW k \in Nat, k > ChunkCount, Holds(V, a, k)
  PROVE  V = {a} \X Chunks
<1>1. Chunks \subseteq 1..(k - 1)
  BY IngestConstants
<1> QED
  BY <1>1 DEF Holds

LEMMA LessHolds ==
  ASSUME NEW V, NEW a, NEW k \in Nat, NEW m \in Nat, m <= k, Holds(V, a, k)
  PROVE  Holds(V, a, m)
<1>1. 1..(m - 1) \subseteq 1..(k - 1)
  OBVIOUS
<1> QED
  BY <1>1 DEF Holds

LEMMA BeginStep ==
  ASSUME IngestInv, NEW w \in Workers, NEW a \in Attempts,
         BeginIngest(w, a) \/ BeginUnrecorded(w, a)
  PROVE  IngestInv'
<1>1. IngestBase /\ IngestTypeOK
  BY DEF IngestInv, IngestBase
<1>2. PICK k : \/ BeginIngest(w, a) /\ k = checkpoint'.next
               \/ BeginUnrecorded(w, a) /\ k = 1
  OBVIOUS
<1>3. PICK r : r = [OffDuty EXCEPT !.pc = "begun", !.attempt = a, !.next = k]
  OBVIOUS
<1>4. worker' = [worker EXCEPT ![w] = r] /\ UNCHANGED <<store, vectors, sidecar>>
  BY <1>2, <1>3 DEF BeginIngest, BeginUnrecorded, Begins
<1>5. /\ checkpoint' \in IngestRow /\ (checkpoint'.attempt = "none" => checkpoint'.next = 1)
      /\ k \in 1..(ChunkCount + 1) /\ (BeginIngest(w, a) => checkpoint'.attempt = a)
  <2>1. CASE BeginIngest(w, a)
    <3>1. checkpoint' = [attempt |-> a, stalled |-> FALSE,
                         next |-> IF Resumes(a) THEN checkpoint.next ELSE 1]
      BY <2>1 DEF BeginIngest, Restarted
    <3>2. checkpoint.next \in 1..(ChunkCount + 1)
      BY <1>1, IngestTypes DEF IngestRow
    <3>3. checkpoint' \in IngestRow /\ checkpoint'.attempt = a
      BY <3>1, <3>2, IngestConstants DEF IngestRow
    <3>4. checkpoint'.attempt = "none" => checkpoint'.next = 1
      BY <1>1, <3>1 DEF IngestBase, Resumes
    <3>5. k \in 1..(ChunkCount + 1)
      <4>1. k = checkpoint'.next \/ k = 1
        BY <1>2
      <4>2. checkpoint'.next \in 1..(ChunkCount + 1)
        BY <3>3 DEF IngestRow
      <4> QED
        BY <4>1, <4>2, IngestConstants
    <3> QED
      BY <3>3, <3>4, <3>5
  <2>2. CASE ~BeginIngest(w, a)
    BY <1>1, <1>2, <2>2, IngestTypes, IngestConstants DEF BeginUnrecorded, IngestBase
  <2> QED
    BY <2>1, <2>2
<1>6. /\ r.pc = "begun" /\ r.attempt = a /\ r.next = k /\ ~r.unsaved /\ ~r.skewed
      /\ r \in IngestWorker
  BY <1>3, <1>5, IngestConstants DEF OffDuty, IngestWorker
<1>7. adrift' \in BOOLEAN /\ lapsed' \in BOOLEAN
  BY <1>1, <1>2, IngestTypes DEF BeginIngest, BeginUnrecorded, Resumes, OthersBusy
<1>8. IngestBase'
  BY <1>1, <1>4, <1>5, <1>6, <1>7, IngestTypes, DeliveryBase DEF IngestBase
<1>9. ASSUME ~adrift' PROVE OneIngest'
  <2>1. ~OthersBusy(w) /\ ~Busy(w)
    BY <1>2, <1>9 DEF BeginIngest, BeginUnrecorded, Busy
  <2>2. \A v \in Workers : ~worker[v].unsaved /\ ~WorkerAt(v, "sidecar")
    BY <1>1, <2>1 DEF IngestBase, OthersBusy, Busy, WorkerAt
  <2>3. /\ checkpoint'.attempt \in {a, "none"} /\ checkpoint'.next <= k
        /\ ~checkpoint'.stalled
        /\ k > 1 => Holds(vectors, a, k) /\ Paired
        /\ checkpoint'.next > 1 => k = checkpoint'.next /\ checkpoint'.attempt = a
    <3>1. CASE BeginIngest(w, a)
      <4>1. checkpoint' = [attempt |-> a, stalled |-> FALSE,
                           next |-> IF Resumes(a) THEN checkpoint.next ELSE 1]
        BY <3>1 DEF BeginIngest, Restarted
      <4>2. adrift' = (OthersBusy(w) \/ (adrift /\ Resumes(a)))
        BY <3>1 DEF BeginIngest
      <4>3. CASE k = checkpoint'.next
        <5>1. k > 1 => Resumes(a) /\ ~adrift /\ k = checkpoint.next
          <6>1. CASE Resumes(a)
            <7>1. checkpoint'.next = checkpoint.next
              BY <4>1, <6>1
            <7>2. ~adrift
              BY <1>9, <4>2, <6>1
            <7> QED
              BY <4>3, <6>1, <7>1, <7>2
          <6>2. CASE ~Resumes(a)
            <7>1. checkpoint'.next = 1
              BY <4>1, <6>2
            <7> QED
              BY <4>3, <7>1
          <6> QED
            BY <6>1, <6>2
        <5>2. k > 1 => Holds(vectors, a, k) /\ Paired
          BY <2>2, <5>1 DEF IngestInv, OneIngest, RowTold, Resumes
        <5>3. /\ checkpoint'.attempt = a /\ ~checkpoint'.stalled /\ checkpoint'.next <= k
          BY <1>5, <4>1, <4>3
        <5> QED
          BY <4>3, <5>2, <5>3
      <4>4. CASE k = 1 /\ BeginUnrecorded(w, a)
        <5>1. checkpoint' = NoCheckpoint
          BY <1>9, <4>4 DEF BeginUnrecorded
        <5> QED
          BY <4>4, <5>1 DEF NoCheckpoint
      <4> QED
        BY <1>2, <4>3, <4>4
    <3>2. CASE ~BeginIngest(w, a)
      <4>1. checkpoint' = NoCheckpoint /\ k = 1
        BY <1>2, <1>9, <3>2 DEF BeginUnrecorded
      <4> QED
        BY <4>1 DEF NoCheckpoint
    <3> QED
      BY <3>1, <3>2
  <2>4. Told(r)'
    BY <1>4, <1>6, <2>3 DEF Told, Holds, Paired
  <2>5. checkpoint'.next > 1 =>
          Holds(vectors', checkpoint'.attempt, checkpoint'.next) /\ Paired'
    BY <1>4, <2>3 DEF Paired
  <2> QED
    BY <1>1, <1>4, <2>1, <2>4, <2>5, DeliveryAlone
<1> QED
  BY <1>8, <1>9 DEF IngestInv

LEMMA RecordsType ==
  ASSUME IngestBase, NEW next \in 1..(ChunkCount + 1), Records(next)
  PROVE  /\ checkpoint' \in IngestRow /\ checkpoint'.attempt = checkpoint.attempt
         /\ checkpoint'.attempt = "none" => checkpoint'.next = 1
         /\ checkpoint'.next \in {checkpoint.next, next}
         /\ checkpoint'.stalled = checkpoint.stalled
BY IngestTypes DEF IngestBase, Records, IngestRow

\* A delivery at work moves on as `r`.
LEMMA DeliveryMoves ==
  ASSUME IngestInv, NEW w \in Workers, Busy(w), NEW r \in IngestWorker,
         worker' = [worker EXCEPT ![w] = r], r.pc # "idle",
         r.attempt = worker[w].attempt, r.pc = "sidecar" => r.then # "none",
         sidecar' \in Sidecars,
         checkpoint' \in IngestRow, checkpoint'.attempt = checkpoint.attempt,
         checkpoint'.attempt = "none" => checkpoint'.next = 1,
         vectors' \subseteq Attempts \X Chunks, UNCHANGED <<store, adrift, lapsed>>,
         OneIngest /\ ~adrift =>
           /\ Told(r)'
           /\ ~r.unsaved /\ checkpoint'.next > 1 =>
                /\ Holds(vectors', worker[w].attempt, checkpoint'.next)
                /\ Paired' \/ r.pc = "sidecar"
  PROVE  IngestInv'
<1>1. IngestBase /\ r.attempt \in Attempts
  BY DEF IngestInv, IngestBase
<1>2. IngestBase'
  BY <1>1, IngestTypes, DeliveryBase DEF IngestBase
<1>3. ASSUME ~adrift PROVE OneIngest'
  <2>1. OneIngest
    BY <1>3 DEF IngestInv
  <2>2. ~OthersBusy(w)
    BY <2>1 DEF OneIngest, OthersBusy, Busy
  <2>3. checkpoint'.next > 1 => checkpoint'.attempt = worker[w].attempt
    <3>1. checkpoint.attempt \in {worker[w].attempt, "none"}
      BY <2>1 DEF OneIngest, Told
    <3> QED
      BY <3>1
  <2> QED
    BY <1>1, <1>3, <2>1, <2>2, <2>3, DeliveryAlone
<1> QED
  BY <1>2, <1>3 DEF IngestInv

LEMMA OpenStep ==
  ASSUME IngestInv, NEW w \in Workers, OpenStore(w) PROVE IngestInv'
<1> DEFINE a == worker[w].attempt
           n == worker[w].next
<1>1. IngestBase /\ IngestTypeOK /\ Busy(w) /\ worker[w] \in IngestWorker /\ a \in Attempts
      /\ worker[w].pc = "begun"
  BY IngestTypes DEF IngestInv, IngestBase, OpenStore, Busy, WorkerAt
<1>2. /\ n \in 1..(ChunkCount + 1) /\ checkpoint.next \in 1..(ChunkCount + 1)
      /\ checkpoint \in IngestRow
      /\ ChunkCount \in Nat /\ vectors \subseteq Attempts \X Chunks
      /\ (checkpoint.attempt = "none" => checkpoint.next = 1)
  BY <1>1, IngestTypes, IngestConstants DEF IngestRow, IngestBase
<1>3. ASSUME OneIngest
      PROVE  /\ Told(worker[w]) /\ ~worker[w].unsaved
             /\ checkpoint.next > 1 => Holds(vectors, a, checkpoint.next) /\ Paired
  <2>1. Told(worker[w])
    BY <1>1, <1>3 DEF OneIngest
  <2>2. ~worker[w].unsaved
    BY <1>1, <2>1 DEF Told
  <2>3. \A v \in Workers : ~worker[v].unsaved /\ ~WorkerAt(v, "sidecar")
    BY <1>1, <1>3, <2>2 DEF OneIngest, IngestBase, Busy, WorkerAt
  <2>4. checkpoint.next > 1 => checkpoint.attempt = a
    BY <1>2, <2>1 DEF Told
  <2> QED
    BY <1>3, <2>1, <2>2, <2>3, <2>4 DEF OneIngest, RowTold
<1>4. CASE store = "table"
  <2>1. PICK r : r = [worker[w] EXCEPT !.pc = "add"]
    OBVIOUS
  <2>2. /\ r \in IngestWorker /\ r.pc = "add" /\ r.attempt = a /\ r.next = n
        /\ r.unsaved = worker[w].unsaved /\ r.skewed = worker[w].skewed
    BY <1>1, <2>1 DEF IngestWorker
  <2>3. /\ worker' = [worker EXCEPT ![w] = r]
        /\ UNCHANGED <<store, checkpoint, sidecar, adrift, lapsed>>
        /\ vectors' = IF n = 1 THEN {} ELSE vectors
    BY <1>4, <2>1 DEF OpenStore
  <2>4. ASSUME OneIngest
        PROVE  /\ Told(r)'
               /\ checkpoint'.next > 1 => Holds(vectors', a, checkpoint'.next) /\ Paired'
    <3>1. checkpoint.next <= n
      BY <1>3, <2>4 DEF Told
    <3>2. Holds(vectors', a, n)
      <4>1. CASE n = 1
        BY <2>3, <4>1 DEF Holds
      <4>2. CASE n # 1
        BY <1>1, <1>2, <1>3, <2>3, <2>4, <4>2 DEF Told
      <4> QED
        BY <4>1, <4>2
    <3>3. checkpoint'.next > 1 => Holds(vectors', a, checkpoint'.next) /\ Paired'
      BY <1>2, <1>3, <1>4, <2>3, <2>4, <3>1 DEF Paired
    <3>4. Told(r)'
      BY <1>3, <1>4, <2>2, <2>3, <2>4, <3>2 DEF Told, Holds, Paired
    <3> QED
      BY <3>3, <3>4
  <2>5. vectors' \subseteq Attempts \X Chunks
    BY <1>2, <2>3
  <2> QED
    BY <1>1, <1>2, <2>2, <2>3, <2>4, <2>5, IngestTypes, DeliveryMoves
<1>5. CASE store = "faiss" /\ n = 1
  <2>1. PICK r : r = [worker[w] EXCEPT !.pc = "seed", !.memory = {<<a, 1>>},
                                   !.skewed = FALSE]
    OBVIOUS
  <2>2. {<<a, 1>>} \in SUBSET (Attempts \X Chunks)
    BY <1>1, IngestConstants
  <2>3. /\ r \in IngestWorker /\ r.pc = "seed" /\ r.attempt = a /\ r.next = n
        /\ r.unsaved = worker[w].unsaved /\ r.memory = {<<a, 1>>} /\ ~r.skewed
    BY <1>1, <2>1, <2>2 DEF IngestWorker
  <2>4. /\ worker' = [worker EXCEPT ![w] = r]
        /\ UNCHANGED <<store, checkpoint, vectors, sidecar, adrift, lapsed>>
    BY <1>5, <2>1 DEF OpenStore
  <2>5. ASSUME OneIngest
        PROVE  /\ Told(r)'
               /\ checkpoint'.next > 1 => Holds(vectors', a, checkpoint'.next) /\ Paired'
    BY <1>3, <1>5, <2>3, <2>4, <2>5 DEF Told, Paired
  <2> QED
    BY <1>1, <1>2, <2>3, <2>4, <2>5, IngestTypes, DeliveryMoves
<1>6. CASE store = "faiss" /\ n # 1
  <2>1. PICK r : r = [worker[w] EXCEPT !.pc = "add", !.memory = vectors,
                                   !.skewed = (sidecar = "skewed")]
    OBVIOUS
  <2>2. /\ r \in IngestWorker /\ r.pc = "add" /\ r.attempt = a /\ r.next = n
        /\ r.unsaved = worker[w].unsaved /\ r.memory = vectors
        /\ r.skewed = (sidecar = "skewed")
    BY <1>1, <1>2, <2>1 DEF IngestWorker
  <2>3. /\ worker' = [worker EXCEPT ![w] = r]
        /\ UNCHANGED <<store, checkpoint, vectors, sidecar, adrift, lapsed>>
    BY <1>6, <2>1 DEF OpenStore
  <2>4. ASSUME OneIngest
        PROVE  /\ Told(r)'
               /\ checkpoint'.next > 1 => Holds(vectors', a, checkpoint'.next) /\ Paired'
    <3>1. Holds(vectors, a, n) /\ Paired
      BY <1>1, <1>2, <1>3, <1>6, <2>4 DEF Told
    <3> QED
      BY <1>3, <1>6, <2>2, <2>3, <2>4, <3>1 DEF Told, Holds, Paired
  <2> QED
    BY <1>1, <1>2, <2>2, <2>3, <2>4, IngestTypes, DeliveryMoves
<1>7. store \in {"table", "faiss"}
  BY <1>1, IngestTypes
<1> QED
  BY <1>4, <1>5, <1>6, <1>7

LEMMA SeedStep ==
  ASSUME IngestInv, NEW w \in Workers, RecordSeed(w) PROVE IngestInv'
<1> DEFINE a == worker[w].attempt
<1>1. IngestBase /\ IngestTypeOK /\ Busy(w) /\ worker[w] \in IngestWorker /\ a \in Attempts
      /\ worker[w].pc = "seed" /\ worker[w].next \in Nat /\ checkpoint.next \in Nat
      /\ vectors \subseteq Attempts \X Chunks
  BY IngestTypes, IngestConstants DEF IngestInv, IngestBase, RecordSeed, Busy, WorkerAt,
     IngestRow
<1>2. PICK r : r = [worker[w] EXCEPT !.pc = "add", !.next = 2, !.unsaved = TRUE]
  OBVIOUS
<1>3. /\ r \in IngestWorker /\ r.pc = "add" /\ r.attempt = a /\ r.next = 2
      /\ r.unsaved /\ r.memory = worker[w].memory /\ r.skewed = worker[w].skewed
  BY <1>1, <1>2, IngestConstants DEF IngestWorker
<1>4. /\ worker' = [worker EXCEPT ![w] = r]
      /\ UNCHANGED <<store, vectors, sidecar, adrift, lapsed>>
      /\ Records(2)
  BY <1>2 DEF RecordSeed
<1>5. /\ checkpoint' \in IngestRow /\ checkpoint'.attempt = checkpoint.attempt
      /\ checkpoint'.attempt = "none" => checkpoint'.next = 1
      /\ checkpoint'.next \in {checkpoint.next, 2} /\ checkpoint'.stalled = checkpoint.stalled
  BY <1>1, <1>4, IngestConstants, RecordsType
<1>6. ASSUME OneIngest PROVE Told(r)'
  <2>1. Told(worker[w])
    BY <1>1, <1>6 DEF OneIngest
  <2>2. Holds({<<a, 1>>}, a, 2)
    <3>1. 1..(2 - 1) = {1} /\ 1 \in Chunks
      BY IngestConstants
    <3> QED
      BY <3>1 DEF Holds
  <2>3. store = "faiss" /\ r.memory = {<<a, 1>>} /\ worker[w].next = 1
    BY <1>1, <1>3, <2>1 DEF Told
  <2> QED
    BY <1>1, <1>3, <1>4, <1>5, <2>1, <2>2, <2>3 DEF Told, Holds
<1> QED
  BY <1>1, <1>3, <1>4, <1>5, <1>6, IngestTypes, DeliveryMoves

LEMMA AtWork ==
  ASSUME IngestInv, NEW w \in Workers, Busy(w)
  PROVE  /\ IngestBase /\ IngestTypeOK /\ worker[w] \in IngestWorker
         /\ worker[w].attempt \in Attempts
         /\ worker[w].next \in 1..(ChunkCount + 1) /\ worker[w].next \in Nat \ {0}
         /\ checkpoint \in IngestRow /\ checkpoint.next \in 1..(ChunkCount + 1)
         /\ checkpoint.next \in Nat \ {0}
         /\ checkpoint.attempt = "none" => checkpoint.next = 1
         /\ vectors \subseteq Attempts \X Chunks
         /\ worker[w].memory \subseteq Attempts \X Chunks
         /\ store \in {"table", "faiss"} /\ sidecar \in Sidecars
         /\ OneIngest => Told(worker[w])
<1>1. /\ IngestBase /\ IngestTypeOK /\ worker[w] \in IngestWorker
      /\ worker[w].attempt \in Attempts
      /\ worker[w].next \in 1..(ChunkCount + 1)
      /\ checkpoint \in IngestRow /\ checkpoint.next \in 1..(ChunkCount + 1)
      /\ checkpoint.attempt = "none" => checkpoint.next = 1
      /\ vectors \subseteq Attempts \X Chunks
      /\ worker[w].memory \subseteq Attempts \X Chunks
      /\ store \in {"table", "faiss"} /\ sidecar \in Sidecars
  BY IngestTypes DEF IngestInv, IngestBase, IngestRow
<1>2. worker[w].next \in Nat \ {0} /\ checkpoint.next \in Nat \ {0}
  BY <1>1, IngestConstants
<1>3. OneIngest => Told(worker[w])
  BY DEF OneIngest
<1> QED
  BY <1>1, <1>2, <1>3

\* The first file of a save.
LEMMA RowsStep ==
  ASSUME IngestInv, NEW w \in Workers, WorkerAt(w, "add"), store # "table",
         NEW then \in {"record", "failed", "check"}, NEW m \in Nat,
         NEW next \in 1..(ChunkCount + 1), worker[w].next <= next,
         next <= worker[w].next + m, then = "check" => next > ChunkCount,
         SaveRows(w, then, next, m), UNCHANGED <<store, checkpoint, adrift, lapsed>>
  PROVE  IngestInv'
<1> DEFINE a == worker[w].attempt
           k == worker[w].next
           all == worker[w].memory \cup Batch(w, m)
<1>1. /\ Busy(w) /\ worker[w].pc = "add" /\ k + m <= ChunkCount + 1
      /\ vectors' = all
  BY DEF SaveRows, Busy, WorkerAt
<1>2. PICK r : r = [worker[w] EXCEPT !.pc = "sidecar", !.then = then, !.next = next,
                      !.memory = IF then = "record" THEN all ELSE {}]
  OBVIOUS
<1>3. worker' = [worker EXCEPT ![w] = r] /\ sidecar' \in {sidecar, "skewed"}
  BY <1>2 DEF SaveRows
<1>4. k \in Nat \ {0} /\ next \in Nat /\ ChunkCount \in Nat
  BY <1>1, AtWork, IngestConstants
<1>5. Batch(w, m) \subseteq Attempts \X Chunks
  <2>1. k..(k + m - 1) \subseteq Chunks
    BY <1>1, <1>4, WithinChunks
  <2> QED
    BY <1>1, <2>1, AtWork DEF Batch
<1>6. all \subseteq Attempts \X Chunks
  BY <1>1, <1>5, AtWork
<1>7. /\ r \in IngestWorker /\ r.pc = "sidecar" /\ r.attempt = a /\ r.next = next
      /\ r.then = then /\ r.unsaved = worker[w].unsaved /\ r.skewed = worker[w].skewed
      /\ then = "record" => r.memory = all
  <2>1. worker[w] \in IngestWorker
    BY <1>1, AtWork
  <2>2. (IF then = "record" THEN all ELSE {}) \in SUBSET (Attempts \X Chunks)
    BY <1>6
  <2> QED
    BY <1>2, <2>1, <2>2 DEF IngestWorker
<1>8. ASSUME OneIngest
      PROVE  Told(r)' /\ Holds(vectors', a, checkpoint'.next)
  <2>1. Told(worker[w]) /\ checkpoint.next <= k /\ checkpoint.next \in Nat \ {0}
    BY <1>1, <1>8, AtWork DEF Told
  <2>2. Holds(worker[w].memory, a, k) /\ store = "faiss"
    BY <1>1, <2>1, AtWork DEF Told
  <2>3. \A n \in 1..(k + m) : Holds(all, a, n)
    BY <1>1, <1>4, <2>2, AtWork, BatchHolds
  <2>4. /\ checkpoint.next \in 1..(k + m) /\ next \in 1..(k + m)
        /\ checkpoint.next <= next
    BY <1>4, <2>1
  <2>5. Holds(vectors', a, checkpoint'.next) /\ Holds(vectors', a, next)
    BY <1>1, <2>3, <2>4
  <2>6. Told(r)'
    BY <1>1, <1>7, <2>1, <2>2, <2>4, <2>5 DEF Told
  <2> QED
    BY <2>5, <2>6
<1>9. sidecar' \in Sidecars
  BY <1>1, <1>3, AtWork DEF Sidecars
<1> QED
  BY <1>1, <1>3, <1>6, <1>7, <1>8, <1>9, AtWork, DeliveryMoves

\* The rest of the files.
LEMMA SidecarStep ==
  ASSUME IngestInv, NEW w \in Workers, SaveSidecar(w) PROVE IngestInv'
<1> DEFINE a == worker[w].attempt
           k == worker[w].next
<1>1. /\ Busy(w) /\ worker[w].pc = "sidecar" /\ sidecar' \in {"skewed", "fits"}
      /\ ~worker[w].skewed => sidecar' = "fits"
      /\ UNCHANGED <<store, checkpoint, vectors, adrift, lapsed>>
  BY DEF SaveSidecar, Busy, WorkerAt
<1>2. sidecar' \in Sidecars /\ k \in Nat /\ checkpoint.next \in Nat
  BY <1>1, AtWork DEF Sidecars
<1>3. ASSUME OneIngest
      PROVE  /\ Told(worker[w]) /\ Paired' /\ sidecar' = "fits"
             /\ Holds(vectors, a, k) /\ Holds(vectors, a, checkpoint.next)
  <2>1. Told(worker[w])
    BY <1>1, <1>3, AtWork
  <2>2. Holds(vectors, a, k) /\ checkpoint.next <= k /\ sidecar' = "fits"
    BY <1>1, <2>1 DEF Told
  <2>3. Holds(vectors, a, checkpoint.next)
    BY <1>2, <2>2, LessHolds
  <2> QED
    BY <2>1, <2>2, <2>3 DEF Paired
<1>4. CASE worker[w].then = "failed"
  <2>1. worker' = [worker EXCEPT ![w] = OffDuty]
    BY <1>4 DEF SaveSidecar
  <2>2. IngestBase'
    BY <1>1, <1>2, <2>1, AtWork, IngestTypes, IngestConstants, DeliveryBase DEF IngestBase
  <2>3. ASSUME ~adrift' PROVE OneIngest'
    <3>1. OneIngest
      BY <1>1, <2>3 DEF IngestInv
    <3>2. ~OthersBusy(w)
      BY <1>1, <3>1 DEF OneIngest, OthersBusy, Busy
    <3>3. checkpoint.next > 1 => checkpoint.attempt = a
      BY <1>1, <1>3, <3>1, AtWork DEF Told
    <3> QED
      BY <1>1, <1>3, <2>1, <3>1, <3>2, <3>3, AtWork, IngestConstants, DeliveryAlone
  <2> QED
    BY <2>2, <2>3 DEF IngestInv
<1>5. CASE worker[w].then # "failed"
  <2>1. PICK r : r = [worker[w] EXCEPT !.pc = worker[w].then, !.then = "none",
                                      !.unsaved = FALSE]
    OBVIOUS
  <2>2. worker' = [worker EXCEPT ![w] = r]
    BY <1>5, <2>1 DEF SaveSidecar
  <2>3. worker[w].then \in {"record", "check"}
    BY <1>1, <1>5, AtWork DEF IngestBase, IngestWorker
  <2>4. /\ r \in IngestWorker /\ r.pc = worker[w].then /\ r.attempt = a /\ r.next = k
        /\ ~r.unsaved /\ r.skewed = worker[w].skewed /\ r.memory = worker[w].memory
    BY <1>1, <2>1, <2>3, AtWork DEF IngestWorker
  <2>5. ASSUME OneIngest PROVE Told(r)'
    <3>1. worker[w].then = "check" => vectors = {a} \X Chunks
      BY <1>1, <1>2, <1>3, <2>5, FullHolds DEF Told
    <3> QED
      BY <1>1, <1>3, <2>3, <2>4, <2>5, <3>1 DEF Told
  <2> QED
    BY <1>1, <1>2, <1>3, <2>2, <2>3, <2>4, <2>5, AtWork, DeliveryMoves
<1> QED
  BY <1>4, <1>5

LEMMA AddStep ==
  ASSUME IngestInv, NEW w \in Workers, NEW n \in 1..MaxBatch, AddBatch(w, n)
  PROVE  IngestInv'
<1> DEFINE a == worker[w].attempt
           k == worker[w].next
           all == vectors \cup Batch(w, n)
<1>1. /\ Busy(w) /\ worker[w].pc = "add" /\ WorkerAt(w, "add")
      /\ k + n <= ChunkCount + 1
  BY DEF AddBatch, Busy, WorkerAt
<1>2. n \in Nat /\ k \in Nat \ {0} /\ k + n \in 1..(ChunkCount + 1)
  <2>1. n \in Nat /\ k \in Nat \ {0} /\ ChunkCount \in Nat
    BY <1>1, AtWork, IngestConstants
  <2> QED
    BY <1>1, <2>1
<1>3. CASE store = "table"
  <2>1. PICK r : r = [worker[w] EXCEPT !.pc = "record", !.next = @ + n]
    OBVIOUS
  <2>2. /\ worker' = [worker EXCEPT ![w] = r] /\ vectors' = all
        /\ UNCHANGED <<store, checkpoint, sidecar, adrift, lapsed>>
    BY <1>3, <2>1 DEF AddBatch
  <2>3. Batch(w, n) \subseteq Attempts \X Chunks
    <3>1. k..(k + n - 1) \subseteq Chunks
      BY <1>1, <1>2, WithinChunks
    <3> QED
      BY <1>1, <3>1, AtWork DEF Batch
  <2>4. all \subseteq Attempts \X Chunks
    BY <1>1, <2>3, AtWork
  <2>5. /\ r \in IngestWorker /\ r.pc = "record" /\ r.attempt = a /\ r.next = k + n
        /\ r.unsaved = worker[w].unsaved /\ r.skewed = worker[w].skewed
    BY <1>1, <1>2, <2>1, AtWork DEF IngestWorker
  <2>6. ASSUME OneIngest
        PROVE  Told(r)' /\ Holds(vectors', a, checkpoint'.next)
    <3>1. Told(worker[w]) /\ checkpoint.next <= k /\ checkpoint.next \in Nat \ {0}
      BY <1>1, <2>6, AtWork DEF Told
    <3>2. Holds(vectors, a, k)
      BY <1>1, <1>3, <3>1 DEF Told
    <3>3. \A m \in 1..(k + n) : Holds(all, a, m)
      BY <1>1, <1>2, <3>2, AtWork, BatchHolds
    <3>4. /\ checkpoint.next \in 1..(k + n) /\ k + n \in 1..(k + n)
          /\ checkpoint.next <= k + n
      BY <1>2, <3>1
    <3>5. Holds(vectors', a, checkpoint'.next) /\ Holds(vectors', a, k + n)
      BY <2>2, <3>3, <3>4
    <3>6. Told(r)'
      BY <1>1, <1>3, <2>2, <2>5, <3>1, <3>4, <3>5 DEF Told, Paired
    <3> QED
      BY <3>5, <3>6
  <2>7. Paired'
    BY <1>3, <2>2 DEF Paired
  <2> QED
    BY <1>1, <2>2, <2>4, <2>5, <2>6, <2>7, AtWork, DeliveryMoves
<1>4. CASE store # "table"
  <2>1. PICK m \in n..MaxBatch : SaveRows(w, "record", k + n, m)
    BY <1>4 DEF AddBatch
  <2>2. m \in Nat /\ k <= k + n /\ k + n <= k + m
    <3>1. m \in Nat /\ n <= m
      BY <1>2, <2>1, IngestConstants
    <3> QED
      BY <1>2, <3>1
  <2>3. UNCHANGED <<store, checkpoint, adrift, lapsed>>
    BY DEF AddBatch
  <2> QED
    BY <1>1, <1>2, <1>4, <2>1, <2>2, <2>3, RowsStep
<1> QED
  BY <1>3, <1>4

LEMMA RecordStep ==
  ASSUME IngestInv, NEW w \in Workers, RecordBatch(w) PROVE IngestInv'
<1> DEFINE a == worker[w].attempt
           k == worker[w].next
<1>1. Busy(w) /\ worker[w].pc = "record"
  BY DEF RecordBatch, Busy, WorkerAt
<1>2. PICK r : r = [worker[w] EXCEPT !.pc = "add"]
  OBVIOUS
<1>3. /\ worker' = [worker EXCEPT ![w] = r]
      /\ UNCHANGED <<store, vectors, sidecar, adrift, lapsed>>
      /\ Records(k)
  BY <1>2 DEF RecordBatch
<1>4. /\ r \in IngestWorker /\ r.pc = "add" /\ r.attempt = a /\ r.next = k
      /\ r.unsaved = worker[w].unsaved /\ r.memory = worker[w].memory
      /\ r.skewed = worker[w].skewed
  BY <1>1, <1>2, AtWork DEF IngestWorker
<1>5. /\ checkpoint' \in IngestRow /\ checkpoint'.attempt = checkpoint.attempt
      /\ checkpoint'.attempt = "none" => checkpoint'.next = 1
      /\ checkpoint'.next \in {checkpoint.next, k} /\ checkpoint'.stalled = checkpoint.stalled
  BY <1>1, <1>3, AtWork, RecordsType
<1>6. ASSUME OneIngest
      PROVE  Told(r)' /\ Holds(vectors', a, checkpoint'.next) /\ Paired'
  <2>1. Told(worker[w]) /\ k \in Nat /\ checkpoint.next \in Nat
    BY <1>1, <1>6, AtWork
  <2>2. /\ Holds(vectors, a, k) /\ (store = "faiss" => worker[w].memory = vectors)
        /\ ~worker[w].unsaved /\ checkpoint.next <= k /\ Paired
    BY <1>1, <2>1 DEF Told
  <2>3. checkpoint'.next \in Nat /\ checkpoint'.next <= k
    BY <1>5, <2>1, <2>2
  <2>4. Holds(vectors', a, checkpoint'.next)
    BY <1>3, <2>1, <2>2, <2>3, LessHolds
  <2>5. store \in {"table", "faiss"}
    BY <1>1, AtWork, IngestTypes
  <2>6. Paired'
    BY <1>3, <2>2 DEF Paired
  <2>7. Told(r)'
    BY <1>3, <1>4, <1>5, <2>1, <2>2, <2>3, <2>5, <2>6 DEF Told, Holds
  <2> QED
    BY <2>4, <2>6, <2>7
<1> QED
  BY <1>1, <1>3, <1>4, <1>5, <1>6, AtWork, DeliveryMoves

\* A delivery ends, and with it what nobody can know any more.
LEMMA OffDutyStep ==
  ASSUME IngestInv, NEW w \in Workers, Busy(w),
         worker' = [worker EXCEPT ![w] = OffDuty],
         UNCHANGED <<store, checkpoint, vectors, sidecar, lapsed>>,
         adrift' \in BOOLEAN, adrift => adrift',
         Told(worker[w]) /\ ~adrift' =>
           ~worker[w].unsaved /\ (worker[w].pc = "sidecar" => Paired)
  PROVE  IngestInv'
<1>1. IngestBase'
  BY AtWork, IngestTypes, IngestConstants, DeliveryBase DEF IngestBase
<1>2. ASSUME ~adrift' PROVE OneIngest'
  <2>1. OneIngest /\ Told(worker[w])
    BY <1>2, AtWork DEF IngestInv
  <2>2. ~worker[w].unsaved /\ (worker[w].pc = "sidecar" => Paired)
    BY <1>2, <2>1
  <2> QED
    BY <2>1, <2>2, AtWork, DeliveryEnds
<1> QED
  BY <1>1, <1>2 DEF IngestInv

LEMMA EmbedFailsStep ==
  ASSUME IngestInv, NEW w \in Workers, EmbedFails(w) PROVE IngestInv'
<1>1. /\ Busy(w) /\ WorkerAt(w, "add") /\ worker[w].pc = "add"
      /\ UNCHANGED <<store, checkpoint, adrift, lapsed>>
  BY DEF EmbedFails, Busy, WorkerAt
<1>2. CASE store = "table"
  <2>1. /\ worker' = [worker EXCEPT ![w] = OffDuty] /\ UNCHANGED <<vectors, sidecar>>
    BY <1>2 DEF EmbedFails
  <2>2. Told(worker[w]) => ~worker[w].unsaved
    BY <1>2 DEF Told
  <2> QED
    BY <1>1, <2>1, <2>2, AtWork, IngestTypes, OffDutyStep
<1>3. CASE store # "table"
  <2>1. PICK n \in 0..MaxBatch : SaveRows(w, "failed", worker[w].next, n)
    BY <1>3 DEF EmbedFails
  <2>2. /\ n \in Nat /\ worker[w].next \in 1..(ChunkCount + 1)
        /\ worker[w].next <= worker[w].next /\ worker[w].next <= worker[w].next + n
    BY <1>1, AtWork, IngestConstants
  <2> QED
    BY <1>1, <1>3, <2>1, <2>2, RowsStep
<1> QED
  BY <1>2, <1>3

LEMMA AllInStep ==
  ASSUME IngestInv, NEW w \in Workers, AllIn(w) PROVE IngestInv'
<1> DEFINE a == worker[w].attempt
           k == worker[w].next
<1>1. /\ Busy(w) /\ WorkerAt(w, "add") /\ worker[w].pc = "add" /\ k > ChunkCount
      /\ UNCHANGED <<store, checkpoint, adrift, lapsed>>
  BY DEF AllIn, Busy, WorkerAt
<1>2. k \in 1..(ChunkCount + 1) /\ k \in Nat /\ checkpoint.next \in Nat
  BY <1>1, AtWork
<1>3. CASE store = "table"
  <2>1. PICK r : r = [worker[w] EXCEPT !.pc = "check"]
    OBVIOUS
  <2>2. /\ worker' = [worker EXCEPT ![w] = r] /\ UNCHANGED <<vectors, sidecar>>
    BY <1>3, <2>1 DEF AllIn
  <2>3. /\ r \in IngestWorker /\ r.pc = "check" /\ r.attempt = a /\ r.next = k
        /\ r.unsaved = worker[w].unsaved /\ r.skewed = worker[w].skewed
    BY <1>1, <2>1, AtWork DEF IngestWorker
  <2>4. ASSUME OneIngest
        PROVE  Told(r)' /\ Holds(vectors', a, checkpoint'.next) /\ Paired'
    <3>1. Told(worker[w])
      BY <1>1, <2>4, AtWork
    <3>2. Holds(vectors, a, k) /\ checkpoint.next <= k /\ ~worker[w].unsaved
      BY <1>1, <1>3, <3>1 DEF Told
    <3>3. Holds(vectors', a, checkpoint'.next)
      BY <1>1, <1>2, <2>2, <3>2, LessHolds
    <3>4. vectors' = {a} \X Chunks
      BY <1>1, <1>2, <2>2, <3>2, FullHolds
    <3>5. Told(r)'
      BY <1>1, <1>3, <2>2, <2>3, <3>1, <3>2, <3>4 DEF Told
    <3>6. Paired'
      BY <1>1, <1>3 DEF Paired
    <3> QED
      BY <3>3, <3>5, <3>6
  <2> QED
    BY <1>1, <2>2, <2>3, <2>4, AtWork, DeliveryMoves
<1>4. CASE store # "table"
  <2>1. SaveRows(w, "check", k, 0)
    BY <1>4 DEF AllIn
  <2>2. 0 \in Nat /\ k <= k /\ k <= k + 0
    BY <1>2
  <2> QED
    BY <1>1, <1>2, <1>4, <2>1, <2>2, RowsStep
<1> QED
  BY <1>3, <1>4

LEMMA CheckStep ==
  ASSUME IngestInv, NEW w \in Workers, CheckComplete(w) PROVE IngestInv'
<1>1. /\ Busy(w) /\ worker[w].pc = "check"
      /\ UNCHANGED <<store, checkpoint, vectors, sidecar, adrift, lapsed>>
  BY DEF CheckComplete, Busy, WorkerAt
<1>2. CASE worker' = [worker EXCEPT ![w] = OffDuty]
  <2>1. Told(worker[w]) => ~worker[w].unsaved
    BY <1>1 DEF Told
  <2> QED
    BY <1>1, <1>2, <2>1, AtWork, IngestTypes, OffDutyStep
<1>3. CASE worker' = [worker EXCEPT ![w].pc = "done"]
  <2>1. PICK r : r = [worker[w] EXCEPT !.pc = "done"]
    OBVIOUS
  <2>2. worker' = [worker EXCEPT ![w] = r]
    BY <1>3, <2>1
  <2>3. /\ r \in IngestWorker /\ r.pc = "done" /\ r.attempt = worker[w].attempt
        /\ r.next = worker[w].next /\ r.unsaved = worker[w].unsaved
        /\ r.skewed = worker[w].skewed
    BY <1>1, <2>1, AtWork DEF IngestWorker
  <2>4. ASSUME OneIngest
        PROVE  /\ Told(r)'
               /\ checkpoint'.next > 1 =>
                    Holds(vectors', worker[w].attempt, checkpoint'.next) /\ Paired'
    <3>1. Told(worker[w])
      BY <1>1, <2>4, AtWork
    <3>2. /\ vectors' = {worker[w].attempt} \X Chunks /\ Paired'
      BY <1>1, <3>1 DEF Told, Paired
    <3>3. Told(r)'
      BY <1>1, <2>3, <3>1, <3>2 DEF Told
    <3>4. 1..(checkpoint'.next - 1) \subseteq Chunks
      <4>1. checkpoint.next \in 1..(ChunkCount + 1)
        BY <1>1, AtWork
      <4> QED
        BY <1>1, <4>1, IngestConstants
    <3> QED
      BY <3>2, <3>3, <3>4 DEF Holds
  <2> QED
    BY <1>1, <2>2, <2>3, <2>4, AtWork, DeliveryMoves
<1> QED
  BY <1>2, <1>3 DEF CheckComplete

LEMMA EndSteps ==
  ASSUME IngestInv, NEW w \in Workers, Returns(w) \/ IngestDies(w) \/ NoFile(w)
  PROVE  IngestInv'
<1>1. /\ Busy(w) /\ worker' = [worker EXCEPT ![w] = OffDuty]
      /\ UNCHANGED <<store, checkpoint, vectors, sidecar, lapsed>>
  BY DEF Returns, IngestDies, NoFile, GivesUp, Busy, WorkerAt
<1>2. adrift \in BOOLEAN /\ worker[w].unsaved \in BOOLEAN
  BY <1>1, AtWork, IngestTypes
<1>3. CASE Returns(w)
  <2>1. worker[w].pc = "done" /\ adrift' = adrift
    BY <1>3 DEF Returns, WorkerAt
  <2>2. Told(worker[w]) => ~worker[w].unsaved
    BY <2>1 DEF Told
  <2> QED
    BY <1>1, <1>2, <2>1, <2>2, OffDutyStep
<1>4. CASE IngestDies(w) \/ NoFile(w)
  <2>1. adrift' = (adrift \/ worker[w].unsaved
                   \/ (worker[w].pc = "sidecar" /\ sidecar = "skewed"))
    BY <1>4 DEF IngestDies, NoFile, GivesUp, WorkerAt
  <2>2. ~adrift' => ~worker[w].unsaved /\ (worker[w].pc = "sidecar" => Paired)
    BY <2>1 DEF Paired
  <2>3. adrift' \in BOOLEAN
    BY <1>2, <2>1
  <2> QED
    BY <1>1, <1>2, <2>1, <2>2, <2>3, OffDutyStep
<1> QED
  BY <1>3, <1>4

LEMMA SweepIngestStep ==
  ASSUME IngestInv, SweepIngest PROVE IngestInv'
<1>1. /\ UNCHANGED <<store, vectors, sidecar, worker, adrift>>
      /\ checkpoint' = [checkpoint EXCEPT !.stalled = TRUE]
      /\ lapsed' = \E w \in Workers : Busy(w)
  BY DEF SweepIngest, Busy
<1>2. IngestBase /\ IngestTypeOK
  BY DEF IngestInv, IngestBase
<1>3. /\ checkpoint \in IngestRow /\ checkpoint' \in IngestRow
      /\ checkpoint'.attempt = checkpoint.attempt /\ checkpoint'.next = checkpoint.next
      /\ lapsed' \in BOOLEAN
  BY <1>1, <1>2, IngestTypes DEF IngestRow
<1>4. IngestBase'
  BY <1>1, <1>2, <1>3, IngestTypes
     DEF IngestBase, IngestTypeOK, IngestRow, Busy, WorkerAt
<1>5. ASSUME OneIngest PROVE OneIngest'
  <2>1. ASSUME NEW w \in Workers, Busy(w) PROVE Told(worker[w])'
    <3>1. lapsed'
      BY <1>1, <2>1
    <3>2. Told(worker[w])
      BY <1>5, <2>1 DEF OneIngest
    <3> QED
      BY <1>1, <1>3, <3>1, <3>2 DEF Told, Holds, Paired
  <2>2. RowTold'
    BY <1>1, <1>3, <1>5 DEF OneIngest, RowTold, Holds, Paired, WorkerAt
  <2> QED
    BY <1>1, <1>5, <2>1, <2>2 DEF OneIngest, Busy, WorkerAt
<1> QED
  BY <1>1, <1>4, <1>5 DEF IngestInv

LEMMA DropStep ==
  ASSUME IngestInv, DropCheckpoint PROVE IngestInv'
<1>1. /\ UNCHANGED <<store, vectors, sidecar, worker, lapsed>> /\ checkpoint' = NoCheckpoint
      /\ adrift' = (adrift /\ \E w \in Workers : Busy(w))
  BY DEF DropCheckpoint, Busy
<1>2. IngestBase /\ IngestTypeOK
  BY DEF IngestInv, IngestBase
<1>3. /\ checkpoint' \in IngestRow /\ checkpoint'.attempt = "none" /\ checkpoint'.next = 1
      /\ ~checkpoint'.stalled /\ adrift \in BOOLEAN /\ adrift' \in BOOLEAN
  <2>1. checkpoint' \in IngestRow /\ adrift \in BOOLEAN
    BY <1>1, <1>2, IngestConstants, IngestTypes
  <2>2. adrift' \in BOOLEAN
    BY <1>1
  <2> QED
    BY <1>1, <2>1, <2>2 DEF NoCheckpoint
<1>4. IngestBase'
  BY <1>1, <1>2, <1>3, IngestTypes
     DEF IngestBase, IngestTypeOK, IngestRow, Busy, WorkerAt
<1>5. ASSUME ~adrift' PROVE OneIngest'
  <2>1. RowTold'
    BY <1>3 DEF RowTold
  <2>2. CASE \A w \in Workers : ~Busy(w)
    BY <1>1, <2>1, <2>2 DEF OneIngest, Busy, WorkerAt
  <2>3. CASE \E w \in Workers : Busy(w)
    <3>1. OneIngest
      BY <1>1, <1>5, <2>3 DEF IngestInv
    <3>2. ASSUME NEW w \in Workers, Busy(w) PROVE Told(worker[w])'
      <4>1. Told(worker[w]) /\ worker[w].next \in 1..(ChunkCount + 1)
        BY <1>2, <3>1, <3>2, IngestTypes DEF OneIngest
      <4>2. 1 <= worker[w].next
        BY <4>1, IngestConstants
      <4> QED
        BY <1>1, <1>3, <4>1, <4>2 DEF Told, Holds, Paired
    <3> QED
      BY <1>1, <2>1, <3>1, <3>2 DEF OneIngest, Busy, WorkerAt
  <2> QED
    BY <2>2, <2>3
<1> QED
  BY <1>4, <1>5 DEF IngestInv

LEMMA IngestSame ==
  ASSUME IngestInv, UNCHANGED ingestVars PROVE IngestInv'
BY DEF ingestVars, IngestInv, IngestBase, IngestTypeOK, OneIngest, RowTold, Told, Holds,
       Paired, Busy, WorkerAt

LEMMA IngestStep ==
  ASSUME IngestInv, [IngestNext]_ingestVars PROVE IngestInv'
<1>1. ASSUME NEW w \in Workers, WorkerStep(w) PROVE IngestInv'
  <2>1. CASE \E a \in Attempts : BeginIngest(w, a) \/ BeginUnrecorded(w, a)
    BY <2>1, BeginStep
  <2>2. CASE \E n \in 1..MaxBatch : AddBatch(w, n)
    BY <2>2, AddStep
  <2> QED
    BY <1>1, <2>1, <2>2, OpenStep, SeedStep, RecordStep, EmbedFailsStep, AllInStep,
       SidecarStep, CheckStep, EndSteps DEF WorkerStep
<1> QED
  BY <1>1, SweepIngestStep, DropStep, IngestSame DEF IngestNext

LEMMA IngestStart ==
  ASSUME IngestInit PROVE IngestInv
<1>1. worker = [w \in Workers |-> OffDuty] /\ checkpoint = NoCheckpoint
      /\ vectors = {} /\ store \in {"table", "faiss"} /\ ~adrift /\ adrift = FALSE
      /\ lapsed = FALSE /\ sidecar = "none"
  BY DEF IngestInit
<1>2. \A w \in Workers : ~Busy(w) /\ ~worker[w].unsaved /\ worker[w].pc = "idle"
  BY <1>1, IngestConstants DEF Busy, WorkerAt
<1>3. worker \in [Workers -> IngestWorker] /\ checkpoint \in IngestRow
  BY <1>1, IngestConstants
<1>4. checkpoint.next = 1
  BY <1>1 DEF NoCheckpoint
<1>5. IngestTypeOK
  BY <1>1, <1>3 DEF IngestTypeOK, IngestWorker, IngestRow
<1> QED
  BY <1>2, <1>4, <1>5 DEF IngestInv, IngestBase, OneIngest, RowTold

\* A task that reports success has all its chunks in the index, with a sidecar of the same
\* save, and its source is not shown as failed.
THEOREM IngestSafeHolds == IngestSpec => []IngestSafe
<1>1. IngestInv => IngestSafe
  <2> SUFFICES ASSUME IngestInv, NEW w \in Workers, WorkerAt(w, "done"), ~adrift
               PROVE  /\ vectors = {worker[w].attempt} \X Chunks
                      /\ store = "faiss" => sidecar = "fits"
                      /\ ~lapsed => ~checkpoint.stalled
    BY DEF IngestSafe, IndexComplete, NotShownFailed
  <2>1. Told(worker[w]) /\ worker[w].pc = "done"
    BY DEF IngestInv, OneIngest, Busy, WorkerAt
  <2> QED
    BY <2>1 DEF Told
<1> QED
  BY <1>1, IngestStart, IngestStep, PTL DEF IngestSpec
=============================================================================
