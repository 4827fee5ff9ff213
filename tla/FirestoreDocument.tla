-------------------------- MODULE FirestoreDocument --------------------------
(***************************************************************************)
(* Documents and mutations as the Firestore client keeps them.  A document *)
(* carries the version at which the server stored it (0 for none) and how  *)
(* much of it the server has confirmed.  The app writes all fields of a    *)
(* document at once, so a content is the number of the write it is from.   *)
(***************************************************************************)
EXTENDS Naturals, Sequences

Document(Content) ==
    [type : {"invalid", "found", "none", "unknown"}, content : Content \cup {0},
     version : Nat, state : {"synced", "local", "committed"}]

Invalid == [type |-> "invalid", content |-> 0, version |-> 0, state |-> "synced"]

FoundDocument(content, version, state) ==
    [type |-> "found", content |-> content, version |-> version, state |-> state]

NoDocument(version, state) ==
    [type |-> "none", content |-> 0, version |-> version, state |-> state]

\* update has the precondition that the document exists, set and delete have none.
IsValidFor(m, d) == m.op = "update" => d.type = "found"

\* ApplyToLocalView: mutation m that the server has not answered yet.
ApplyToLocalView(m, d) ==
    IF ~ IsValidFor(m, d) THEN d
    ELSE IF m.op = "delete" THEN NoDocument(0, "synced")
    ELSE FoundDocument(m.no, IF d.type = "found" THEN d.version ELSE 0, "local")

\* ApplyToRemoteDocument: the server has committed m at this version.
ApplyToRemoteDocument(m, d, version) ==
    IF ~ IsValidFor(m, d)
    THEN [type |-> "unknown", content |-> 0, version |-> version, state |-> "committed"]
    ELSE IF m.op = "delete" THEN NoDocument(version, "committed")
    ELSE FoundDocument(m.no, version, "committed")

\* LocalDocumentsView::GetDocument: document d of key k under the batches q.
GetDocument(d, q, k) ==
    LET local[i \in 0 .. Len(q)] ==
            IF i = 0 THEN d
            ELSE IF q[i].key = k THEN ApplyToLocalView(q[i], local[i - 1])
            ELSE local[i - 1]
    IN  local[Len(q)]
=============================================================================
