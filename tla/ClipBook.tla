------------------------------ MODULE ClipBook ------------------------------
(***************************************************************************)
(* What the clip store of one event promises (clipstore.py, editorial.py): *)
(* a clip is its identity and not the name of its directory.  It has at    *)
(* most one record and one editorial layer; deriving the record anew never *)
(* touches the editorial layer, and only a human takes a clip away.        *)
(***************************************************************************)
CONSTANTS
  Clips,    \* identities of clips
  Records,  \* what can be known of a clip
  Edits,    \* what an operator can decide about a clip
  None

VARIABLES
  record,  \* of each clip, or None
  edit,    \* of each clip that has a record, or None
  filed    \* per clip, the decisions that lie in directories of its identity

bookVars == <<record, edit, filed>>

BookInit ==
  /\ record = [c \in Clips |-> None]
  /\ edit = [c \in Clips |-> None]
  /\ filed = [c \in Clips |-> {}]

\* A harvest or a pick.  A clip that comes back may find what was decided
\* about it before, and nothing that was decided about another.
Derive(c, r) ==
  /\ record' = [record EXCEPT ![c] = r]
  /\ IF record[c] # None
     THEN UNCHANGED edit
     ELSE \E e \in filed[c] \cup {None} : edit' = [edit EXCEPT ![c] = e]
  /\ UNCHANGED filed

\* The operator decides.  What was decided for a clip that has gone since is
\* filed and has no effect.
Decide(c, e) ==
  /\ UNCHANGED record
  /\ edit' \in {edit, [edit EXCEPT ![c] = e]}
  /\ record[c] = None => UNCHANGED edit
  /\ \E kept \in SUBSET filed[c] : filed' = [filed EXCEPT ![c] = kept \cup {e}]

\* A human takes the record or a whole directory away, or spoils it.
Withdraw(c) ==
  /\ \/ UNCHANGED <<record, edit>>
     \/ /\ record' = [record EXCEPT ![c] = None]
        /\ edit' = [edit EXCEPT ![c] = None]
  /\ \E kept \in SUBSET filed[c] : filed' = [filed EXCEPT ![c] = kept]

BookNext ==
  \E c \in Clips :
    \/ \E r \in Records : Derive(c, r)
    \/ \E e \in Edits : Decide(c, e)
    \/ Withdraw(c)

BookSpec == BookInit /\ [][BookNext]_bookVars
=============================================================================
