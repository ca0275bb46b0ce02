--------------------------- MODULE StorageHistory ---------------------------
(***************************************************************************)
(* BTreeStorage with the root that the tree in the file ought to have.      *)
(***************************************************************************)
EXTENDS BTreeStorage

VARIABLES
  kept,    \* the root that operations on the tree in the file gave it
  foreign  \* a storage of another degree has opened the file

hvars == <<vars, kept, foreign>>

HInit == Init /\ kept = NoRoot /\ foreign = FALSE

HOperate(t) ==
  /\ Operate(t)
  /\ kept' = IF io[t] \in File THEN root'[io[t]] ELSE kept
  /\ UNCHANGED foreign

HOpen(s) ==
  /\ Open(s)
  /\ foreign' = (foreign \/ (s \in File /\ header # NoFile /\ header.b # B[s]))
  /\ UNCHANGED kept

HOther ==
  /\ \/ \E s \in Storage :
          \/ Construct(s) \/ Detach(s) \/ Close(s) \/ Destroy(s)
          \/ \E t \in Tree : Attach(s, t) \/ ConstructTreeOn(t, s) \/ SetStorage(t, s)
     \/ \E t \in Tree : \/ \E m \in Memory : ConstructTree(t, m)
                        \/ SetStorage(t, None) \/ DestroyTree(t)
  /\ UNCHANGED <<kept, foreign>>

HNext == \/ \E t \in Tree : HOperate(t)
         \/ \E s \in Storage : HOpen(s)
         \/ HOther

HSpec == HInit /\ [][HNext]_hvars

-----------------------------------------------------------------------------
\* The tree in the file keeps its root: through every order of closing,
\* detaching, attaching to other trees, destroying and opening anew, although
\* attach and detach reset m_root_id (BTree.h:256, 275) and only open() and
\* close() carry it over.  A storage of another degree that opened the file is
\* the exception: open() answers no, and close() writes its header all the same.
RootPersists ==
  ~aborted /\ ~foreign =>
    IF \E f \in File : opened[f]
    THEN \A f \in File : opened[f] => root[f] = kept
    ELSE IF header = NoFile THEN kept = NoRoot ELSE header.root = kept
=============================================================================
