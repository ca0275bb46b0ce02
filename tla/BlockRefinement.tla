-------------------------- MODULE BlockRefinement --------------------------
(***************************************************************************)
(* The block storage, with users that keep to its rules, as an              *)
(* implementation of DurableBlocks.                                         *)
(***************************************************************************)
EXTENDS BlockHistory

CONSTANT NoHeader

Headers == UNION {[1 .. n -> Text \cup {NoText}] : n \in 0 .. Users}

ASSUME RefinementAssumption == NotStored \notin Contents /\ NoHeader \notin Headers

OpenHeader == IF is_open THEN user_header ELSE NoHeader
SavedHeader == IF Sealed THEN file[HeaderId].user_header ELSE NoHeader

Promise == INSTANCE DurableBlocks WITH
  contents     <- Readable,
  header       <- OpenHeader,
  saved_header <- SavedHeader,
  Data         <- Contents

\* Whatever the cache evicts and when, blocks read back as they were put, a
\* close keeps blocks and headers together, and a crash leaves the headers of
\* the last close beside blocks of the last close or later ones.
ImplementsDurableBlocks == Promise!Spec
=============================================================================
