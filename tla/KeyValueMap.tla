----------------------------- MODULE KeyValueMap -----------------------------
(***************************************************************************)
(* What the key-value store promises: a map from keys to byte strings, and  *)
(* one stream that delivers, piece by piece, the string its key had when    *)
(* the stream was opened.  A put that overwrites the key may leave the      *)
(* stream its old string or spoil it; nothing else touches it.              *)
(***************************************************************************)
EXTENDS Sequences, Integers

CONSTANTS
  Key, NoKey,      \* NoKey is no key
  Value, String,   \* String[v]: the bytes of value v
  Missing          \* no string

VARIABLES
  contents,  \* the string of each key, or Missing
  stream,    \* source: the key it streams from, rest: what is to be delivered
  answer     \* the last call and what it returned

vars == <<contents, stream, answer>>

NoStream == [state |-> "none", source |-> NoKey, rest |-> <<>>]
\* The call is compared first: it tells most steps apart.
Answer(call, ok, bytes) ==
  answer'.call = call /\ answer' = [call |-> call, ok |-> ok, value |-> bytes]

Init ==
  /\ contents = [k \in Key |-> Missing]
  /\ stream = NoStream
  /\ answer = [call |-> <<"open">>, ok |-> TRUE, value |-> <<>>]

Has(k) ==
  /\ Answer(<<"has", k>>, contents[k] # Missing, <<>>)
  /\ UNCHANGED <<contents, stream>>

Get(k) ==
  /\ Answer(<<"get", k>>, contents[k] # Missing,
            IF contents[k] = Missing THEN <<>> ELSE contents[k])
  /\ UNCHANGED <<contents, stream>>

\* A stream not from k goes on; one from k goes on with the old string, or is
\* spoilt.
StreamAfterPut(k) ==
  \/ stream.source # k /\ stream' = stream
  \/ stream.source = k /\ stream' = [stream EXCEPT !.source = NoKey]
  \/ stream.source = k /\ stream' = [stream EXCEPT !.state = "spoilt", !.rest = <<>>]

Put(k, v) ==
  /\ Answer(<<"put", k, v>>, TRUE, <<>>)
  /\ StreamAfterPut(k)
  /\ contents' = [contents EXCEPT ![k] = String[v]]

PutRefused(k) ==
  /\ Answer(<<"put if new", k>>, FALSE, <<>>)
  /\ contents[k] # Missing
  /\ UNCHANGED <<contents, stream>>

RefuseLongKey == Answer(<<"long key">>, FALSE, <<>>) /\ UNCHANGED <<contents, stream>>

\* The stream follows its key to the new name.
Rename(old, new) ==
  /\ Answer(<<"rename", old, new>>, contents[old] # Missing, <<>>)
  /\ \/ contents[old] = Missing /\ UNCHANGED <<contents, stream>>
     \/ /\ contents[old] # Missing /\ contents[new] = Missing
        /\ contents' = [contents EXCEPT ![new] = contents[old], ![old] = Missing]
        /\ stream' = IF stream.source = old THEN [stream EXCEPT !.source = new] ELSE stream

Find(k) ==
  /\ Answer(<<"find", k>>, contents[k] # Missing, <<>>)
  /\ stream' = IF contents[k] = Missing THEN NoStream
               ELSE [state |-> "live", source |-> k, rest |-> contents[k]]
  /\ UNCHANGED contents

\* The next n bytes.
Deliver(n) ==
  /\ Answer(<<"piece">>, TRUE, SubSeq(stream.rest, 1, n))
  /\ stream.state = "live"
  /\ stream' = [stream EXCEPT !.rest = SubSeq(stream.rest, n + 1, Len(stream.rest))]
  /\ UNCHANGED contents

\* No stream, or its end.
DeliverNothing ==
  /\ Answer(<<"piece">>, FALSE, <<>>)
  /\ stream.state # "spoilt" /\ stream.rest = <<>>
  /\ UNCHANGED <<contents, stream>>

\* A spoilt stream delivers whatever it finds.
DeliverAnything ==
  answer'.call = <<"piece">> /\ stream.state = "spoilt" /\ UNCHANGED <<contents, stream>>

\* close() and open() change nothing.
Reopen ==
  /\ Answer(<<"close">>, TRUE, <<>>) \/ Answer(<<"open">>, TRUE, <<>>)
  /\ UNCHANGED <<contents, stream>>

Next ==
  \/ \E k \in Key : Has(k) \/ Get(k) \/ Find(k) \/ PutRefused(k)
  \/ \E k \in Key, v \in Value : Put(k, v)
  \/ \E old, new \in Key : Rename(old, new)
  \/ \E n \in 1..Len(stream.rest) : Deliver(n)
  \/ DeliverNothing \/ DeliverAnything \/ RefuseLongKey \/ Reopen

Spec == Init /\ [][Next]_vars
=============================================================================
