------------------------------ MODULE MCPacker ------------------------------
(* A buffer of eight bytes that have four values each, and blocks of up to   *)
(* sixty.                                                                    *)
EXTENDS BlockFormat

MCValues ==
  {[type |-> "bool", v |-> TRUE], [type |-> "int16", v |-> -2],
   [type |-> "string", v |-> <<3>>],
   [type |-> "string", v |-> <<0, 1, 2>>], [type |-> "int64", v |-> -5 * Power[4]],
   [type |-> "locator", v |-> [block |-> 6, offset |-> 9]]}

MCTexts == {<<>>, <<1, 1>>}

Invalid == Power[4] - 1
Locators == {[block |-> 5, offset |-> 3], [block |-> 1, offset |-> 15]}
KeyStrings == {<<>>, <<3, 0>>}

MCNodes ==
  {[id |-> 1, parentId |-> 2, leftId |-> Invalid, rightId |-> 7, leaf |-> TRUE, rank |-> -1,
    keys |-> <<>>, values |-> <<>>, children |-> <<>>]}
  \cup
  {[id |-> 1, parentId |-> 2, leftId |-> Invalid, rightId |-> 0, leaf |-> TRUE, rank |-> 0,
    keys |-> k, values |-> v, children |-> <<>>] :
    k \in [1..2 -> KeyStrings], v \in [1..2 -> Locators]}
  \cup
  {[id |-> 1, parentId |-> Invalid, leftId |-> 5, rightId |-> Invalid, leaf |-> FALSE, rank |-> 2,
    keys |-> k, values |-> <<>>, children |-> c] :
    k \in [1..1 -> KeyStrings], c \in [1..2 -> {3, Invalid - 1}]}

MCUserHeaders == {<<>>, <<<<1>>>>, <<<<>>, <<3, 2>>, <<0>>>>, <<<<1, 2, 3>>, <<>>>>}
=============================================================================
