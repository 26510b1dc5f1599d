------------------------------- MODULE Usernames -------------------------------
(***************************************************************************)
(* src/routing.rs, parse_username: the loop that splits a proxy user name  *)
(* into the base that is authenticated and the routing selection.  A user  *)
(* name is the sequence of its parts between dashes; a part is a key, a    *)
(* word, or empty.  What a part lists between commas is one word, and      *)
(* joining parts by dashes is left undone.                                 *)
(***************************************************************************)
EXTENDS Naturals, Sequences, FiniteSetsExt

CONSTANTS
    TagKeys,      \* country, state, city, isp, type, session
    Words,        \* parts that are no key and not empty
    Blank,        \* the empty part
    MaxParts      \* bound: parts of a user name

ASSUME UsernamesAssumption ==
    /\ Blank \notin Words /\ "chain" \notin TagKeys /\ MaxParts \in Nat

VARIABLES
    parts,        \* the user name
    pc,           \* "typing" while the client composes it, then the loop
    i,            \* the position of the loop
    base,         \* the base user name
    sel           \* the selection so far: the part each key got, the chain's name

vars == <<parts, pc, i, base, sel>>

Keys == TagKeys \cup {"chain"}
Nothing == [k \in TagKeys |-> Blank]

Init ==
    /\ parts = <<>>
    /\ pc = "typing"
    /\ i = 1
    /\ base = <<>>
    /\ sel = [tags |-> Nothing, chain |-> <<>>]

Type(part) ==
    /\ pc = "typing"
    /\ Len(parts) < MaxParts
    /\ parts' = Append(parts, part)
    /\ UNCHANGED <<pc, i, base, sel>>

\* A key counts as the first one only if a part follows it.
IsKeyAt(k) == parts[k] \in Keys /\ k < Len(parts)

\* Mutation of FirstKey: the last key with a value ends the base.
LastKey == Max({k \in DOMAIN parts : IsKeyAt(k)} \cup {1})

FirstKey == Min({k \in DOMAIN parts : IsKeyAt(k)} \cup {Len(parts) + 1})

\* The first key with a value ends the base.
Split ==
    /\ pc = "typing"
    /\ parts # <<>>
    /\ pc' = "looping"
    /\ i' = FirstKey
    /\ base' = SubSeq(parts, 1, i' - 1)
    /\ UNCHANGED <<parts, sel>>

UnknownKey ==
    /\ pc = "looping"
    /\ i <= Len(parts)
    /\ parts[i] \notin Keys
    /\ pc' = "refused"
    /\ UNCHANGED <<parts, i, base, sel>>

\* Mutation of ChainName: the name is one part, as other values are.
OnePart == SubSeq(parts, i + 1, i + 1)

\* The rest of the user name; blank if it is empty.
ChainName ==
    LET rest == SubSeq(parts, i + 1, Len(parts))
    IN  IF rest = <<Blank>> THEN <<>> ELSE rest

Chain ==
    /\ pc = "looping"
    /\ i <= Len(parts)
    /\ parts[i] = "chain"
    /\ sel' = [sel EXCEPT !.chain = ChainName]
    /\ pc' = "done"
    /\ UNCHANGED <<parts, i, base>>

\* Mutation of Tagged: the first value of a key stays.
TaggedOnce(k) == IF sel.tags[parts[k]] # Blank \/ k = Len(parts) THEN sel.tags[parts[k]]
                 ELSE parts[k + 1]

Tagged(k) == IF k = Len(parts) THEN Blank ELSE parts[k + 1]

\* Mutation of Pair: the loop skips a part too many.
PairAndAnother == 3

\* Parts a key and its value take.
Pair == 2

Tag ==
    /\ pc = "looping"
    /\ i <= Len(parts)
    /\ parts[i] \in TagKeys
    /\ sel' = [sel EXCEPT !.tags[parts[i]] = Tagged(i)]
    /\ i' = i + Pair
    /\ UNCHANGED <<parts, pc, base>>

Finish ==
    /\ pc = "looping"
    /\ i > Len(parts)
    /\ pc' = "done"
    /\ UNCHANGED <<parts, i, base, sel>>

Next ==
    \/ \E part \in Keys \cup Words \cup {Blank} : Type(part)
    \/ Split
    \/ UnknownKey
    \/ Chain
    \/ Tag
    \/ Finish

Spec == Init /\ [][Next]_vars

-------------------------------------------------------------------------------

TypeOK ==
    /\ pc \in {"typing", "looping", "refused", "done"}
    /\ i \in 1 .. (MaxParts + 2)
    /\ sel.tags \in [TagKeys -> Keys \cup Words \cup {Blank}]

\* The user name a client would write for a base, a list of keys with their
\* values, and the name of a chain.
Composed(b, pairs, name) ==
    b \o [k \in 1 .. (2 * Len(pairs)) |->
            IF k % 2 = 1 THEN pairs[(k + 1) \div 2].key ELSE pairs[k \div 2].value]
      \o IF name = <<>> THEN <<>> ELSE <<"chain">> \o name

\* The last value of a key in a list of pairs.
Last(pairs, key) ==
    LET at == {k \in DOMAIN pairs : pairs[k].key = key}
    IN  IF at = {} THEN Blank ELSE pairs[Max(at)].value

\* Every list of keys and values whose composition can have the parsed length.
PairLists ==
    UNION {[1 .. n -> [key : TagKeys, value : Keys \cup Words \cup {Blank}]] :
              n \in 0 .. ((Len(parts) - Len(base)) \div 2)}

\* A user name composed of the base that was parsed selects what it was
\* composed of, the last value of a key winning and a chain's name taking in
\* whatever follows (src/routing.rs:126-153).
SelectsWhatWasComposed ==
    pc \in {"done", "refused"} =>
        \A pairs \in PairLists :
            LET used == Len(base) + 2 * Len(pairs)
                name == IF used + 1 < Len(parts) /\ parts[used + 1] = "chain"
                        THEN SubSeq(parts, used + 2, Len(parts)) ELSE <<>>
            IN  parts = Composed(base, pairs, name) =>
                    /\ pc = "done"
                    /\ sel.tags = [k \in TagKeys |-> Last(pairs, k)]
                    /\ sel.chain = IF name = <<Blank>> THEN <<>> ELSE name

\* The base is a user name without tokens: it is authenticated as itself when
\* it is presented alone (src/routing.rs:113-122).
BaseIsItself ==
    pc \in {"done", "refused"} =>
        /\ \A k \in 1 .. (Len(base) - 1) : base[k] \notin Keys
        /\ base # parts => \A k \in DOMAIN base : base[k] \notin Keys
===============================================================================
