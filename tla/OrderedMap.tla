----------------------------- MODULE OrderedMap -----------------------------
(***************************************************************************)
(* What maps and sets are to a script: lists of entries with different     *)
(* keys in the order of their insertion.  A set is a map from each key to  *)
(* what the script sees of it.  forEach shows the entries there were when  *)
(* it was called.  There are no indices.                                   *)
(***************************************************************************)
EXTENDS Naturals, SequencesExt

CONSTANTS
    Maps, Sets,
    Keys,      \* what the collections tell apart
    Vals,
    Shown(_),  \* the value a script sees of a key
    Undefined,
    MaxNesting

VARIABLES
    contents,  \* the entries of every collection there is, in insertion order
    visiting,  \* the entries every running forEach has still to show
    filling,   \* the items a constructor has still to add
    out        \* what the last call returned or handed to a callback

vars == <<contents, visiting, filling, out>>

NotFilling == <<>>
Existing == DOMAIN contents

HasKey(entries, k) == \E i \in DOMAIN entries : entries[i][1] = k
IndexOf(entries, k) == CHOOSE i \in DOMAIN entries : entries[i][1] = k

\* An existing key keeps its place, a new one comes last.
Put(entries, k, x) ==
    IF HasKey(entries, k) THEN [entries EXCEPT ![IndexOf(entries, k)] = <<k, x>>]
    ELSE Append(entries, <<k, x>>)

Init ==
    /\ contents = [c \in {} |-> <<>>]
    /\ visiting = <<>>
    /\ filling = NotFilling
    /\ out = <<>>

-----------------------------------------------------------------------------
Returns(result) ==
    /\ filling = NotFilling
    /\ out' = result
    /\ UNCHANGED <<visiting, filling>>

Reads(result) == Returns(result) /\ UNCHANGED contents

Items == Seq((Keys \X Vals) \union {<<>>}) \union Seq(Keys \X {Shown(k) : k \in Keys})

New(c) ==
    /\ filling = NotFilling
    /\ c \notin Existing
    /\ contents' = [d \in Existing \union {c} |-> IF d = c THEN <<>> ELSE contents[d]]
    /\ filling' \in {c} \X Items
    /\ out' = <<>>
    /\ UNCHANGED visiting

Fill ==
    /\ filling # NotFilling
    /\ filling[2] # <<>>
    /\ contents' = [contents EXCEPT ![filling[1]] =
                       IF Head(filling[2]) = <<>> THEN @
                       ELSE Put(@, Head(filling[2])[1], Head(filling[2])[2])]
    /\ filling' = [filling EXCEPT ![2] = Tail(@)]
    /\ UNCHANGED <<visiting, out>>

Filled ==
    /\ filling # NotFilling
    /\ filling[2] = <<>>
    /\ out' = <<"new", filling[1]>>
    /\ filling' = NotFilling
    /\ UNCHANGED <<contents, visiting>>

Set(c, k, x) ==
    /\ Returns(<<"itself", c>>)
    /\ contents' = [contents EXCEPT ![c] = Put(@, k, x)]

SetNothing(c) == Reads(<<"itself", c>>)

Get(c, k) ==
    Reads(<<"value", IF HasKey(contents[c], k) THEN contents[c][IndexOf(contents[c], k)][2]
                     ELSE Undefined>>)

Has(c, k) == Reads(<<"has", HasKey(contents[c], k)>>)

Size(c) == Reads(<<"size", Len(contents[c])>>)

Delete(c, k) ==
    /\ Returns(<<"deleted", HasKey(contents[c], k)>>)
    /\ contents' = IF HasKey(contents[c], k)
                   THEN [contents EXCEPT ![c] = RemoveAt(@, IndexOf(@, k))] ELSE contents

Clear(c) == Returns(<<"value", Undefined>>) /\ contents' = [contents EXCEPT ![c] = <<>>]

List(c) ==
    Reads(<<"list", [i \in DOMAIN contents[c] |-> <<Shown(contents[c][i][1]), contents[c][i][2]>>]>>)

-----------------------------------------------------------------------------
ForEach(c) ==
    /\ filling = NotFilling
    /\ Len(visiting) < MaxNesting
    /\ visiting' = Cons(<<c, contents[c]>>, visiting)
    /\ out' = <<>>
    /\ UNCHANGED <<contents, filling>>

Visit ==
    /\ filling = NotFilling
    /\ visiting # <<>>
    /\ visiting[1][2] # <<>>
    /\ LET e == Head(visiting[1][2]) IN out' = <<"callback", e[2], Shown(e[1]), visiting[1][1]>>
    /\ visiting' = [visiting EXCEPT ![1][2] = Tail(@)]
    /\ UNCHANGED <<contents, filling>>

EndForEach ==
    /\ filling = NotFilling
    /\ visiting # <<>>
    /\ visiting[1][2] = <<>>
    /\ out' = <<"value", Undefined>>
    /\ visiting' = Tail(visiting)
    /\ UNCHANGED <<contents, filling>>

\* An error in a callback ends every forEach that is running.
CallbackFails ==
    /\ filling = NotFilling
    /\ visiting # <<>>
    /\ visiting' = <<>>
    /\ out' = <<"error">>
    /\ UNCHANGED <<contents, filling>>

Next ==
    \/ \E c \in Maps \union Sets : New(c)
    \/ Fill
    \/ Filled
    \/ \E c \in Maps \intersect Existing, k \in Keys :
          \/ \E x \in Vals : Set(c, k, x)
          \/ Get(c, k)
    \/ \E c \in Sets \intersect Existing, k \in Keys : Set(c, k, Shown(k))
    \/ \E c \in Existing :
          \/ SetNothing(c)
          \/ \E k \in Keys : Has(c, k) \/ Delete(c, k)
          \/ Size(c) \/ Clear(c) \/ List(c) \/ ForEach(c)
    \/ Visit
    \/ EndForEach
    \/ CallbackFails

Spec == Init /\ [][Next]_vars
=============================================================================
