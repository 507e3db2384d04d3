---------------------------- MODULE PropertyStore ----------------------------
(***************************************************************************)
(* What the objects of a script are to its programmer: ordered lists of    *)
(* properties that are read, written, deleted, frozen, listed and copied.  *)
(* There are no slots, no shapes and no caches, and a frozen object does   *)
(* not change: set_property_val ignores writes to it, and so does every    *)
(* other operation here.                                                   *)
(***************************************************************************)
EXTENDS Integers, SequencesExt

CONSTANTS Objs, Keys, Vals, Undefined

VARIABLES
    contents,  \* the properties of every object there is, in insertion order
    frozen,    \* the objects that Object.freeze was applied to
    copying,   \* the target, the remaining entries and the excluded keys of a copy
    out        \* the entries the last operation returned, if it reads

vars == <<contents, frozen, copying, out>>

NoCopy == <<>>
Entry == Keys \X Vals
Existing == DOMAIN contents

HasKey(entries, k) == \E i \in DOMAIN entries : entries[i][1] = k
IndexOf(entries, k) == CHOOSE i \in DOMAIN entries : entries[i][1] = k
Lookup(entries, k) ==
    IF HasKey(entries, k) THEN entries[IndexOf(entries, k)][2] ELSE Undefined

\* An existing property keeps its place, a new one comes last.
Put(entries, k, v) ==
    IF HasKey(entries, k)
    THEN [entries EXCEPT ![IndexOf(entries, k)] = <<k, v>>]
    ELSE Append(entries, <<k, v>>)

Drop(entries, k) ==
    IF HasKey(entries, k) THEN RemoveAt(entries, IndexOf(entries, k)) ELSE entries

\* The contents with one more object, which is empty.
WithEmpty(o) == [x \in Existing \union {o} |-> IF x = o THEN <<>> ELSE contents[x]]

Init ==
    /\ contents = [o \in {} |-> <<>>]
    /\ frozen = {}
    /\ copying = NoCopy
    /\ out = <<>>

-----------------------------------------------------------------------------
(***************************************************************************)
(* Operations: Changes leave out empty, Reads leave the contents alone.    *)
(***************************************************************************)
Changes == out' = <<>> /\ UNCHANGED copying

Reads == UNCHANGED <<copying, contents, frozen>>

Create(o) ==
    /\ Changes
    /\ o \notin Existing
    /\ contents' = WithEmpty(o)
    /\ UNCHANGED frozen

Get(o, k) ==
    /\ Reads
    /\ out' = << <<k, Lookup(contents[o], k)>> >>

\* What a write makes of the contents: nothing when the object is frozen.
Written(o, entries) ==
    IF o \in frozen THEN contents ELSE [contents EXCEPT ![o] = entries]

\* o.k = v, o[k] = v, o.k += c
Set(o, k, v) ==
    /\ Changes
    /\ contents' = Written(o, Put(contents[o], k, v))
    /\ UNCHANGED frozen

Delete(o, k) ==
    /\ Changes
    /\ contents' = Written(o, Drop(contents[o], k))
    /\ UNCHANGED frozen

Freeze(o) ==
    /\ Changes
    /\ frozen' = frozen \union {o}
    /\ UNCHANGED contents

List(o) ==
    /\ Reads
    /\ out' = contents[o]

\* A copy reads the source once, when it starts.
StartCopy(from, to, excluded) ==
    /\ out' = <<>>
    /\ copying' = <<to, contents[from], excluded>>
    /\ UNCHANGED frozen

CopyToNew(from, to, excluded) ==
    /\ StartCopy(from, to, excluded)
    /\ contents' = WithEmpty(to)

CopyOnto(from, to) ==
    /\ StartCopy(from, to, {})
    /\ UNCHANGED contents

CopyEntry ==
    LET to == copying[1]
        entries == copying[2]
        excluded == copying[3]
    IN  /\ entries # <<>>
        /\ out' = <<>>
        /\ copying' = <<to, Tail(entries), excluded>>
        /\ contents' = IF Head(entries)[1] \in excluded THEN contents
                       ELSE Written(to, Put(contents[to], Head(entries)[1],
                                            Head(entries)[2]))
        /\ UNCHANGED frozen

EndCopy ==
    /\ copying[2] = <<>>
    /\ out' = <<>>
    /\ copying' = NoCopy
    /\ UNCHANGED <<contents, frozen>>

Next ==
    \/ /\ copying = NoCopy
       /\ \/ \E o \in Objs : Create(o)
          \/ \E o \in Existing :
                \/ Freeze(o)
                \/ List(o)
                \/ \E k \in Keys :
                      \/ Get(o, k)
                      \/ Delete(o, k)
                      \/ \E v \in Vals : Set(o, k, v)
                \/ \E to \in Existing : CopyOnto(o, to)
                \/ \E to \in Objs \ Existing, excluded \in SUBSET Keys :
                      CopyToNew(o, to, excluded)
    \/ copying # NoCopy /\ (CopyEntry \/ EndCopy)

Spec == Init /\ [][Next]_vars
=============================================================================
