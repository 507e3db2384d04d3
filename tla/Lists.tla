-------------------------------- MODULE Lists --------------------------------
(***************************************************************************)
(* Lists that lose some of their items                                     *)
(***************************************************************************)
EXTENDS Integers, Sequences

(* the items of the list but the excluded ones, in order *)
Without(list, excluded) ==
    LET kept[n \in 0 .. Len(list)] ==
            IF n = 0 THEN <<>>
            ELSE IF list[n] \in excluded THEN kept[n - 1]
            ELSE Append(kept[n - 1], list[n])
    IN  kept[Len(list)]
=============================================================================
