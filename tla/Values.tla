------------------------------- MODULE Values -------------------------------
(***************************************************************************)
(* What both virtual machines do to values: arithmetic, conversions, and   *)
(* the arrays, hashes and closures of the heap.                            *)
(*                                                                         *)
(* A heap is a sequence of cells and a Reference its index.  Numbers are   *)
(* integers: Value keeps an i32 and falls back to an f64 on overflow, so   *)
(* that no sum the scripts of the models can reach wraps.                  *)
(***************************************************************************)
EXTENDS Syntax, Lists

NaN == Value("nan", 0, "")

(* the string a value is concatenated as; objects are not told apart *)
Show(v) ==
    CASE v.k = "num" -> ToString(v.v)
      [] v.k = "str" -> v.s
      [] v.k = "bool" -> IF v = TRUE_VALUE THEN "true" ELSE "false"
      [] v.k = "null" -> "null"
      [] v.k = "undef" -> "undefined"
      [] v.k = "nan" -> "NaN"
      [] OTHER -> "[object]"

ToNumber(v) ==
    CASE v.k \in {"num", "bool"} -> Number(v.v)
      [] v = NULL -> Number(0)
      [] OTHER -> NaN

Add(x, y) ==
    IF "str" \in {x.k, y.k} THEN Text(Show(x) \o Show(y))
    ELSE IF NaN \in {ToNumber(x), ToNumber(y)} THEN NaN
    ELSE Number(ToNumber(x).v + ToNumber(y).v)

(* the remainder has the sign of the dividend *)
Remainder(m, n) ==
    LET Abs(i) == IF i < 0 THEN -i ELSE i
    IN  IF m < 0 THEN -(Abs(m) % Abs(n)) ELSE m % Abs(n)

Arithmetic(op, x, y) ==
    LET a == ToNumber(x)
        b == ToNumber(y)
    IN  IF op = "Add" THEN Add(x, y)
        ELSE IF NaN \in {a, b} \/ (op = "Mod" /\ b.v = 0) THEN NaN
        ELSE CASE op = "Sub" -> Number(a.v - b.v)
               [] op = "Mul" -> Number(a.v * b.v)
               [] op = "Mod" -> Number(Remainder(a.v, b.v))
ArithmeticOps == {"Add", "Sub", "Mul", "Mod"}

(* null and undefined are equal, other values of two kinds are not *)
LooselyEqual(x, y) == x # NaN /\ (x = y \/ (IsNullish(x) /\ IsNullish(y)))

Compare(op, x, y) ==
    LET a == ToNumber(x)
        b == ToNumber(y)
        numbers == NaN \notin {a, b}
    IN  CASE op = "StrictEqual" -> x = y /\ x # NaN
          [] op = "StrictNotEqual" -> ~(x = y /\ x # NaN)
          [] op = "Equal" -> LooselyEqual(x, y)
          [] op = "NotEqual" -> ~LooselyEqual(x, y)
          [] op = "LessThan" -> numbers /\ a.v < b.v
          [] op = "LessOrEqual" -> numbers /\ a.v <= b.v
          [] op = "GreaterThan" -> numbers /\ a.v > b.v
          [] op = "GreaterOrEqual" -> numbers /\ a.v >= b.v
ComparisonOps ==
    {"StrictEqual", "StrictNotEqual", "Equal", "NotEqual",
     "LessThan", "LessOrEqual", "GreaterThan", "GreaterOrEqual"}

Negate(v) == IF ToNumber(v) = NaN THEN NaN ELSE Number(-ToNumber(v).v)
IsTrue(v) == Truthy(v) /\ v # NaN

-----------------------------------------------------------------------------
(* The heap *)

ArrayCell(items) == [t |-> "array", items |-> items]
HashCell(keys, vals) == [t |-> "hash", keys |-> keys, vals |-> vals]
EmptyHash == HashCell(<<>>, << >>)

Allocated(heap, cell) == Append(heap, cell)
NewReference(heap) == Reference(Len(heap) + 1)

IsArray(heap, v) == IsObject(v) /\ heap[v.v].t = "array"
IsHash(heap, v) == IsObject(v) /\ heap[v.v].t = "hash"
Items(heap, v) == heap[v.v].items

KeyOf(v) == IF IsNumber(v) THEN ToString(v.v) ELSE v.s

(* the values of the second, replaced by those the first one has *)
Over(new, old) ==
    [x \in DOMAIN new \cup DOMAIN old |-> IF x \in DOMAIN new THEN new[x] ELSE old[x]]

HashPut(cell, key, v) ==
    IF key \in DOMAIN cell.vals THEN [cell EXCEPT !.vals[key] = v]
    ELSE HashCell(Append(cell.keys, key), Over([k \in {key} |-> v], cell.vals))

HashRemove(cell, key) ==
    HashCell(Without(cell.keys, {key}), [k \in DOMAIN cell.vals \ {key} |-> cell.vals[k]])

(* obj[key]; whatever is not there is undefined *)
ReadProperty(heap, obj, key) ==
    IF IsArray(heap, obj)
    THEN IF key = Text("length") THEN Number(Len(Items(heap, obj)))
         ELSE IF IsNumber(key) /\ key.v + 1 \in DOMAIN Items(heap, obj)
         THEN Items(heap, obj)[key.v + 1]
         ELSE UNDEFINED
    ELSE IF IsHash(heap, obj) /\ KeyOf(key) \in DOMAIN heap[obj.v].vals
    THEN heap[obj.v].vals[KeyOf(key)]
    ELSE UNDEFINED

(* an array grows to the index, with undefined in between *)
Extended(items, i, v) ==
    [j \in 1 .. (IF i > Len(items) THEN i ELSE Len(items)) |->
        IF j = i THEN v ELSE IF j > Len(items) THEN UNDEFINED ELSE items[j]]

WriteProperty(heap, obj, key, v) ==
    IF IsArray(heap, obj) /\ IsNumber(key)
    THEN [heap EXCEPT ![obj.v].items = Extended(@, key.v + 1, v)]
    ELSE IF IsHash(heap, obj) THEN [heap EXCEPT ![obj.v] = HashPut(@, KeyOf(key), v)]
    ELSE heap

DeleteProperty(heap, obj, key) ==
    IF IsHash(heap, obj) THEN [heap EXCEPT ![obj.v] = HashRemove(@, KeyOf(key))] ELSE heap

PropertyNames(heap, obj) ==
    IF IsHash(heap, obj) THEN [i \in DOMAIN heap[obj.v].keys |-> Text(heap[obj.v].keys[i])]
    ELSE IF IsArray(heap, obj) THEN [i \in DOMAIN Items(heap, obj) |-> Text(ToString(i - 1))]
    ELSE <<>>

(* the items from skip on *)
RestOf(heap, v, skip) ==
    IF IsArray(heap, v) THEN SubSeq(Items(heap, v), skip + 1, Len(Items(heap, v))) ELSE <<>>

(* the properties but the excluded ones *)
WithoutKeys(heap, v, excluded) ==
    IF ~IsHash(heap, v) THEN EmptyHash
    ELSE LET kept == Without(heap[v.v].keys, excluded)
         IN  HashCell(kept, [k \in {kept[i] : i \in DOMAIN kept} |-> heap[v.v].vals[k]])

(* the key that marks the hash whose properties are copied *)
SpreadKey == Text("__fl_rest__")

(* cell with the properties of the hash from, one after the other *)
HashOfKeys(cell, from) ==
    LET put[n \in 0 .. Len(from.keys)] ==
            IF n = 0 THEN cell
            ELSE HashPut(put[n - 1], from.keys[n], from.vals[from.keys[n]])
    IN  put[Len(from.keys)]

(* keys and values in turn *)
HashOfPairs(heap, parts) ==
    LET hash[n \in 0 .. Len(parts) \div 2] ==
            LET key == parts[2 * n - 1]
                value == parts[2 * n]
            IN  IF n = 0 THEN EmptyHash
                ELSE IF key # SpreadKey THEN HashPut(hash[n - 1], KeyOf(key), value)
                ELSE IF IsHash(heap, value) THEN HashOfKeys(hash[n - 1], heap[value.v])
                ELSE hash[n - 1]
    IN  hash[Len(parts) \div 2]

IsCallable(heap, v) == v.k = "fn" \/ (IsObject(v) /\ heap[v.v].t = "closure")

TypeofName(heap, v) ==
    CASE v.k \in {"num", "nan"} -> "number"
      [] v.k = "str" -> "string"
      [] v.k = "bool" -> "boolean"
      [] v.k = "undef" -> "undefined"
      [] OTHER -> IF IsCallable(heap, v) THEN "function" ELSE "object"

(* what console.log shows of a value *)
Logged(heap, v) ==
    IF IsCallable(heap, v) THEN Text("[function]")
    ELSE IF IsObject(v) \/ v.k = "builtin" THEN Text("[object]")
    ELSE v
=============================================================================
