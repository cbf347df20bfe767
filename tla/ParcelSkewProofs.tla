-------------------------- MODULE ParcelSkewProofs --------------------------
(***************************************************************************)
(* Between two releases of which one appends fields and arms to the other  *)
(* calls go through in place, and when the server's is the longer one they *)
(* go through whole, for any layouts, any nesting of parcelables, unions   *)
(* and vectors in one another and any number of calls.                     *)
(*                                                                         *)
(* What is written is a tree of fields laid out in a row: every field has  *)
(* an end, the one its size header gives if it has one, and the next field *)
(* starts there (Tree, Growing).  The reader walks the same tree with the  *)
(* fields its own release declares, and what it has behind it is in its    *)
(* object (Walking, Filled).                                               *)
(***************************************************************************)
EXTENDS ParcelSkew, SequenceTheorems, TLAPS

----------------------------------------------------------------------------
(* The tree of a parcel.  Its root is <<>>, the other nodes are the paths  *)
(* the writer has a place for.                                             *)

Nodes == {<<>>} \cup DOMAIN place

CellAt(p) == wire[place[p]]

\* The field the writer wrote there.
Declared(p) == FieldAt(Writer, message, Last(p))

\* The fields of a parcelable follow, or the value of a union, or the elements
\* of a vector.
IsBody(p) == CellAt(p).kind = "flag" /\ CellAt(p).val # 0
IsList(p) == CellAt(p).kind = "count"

\* The size header or the tag of such a parcelable or union.
HeadAt(p) == wire[place[p] + 1]

IsUnion(p) == IsBody(p) /\ Declared(p).of \in Unions

Inner(p) == p = <<>> \/ IsBody(p) \/ IsList(p)

In(p) == IF p = <<>> THEN "args" ELSE IF IsList(p) THEN "list"
         ELSE IF IsUnion(p) THEN "arm" ELSE "fields"
Of(p) == IF p = <<>> THEN "none"
         ELSE IF IsUnion(p) THEN Arms[Declared(p).of][Writer][HeadAt(p).val]
         ELSE Declared(p).of

Count(p) == IF p = <<>> THEN Len(Fields(message))
            ELSE IF IsList(p) THEN CellAt(p).val
            ELSE IF IsUnion(p) THEN 1 ELSE Len(Layout[Of(p)][Writer])

\* Where the first of them is.
First(p) == IF p = <<>> THEN 1 ELSE place[p] + (IF IsList(p) THEN 1 ELSE 2)

Kid(p, k) == Append(p, Step(In(p), Of(p), k))

\* The nodes still being written.
Open == IF phase = "writing" THEN {stack[i].path : i \in DOMAIN stack} ELSE {}

\* q is p or is below p.
Under(p, q) == Len(p) <= Len(q) /\ \A i \in 1..Len(p) : p[i] = q[i]

\* e[p] is the position behind node p.
End(e, p) == IF p = <<>> THEN Len(wire) + 1 ELSE e[p]

Extent(e, p) ==
    /\ p \in Paths /\ p # <<>> /\ e[p] \in Nat
    /\ place[p] \in 1..Len(wire) /\ place[p] < e[p] /\ e[p] <= Len(wire) + 1
    /\ CellAt(p).at = p /\ CellAt(p).kind \notin {"size", "tag"}
    /\ p \in Open => e[p] = Len(wire) + 1
    /\ \A i \in 1..Len(p) : SubSeq(p, 1, i) \in DOMAIN place

\* The cells of a field are those of its shape.
Shaped(e, p) ==
    LET f == Declared(p)
        c == CellAt(p)
    IN  /\ f \in FieldType
        /\ CASE f.shape = "word"  -> c.kind = "word"
             [] f.shape = "part"  -> c.kind = "flag" /\ c.val = 1
             [] f.shape = "maybe" -> c.kind = "flag" /\ c.val \in {0, 1}
             [] f.shape = "list"  -> c.kind = "count" /\ c.val \in Nat
        /\ c.kind = "word" \/ (c.kind = "flag" /\ c.val = 0) =>
              p \notin Open /\ e[p] = place[p] + 1
        /\ IsBody(p) => e[p] >= place[p] + 2
        /\ IsUnion(p) => /\ HeadAt(p).kind = "tag"
                         /\ HeadAt(p).val \in DOMAIN Arms[f.of][Writer]
        /\ IsBody(p) /\ ~IsUnion(p) =>
              /\ HeadAt(p).kind = "size"
              /\ p \notin Open => HeadAt(p).val = e[p] - place[p] - 1

\* It is where the one before it ends.
Placed(e, p) ==
    LET f == Front(p)
        k == Last(p).nr
    IN  /\ f \in Nodes /\ Inner(f) /\ p = Kid(f, k)
        /\ k \in 1..Count(f) /\ e[p] <= End(e, f)
        /\ k = 1 => place[p] = First(f)
        /\ \A j \in 1..k - 1 : /\ Kid(f, j) \in DOMAIN place \ Open
                               /\ e[Kid(f, j)] <= place[p]
        /\ k > 1 => place[p] = e[Kid(f, k - 1)]

\* A node that is written has all it should hold.
Complete(e, p) ==
    /\ \A k \in 1..Count(p) : Kid(p, k) \in DOMAIN place
    /\ End(e, p) = IF Count(p) = 0 THEN First(p) ELSE e[Kid(p, Count(p))]

Nested(e) ==
    \A p, q \in DOMAIN place :
        Under(p, q) <=> place[p] <= place[q] /\ place[q] < e[p]

Tree(e) ==
    /\ DOMAIN e = DOMAIN place
    /\ \A p \in DOMAIN place : Extent(e, p) /\ Shaped(e, p) /\ Placed(e, p)
    /\ \A p \in Nodes \ Open : Inner(p) => Complete(e, p)
    /\ Nested(e)

----------------------------------------------------------------------------
(* The writer.                                                             *)

\* An activation writes the inner node it says, and has come to its next.
Writes(i) ==
    LET a == stack[i]
    IN  /\ a.path \in Nodes /\ Len(a.path) = i - 1 /\ Inner(a.path)
        /\ a.in = In(a.path) /\ a.of = Of(a.path) /\ a.count = Count(a.path)
        /\ a.start = IF a.in = "fields" THEN place[a.path] + 1 ELSE 0
        /\ a.next \in 1..a.count + 1
        /\ \A k \in Nat : Kid(a.path, k) \in DOMAIN place <=> k \in 1..a.next - 1
        /\ i > 1 => a.path = Kid(stack[i - 1].path, stack[i - 1].next - 1)
        /\ \A j \in 1..i : Under(stack[j].path, a.path)

Growing(e) ==
    /\ pos = 1
    /\ \A i \in DOMAIN stack : Writes(i)
    /\ Len(wire) + 1 = IF Top.next = 1 THEN First(Top.path)
                       ELSE e[Kid(Top.path, Top.next - 1)]

----------------------------------------------------------------------------
(* The reader.                                                             *)

\* An activation reads an inner node, with the fields the reader declares.
Reads(i) ==
    LET a == stack[i]
    IN  /\ a.path \in Nodes /\ Inner(a.path) /\ Declares(Reader, a.path)
        /\ a.in = In(a.path) /\ a.of = Of(a.path)
        /\ a.count = IF a.in = "fields" THEN Len(Layout[a.of][Reader]) ELSE Count(a.path)
        /\ a.in = "fields" => /\ a.start = place[a.path] + 1
                              /\ a.size = HeadAt(a.path).val
        /\ a.in # "fields" => a.size = 0
        /\ a.next \in 1..a.count + 1 /\ a.next <= Count(a.path) + 1
        /\ IF i = 1 THEN a.path = <<>>
           ELSE /\ stack[i - 1].next > 1
                /\ a.path = Kid(stack[i - 1].path, stack[i - 1].next - 1)

Walking(e) ==
    /\ \A i \in DOMAIN stack : Reads(i)
    /\ pos = IF Top.next = 1 THEN First(Top.path)
             ELSE e[Kid(Top.path, Top.next - 1)]

\* The reader declares it and has it behind it.
Passed(p) == p \in DOMAIN place /\ place[p] < pos /\ Declares(Reader, p)

\* p is below a field the activation has still to read.
Awaits(a, p) ==
    \E k \in a.next..a.count : Under(Append(a.path, Step(a.in, a.of, k)), p)

\* What is behind the reader is in its object, and only an object the caller
\* reuses holds anything else, which will be replaced.
Filled ==
    /\ \A p \in DOMAIN place :
          Passed(p) => p \in DOMAIN got[message] /\ got[message][p] = CellAt(p)
    /\ \A p \in DOMAIN got[message] :
          \/ Passed(p)
          \/ message = "reply" /\ \E i \in DOMAIN stack : Awaits(stack[i], p)

----------------------------------------------------------------------------
(* The client's reply object holds what its own release can put into it.   *)

Fits(r, m, s, t) ==
    LET f == FieldAt(r, m, s)
    IN  \/ /\ f.shape \in {"part", "maybe"} /\ f.of \in Parcelables
           /\ t.in = "fields" /\ t.of = f.of /\ t.nr \in 1..Len(Layout[f.of][r])
        \/ /\ f.shape \in {"part", "maybe"} /\ f.of \in Unions
           /\ t.in = "arm" /\ t.of \in Range(Arms[f.of][r]) /\ t.nr = 1
        \/ f.shape = "list" /\ t.in = "list" /\ t.of = f.of /\ t.nr # 0

Follows(r, m, p) ==
    /\ p # <<>>
    /\ p[1].in = "args" /\ p[1].of = "none" /\ p[1].nr \in 1..Len(Fields(m))
    /\ \A i \in 2..Len(p) : Fits(r, m, p[i - 1], p[i])

\* All that an activation has to read.
Reaches(a, m) ==
    \A k \in 1..a.count : Follows(client, m, Append(a.path, Step(a.in, a.of, k)))

ObjectInv ==
    /\ \A p \in DOMAIN got.reply : Follows(client, "reply", p)
    /\ phase = "reading" /\ message = "reply" =>
          \A i \in DOMAIN stack : Reaches(stack[i], "reply")

----------------------------------------------------------------------------
(* Types.                                                                  *)

Steps == [in : {"args", "fields", "list", "arm"}, of : Types, nr : Nat]

Activations == [in : {"args", "fields", "list", "arm"}, of : Types, count : Nat,
                next : Nat, start : Nat, size : Nat, path : Paths]

LEMMA ConstantTypes ==
    /\ Releases \subseteq Int
    /\ Layout \in [Parcelables -> [Releases -> Seq(FieldType)]]
    /\ Arms \in [Unions -> [Releases -> Seq(Variants)]]
    /\ Holds \in [Variants -> FieldType]
    /\ Parcelables \cap Unions = {}
    /\ \A m : Fields(m) \in Seq(FieldType)
    /\ MaxList \in Nat /\ MaxCalls \in Nat
  BY LayoutAssumption, BoundsAssumption DEF LayoutAssumption, BoundsAssumption, Fields

LEMMA FieldTypes ==
    ASSUME NEW f \in FieldType
    PROVE  /\ f.shape \in {"word", "part", "maybe", "list"} /\ f.of \in Types
           /\ f.shape \in {"part", "maybe", "list"} => f.of \in Parcelables \cup Unions
  BY DEF FieldType, Types

LEMMA PathTypes ==
    /\ Paths = Seq(Steps) /\ <<>> \in Paths
    /\ \A in \in {"args", "fields", "list", "arm"}, of \in Types, nr \in Nat :
          Step(in, of, nr) \in Steps
  BY DEF Paths, Steps, Step

\* A path and one step more.
LEMMA Longer ==
    ASSUME NEW p \in Paths, NEW s \in Steps
    PROVE  /\ Append(p, s) \in Paths /\ Append(p, s) # <<>>
           /\ Len(Append(p, s)) = Len(p) + 1
           /\ \A i \in 1..Len(p) : Append(p, s)[i] = p[i]
           /\ Append(p, s)[Len(p) + 1] = s
           /\ Last(Append(p, s)) = s /\ Front(Append(p, s)) = p
<1>1. p \in Seq(Steps)
  BY PathTypes
<1>2. /\ Append(p, s) \in Seq(Steps) /\ Append(p, s) # <<>>
      /\ Len(Append(p, s)) = Len(p) + 1
      /\ \A i \in 1..Len(p) : Append(p, s)[i] = p[i]
      /\ Append(p, s)[Len(p) + 1] = s
  BY <1>1, AppendProperties
<1>3. Len(p) \in Nat
  BY <1>1, LenProperties
<1>4. Last(Append(p, s)) = s
  BY <1>2 DEF Last
<1>5. Front(Append(p, s)) = p
  <2> DEFINE q == SubSeq(Append(p, s), 1, Len(p))
  <2>1. \A i \in 1..Len(p) : Append(p, s)[i] \in Steps
    BY <1>1, <1>2, ElementOfSeq
  <2>2. q \in Seq(Steps) /\ Len(q) = Len(p)
        /\ \A i \in 1..Len(p) : q[i] = Append(p, s)[i]
    <3>1. /\ q \in Seq(Steps)
          /\ Len(q) = IF 1 <= Len(p) THEN Len(p) - 1 + 1 ELSE 0
          /\ \A i \in 1..Len(p) - 1 + 1 : q[i] = Append(p, s)[1 + i - 1]
      BY <1>3, <2>1, SubSeqProperties
    <3> HIDE DEF q
    <3> QED
      BY <1>3, <3>1
  <2>3. q = p
    BY <1>1, <1>2, <2>2, SeqEqual
  <2>4. Len(Append(p, s)) - 1 = Len(p)
    BY <1>2, <1>3
  <2> QED
    BY <2>3, <2>4 DEF Front
<1> QED
  BY <1>2, <1>4, <1>5, PathTypes
\* What makes the type invariant inductive: an activation counts the fields its
\* side declares, and its size header is in the parcel.
RunsAs(a, ph, n, m, r) ==
    /\ a.next >= 1
    /\ ph = "writing" => a.start <= n
    /\ a.in = "args" => a.count = Len(Fields(m))
    /\ a.in = "fields" => a.of \in Parcelables /\ a.count = Len(Layout[a.of][r])
    /\ a.in = "list" => a.of \in Parcelables \cup Unions
    /\ a.in = "arm" => a.of \in Variants /\ a.count = 1

Side == IF phase = "writing" THEN Writer ELSE Reader

Runs(a) == RunsAs(a, phase, Len(wire), message, Side)

Scalars ==
    /\ client \in Releases /\ server \in Releases
    /\ phase \in {"off", "ready", "writing", "reading", "handling"}
    /\ message \in {"request", "reply"} /\ call \in 0..MaxCalls
    /\ result \in Statuses

Parcel ==
    /\ wire \in Seq(Cells) /\ \A i \in DOMAIN wire : wire[i].val \in Nat
    /\ \A p \in DOMAIN place : p \in Paths /\ place[p] \in DOMAIN wire

Running ==
    /\ stack \in Seq(Activations)
    /\ (phase \in {"writing", "reading"}) = (stack # <<>>)
    /\ \A i \in DOMAIN stack : Runs(stack[i])
    /\ stack # <<>> => stack[1].size = 0

IsFull(f) == DOMAIN f \subseteq Paths /\ f \in [DOMAIN f -> Cells]

Objects ==
    /\ DOMAIN got = {"request", "reply"}
    /\ IsFull(got.request) /\ IsFull(got.reply)

\* The types, and what makes them inductive.
TypeInv == Scalars /\ Parcel /\ pos \in Nat \ {0} /\ Running /\ Objects

LEMMA TypeInvTypes == TypeInv => TypeOK
<1>1. \A f : IsFull(f) => IsObject(f)
  BY DEF IsFull, IsObject
<1> QED
  BY <1>1 DEF TypeInv, TypeOK, Scalars, Parcel, Running, Objects, Activations

\* What the running activation comes to next.
LEMMA NextField ==
    ASSUME TypeInv, stack # <<>>
    PROVE  /\ Len(stack) \in Nat \ {0} /\ Top = stack[Len(stack)]
           /\ Top \in Activations /\ Runs(Top)
           /\ Here \in Steps /\ Here.in = Top.in /\ Here.of = Top.of /\ Here.nr = Top.next
           /\ At \in Paths /\ At # <<>>
           /\ phase \in {"writing", "reading"}
           /\ More => Field \in FieldType
<1>1. stack \in Seq(Activations) /\ phase \in {"writing", "reading"}
      /\ client \in Releases /\ server \in Releases
  BY DEF TypeInv, Scalars, Running
<1>2. Len(stack) \in Nat \ {0} /\ Top = stack[Len(stack)] /\ Top \in Activations
  BY <1>1, EmptySeq, ElementOfSeq DEF Top, Last
<1>3. Runs(Top)
  <2>1. Len(stack) \in DOMAIN stack
    BY <1>1, <1>2, LenProperties
  <2> QED
    BY <1>2, <2>1 DEF TypeInv, Running
<1>4. /\ Top.in \in {"args", "fields", "list", "arm"} /\ Top.of \in Types /\ Top.next \in Nat
      /\ Top.path \in Paths /\ Top.count \in Nat
  BY <1>2 DEF Activations
<1>5. Here \in Steps /\ Here.in = Top.in /\ Here.of = Top.of /\ Here.nr = Top.next
  BY <1>4 DEF Here, Step, Steps
<1>6. At \in Paths /\ At # <<>>
  BY <1>4, <1>5, Longer DEF At
<1>7. ASSUME More PROVE Field \in FieldType
  <2> DEFINE r == Side
  <2>1. r \in Releases
    BY <1>1 DEF Side, Writer, Reader
  <2>2. Top.next \in 1..Top.count
    BY <1>3, <1>4, <1>7 DEF Runs, RunsAs, Side, More
  <2>3. CASE Top.in = "args"
    <3>1. Fields(message)[Top.next] \in FieldType
      BY <1>3, <2>2, <2>3, ConstantTypes, ElementOfSeq DEF Runs, RunsAs, Side
    <3>2. Field = Fields(message)[Top.next]
      BY <1>5, <2>3 DEF Field, FieldAt, Side
    <3> QED
      BY <3>1, <3>2
  <2>4. CASE Top.in = "fields"
    <3>0. Top.of \in Parcelables /\ Top.count = Len(Layout[Top.of][r])
      BY <1>3, <2>4 DEF Runs, RunsAs
    <3>1. Layout[Top.of][r] \in Seq(FieldType)
      BY <2>1, <3>0, ConstantTypes
    <3>2. Layout[Top.of][r][Top.next] \in FieldType
      BY <2>2, <3>0, <3>1, ElementOfSeq
    <3>3. Field = Layout[Top.of][r][Top.next]
      BY <1>5, <2>4 DEF Field, FieldAt, Side
    <3> QED
      BY <3>2, <3>3
  <2>5. CASE Top.in = "list"
    <3>1. Field = [shape |-> "part", of |-> Top.of]
      BY <1>5, <2>5 DEF Field, FieldAt, Side
    <3>2. Top.of \in Parcelables \cup Unions
      BY <1>3, <2>5 DEF Runs, RunsAs
    <3> QED
      BY <3>1, <3>2 DEF FieldType
  <2>6. CASE Top.in = "arm"
    <3>1. Field = Holds[Top.of]
      BY <1>5, <2>6 DEF Field, FieldAt, Side
    <3> QED
      BY <1>3, <2>6, <3>1, ConstantTypes DEF Runs, RunsAs, Side
  <2> QED
    BY <1>4, <2>3, <2>4, <2>5, <2>6
<1> QED
  BY <1>1, <1>2, <1>3, <1>5, <1>6, <1>7

LEMMA SteppedIs ==
    ASSUME stack \in Seq(Activations), stack # <<>>
    PROVE  /\ Stepped \in Seq(Activations) /\ Len(Stepped) = Len(stack)
           /\ \A i \in 1..Len(stack) - 1 : Stepped[i] = stack[i]
           /\ Stepped[Len(stack)] = [Top EXCEPT !.next = @ + 1]
<1>1. Len(stack) \in Nat \ {0} /\ Len(stack) \in 1..Len(stack)
  BY EmptySeq
<1>2. Top = stack[Len(stack)] /\ Top \in Activations
  BY <1>1, ElementOfSeq DEF Top, Last
<1>3. [Top EXCEPT !.next = @ + 1] \in Activations
  <2>1. ASSUME NEW a \in Activations PROVE [a EXCEPT !.next = @ + 1] \in Activations
    <3>1. a.next + 1 \in Nat
      BY DEF Activations
    <3> QED
      BY <3>1 DEF Activations
  <2> QED
    BY <1>2, <2>1
<1>4. Stepped = [stack EXCEPT ![Len(stack)] = [Top EXCEPT !.next = @ + 1]]
  BY <1>2 DEF Stepped
<1> QED
  BY <1>1, <1>3, <1>4, ExceptSeq

LEMMA FrontIs ==
    ASSUME stack \in Seq(Activations), stack # <<>>
    PROVE  /\ Front(stack) \in Seq(Activations) /\ Len(Front(stack)) = Len(stack) - 1
           /\ \A i \in 1..Len(stack) - 1 : Front(stack)[i] = stack[i]
<1>1. Len(stack) \in Nat \ {0}
  BY EmptySeq
<1>2. \A i \in 1..Len(stack) - 1 : stack[i] \in Activations
  BY ElementOfSeq
<1>3. /\ Front(stack) \in Seq(Activations)
      /\ Len(Front(stack)) = IF 1 <= Len(stack) - 1 THEN (Len(stack) - 1) - 1 + 1 ELSE 0
      /\ \A i \in 1..(Len(stack) - 1) - 1 + 1 : Front(stack)[i] = stack[1 + i - 1]
  BY <1>1, <1>2, SubSeqProperties DEF Front
<1>4. \A i \in 1..Len(stack) - 1 : i \in 1..(Len(stack) - 1) - 1 + 1 /\ 1 + i - 1 = i
  BY <1>1
<1>5. Len(Front(stack)) = Len(stack) - 1
  <2> DEFINE n == Len(stack)
             m == Len(Front(stack))
  <2>1. n \in Nat \ {0} /\ m = IF 1 <= n - 1 THEN (n - 1) - 1 + 1 ELSE 0
    BY <1>1, <1>3
  <2> HIDE DEF n, m
  <2>2. m = n - 1
    BY <2>1
  <2> QED
    BY <2>2 DEF n, m
<1> QED
  BY <1>3, <1>4, <1>5

\* An activation goes on when its side and its message stay, and the parcel
\* does not shrink.
LEMMA RunsOn ==
    ASSUME NEW ph \in {"writing", "reading"}, NEW n \in Nat, NEW n2 \in Nat, n2 >= n,
           NEW m, NEW r, NEW a \in Activations, RunsAs(a, ph, n, m, r)
    PROVE  /\ RunsAs(a, ph, n2, m, r)
           /\ [a EXCEPT !.next = @ + 1] \in Activations
           /\ RunsAs([a EXCEPT !.next = @ + 1], ph, n2, m, r)
<1>1. a.start \in Nat /\ a.next \in Nat /\ a.next + 1 \in Nat
  BY DEF Activations
<1> DEFINE b == [a EXCEPT !.next = @ + 1]
<1>2. /\ b.next = a.next + 1 /\ b.start = a.start /\ b.in = a.in
      /\ b.count = a.count /\ b.of = a.of /\ b \in Activations
  BY <1>1 DEF Activations
<1>3. ph = "writing" => a.start <= n2
  BY <1>1 DEF RunsAs
<1> HIDE DEF b
<1>4. b.next >= 1
  BY <1>1, <1>2 DEF RunsAs
<1>5. RunsAs(b, ph, n2, m, r)
  BY <1>2, <1>3, <1>4 DEF RunsAs
<1> QED
  BY <1>2, <1>3, <1>5 DEF b, RunsAs

LEMMA RunningOn ==
    ASSUME TypeInv, stack # <<>>, UNCHANGED <<client, server, phase, message>>,
           Len(wire') \in Nat, Len(wire') >= Len(wire)
    PROVE  /\ stack' = Stepped => Running'
           /\ \A b \in Activations :
                 RunsAs(b, phase, Len(wire'), message, Side) /\ stack' = Append(Stepped, b)
                 => Running'
           /\ Len(stack) > 1 /\ stack' = Front(stack) => Running'
<1>1. /\ stack \in Seq(Activations) /\ phase \in {"writing", "reading"}
      /\ \A i \in 1..Len(stack) : RunsAs(stack[i], phase, Len(wire), message, Side)
      /\ Len(wire) \in Nat /\ Len(stack) \in Nat \ {0} /\ stack[1].size = 0
  <2>1. Running /\ Parcel
    BY DEF TypeInv
  <2> QED
    BY <2>1, NextField, LenProperties DEF Running, Parcel, Runs
<1>2. \A i \in 1..Len(stack) :
        /\ stack[i] \in Activations
        /\ RunsAs(stack[i], phase, Len(wire'), message, Side)
        /\ RunsAs([stack[i] EXCEPT !.next = @ + 1], phase, Len(wire'), message, Side)
  <2> SUFFICES ASSUME NEW i \in 1..Len(stack)
               PROVE  /\ stack[i] \in Activations
                      /\ RunsAs(stack[i], phase, Len(wire'), message, Side)
                      /\ RunsAs([stack[i] EXCEPT !.next = @ + 1], phase, Len(wire'),
                                message, Side)
    OBVIOUS
  <2>1. stack[i] \in Activations
    BY <1>1, ElementOfSeq
  <2> QED
    BY <1>1, <2>1, RunsOn
<1>3. Side' = Side /\ phase' = phase /\ message' = message
  BY DEF Side, Writer, Reader
<1>4. ASSUME stack' \in Seq(Activations), stack' # <<>>, stack'[1].size = 0,
             \A i \in 1..Len(stack') :
                RunsAs(stack'[i], phase, Len(wire'), message, Side)
      PROVE  Running'
  <2>1. DOMAIN stack' = 1..Len(stack')
    BY <1>4, LenProperties
  <2>2. \A i \in DOMAIN stack' : RunsAs(stack'[i], phase', Len(wire'), message', Side')
    BY <1>3, <1>4, <2>1
  <2> QED
    BY <1>1, <1>4, <2>2 DEF Running, Runs
<1>5. /\ Stepped \in Seq(Activations) /\ Len(Stepped) = Len(stack) /\ Stepped[1].size = 0
      /\ \A i \in 1..Len(stack) : RunsAs(Stepped[i], phase, Len(wire'), message, Side)
  <2>1. Len(stack) \in 1..Len(stack) /\ Top = stack[Len(stack)]
    BY <1>1 DEF Top, Last
  <2>2. \A i \in 1..Len(stack) : i = Len(stack) \/ i \in 1..Len(stack) - 1
    BY <1>1
  <2>3. RunsAs(Stepped[Len(stack)], phase, Len(wire'), message, Side)
    BY <1>1, <1>2, <2>1, SteppedIs
  <2>4. \A i \in 1..Len(stack) - 1 :
           RunsAs(Stepped[i], phase, Len(wire'), message, Side)
    <3>1. \A i \in 1..Len(stack) - 1 : i \in 1..Len(stack)
      BY <1>1
    <3>2. \A i \in 1..Len(stack) - 1 : Stepped[i] = stack[i]
      BY <1>1, SteppedIs
    <3> QED
      BY <1>2, <3>1, <3>2
  <2>5. Stepped[1].size = 0
    <3>1. CASE Len(stack) = 1
      <4>1. Stepped[1] = [Top EXCEPT !.next = @ + 1] /\ Top.size = 0 /\ Top \in Activations
        BY <1>1, <1>2, <2>1, <3>1, SteppedIs
      <4> QED
        BY <4>1 DEF Activations
    <3>2. CASE Len(stack) # 1
      <4>1. 1 \in 1..Len(stack) - 1
        BY <1>1, <3>2
      <4> QED
        BY <1>1, <4>1, SteppedIs
    <3> QED
      BY <3>1, <3>2
  <2> QED
    BY <1>1, <2>2, <2>3, <2>4, <2>5, SteppedIs
<1>6. ASSUME stack' = Stepped PROVE Running'
  <2>1. stack' # <<>>
    BY <1>1, <1>5, <1>6, EmptySeq
  <2> QED
    BY <1>4, <1>5, <1>6, <2>1
<1>7. ASSUME NEW b \in Activations, RunsAs(b, phase, Len(wire'), message, Side),
             stack' = Append(Stepped, b)
      PROVE  Running'
  <2>1. /\ stack' \in Seq(Activations) /\ stack' # <<>> /\ Len(stack') = Len(stack) + 1
        /\ \A i \in 1..Len(stack) : stack'[i] = Stepped[i]
        /\ stack'[Len(stack) + 1] = b
    BY <1>5, <1>7, AppendProperties
  <2>2. \A i \in 1..Len(stack') : i \in 1..Len(stack) \/ i = Len(stack) + 1
    BY <1>1, <2>1
  <2>3. \A i \in 1..Len(stack') : RunsAs(stack'[i], phase, Len(wire'), message, Side)
    BY <1>5, <1>7, <2>1, <2>2
  <2>4. stack'[1].size = 0
    BY <1>1, <1>5, <2>1
  <2> QED
    BY <1>4, <2>1, <2>3, <2>4
<1>8. ASSUME Len(stack) > 1, stack' = Front(stack) PROVE Running'
  <2>1. /\ stack' \in Seq(Activations) /\ Len(stack') = Len(stack) - 1
        /\ \A i \in 1..Len(stack') : stack'[i] = stack[i]
    BY <1>1, <1>8, FrontIs
  <2>2. stack' # <<>>
    BY <1>1, <1>8, <2>1, EmptySeq
  <2>3. \A i \in 1..Len(stack') : i \in 1..Len(stack)
    BY <1>1, <2>1
  <2>4. stack'[1].size = 0
    BY <1>1, <1>8, <2>1
  <2> QED
    BY <1>2, <1>4, <2>1, <2>2, <2>3, <2>4
<1> QED
  BY <1>6, <1>7, <1>8

LEMMA CellTypes ==
    ASSUME NEW kind \in {"word", "tag", "flag", "size", "count"}, NEW p \in Paths,
           NEW val \in Nat
    PROVE  Cell(kind, p, val) \in Cells /\ Cell(kind, p, val).val \in Nat
  BY DEF Cell, Cells

LEMMA OneCell ==
    ASSUME NEW c \in Cells, c.val \in Nat
    PROVE  /\ <<c>> \in Seq(Cells) /\ Len(<<c>>) = 1 /\ <<c>>[1] = c
           /\ \A i \in DOMAIN <<c>> : <<c>>[i].val \in Nat
  OBVIOUS

LEMMA TwoCells ==
    ASSUME NEW c \in Cells, c.val \in Nat, NEW d \in Cells, d.val \in Nat
    PROVE  /\ <<c, d>> \in Seq(Cells) /\ Len(<<c, d>>) = 2
           /\ <<c, d>>[1] = c /\ <<c, d>>[2] = d
           /\ \A i \in DOMAIN <<c, d>> : <<c, d>>[i].val \in Nat
  OBVIOUS

\* What a write leaves behind.
LEMMA PutType ==
    ASSUME TypeInv, NEW cells \in Seq(Cells), \A i \in DOMAIN cells : cells[i].val \in Nat,
           NEW where,
           \A p \in DOMAIN where : p \in Paths /\ where[p] \in 1..Len(wire) + Len(cells),
           Put(cells, where)
    PROVE  /\ Scalars' /\ Parcel' /\ pos' \in Nat \ {0} /\ Objects'
           /\ Len(wire) \in Nat /\ Len(wire') = Len(wire) + Len(cells)
           /\ Len(wire') \in Nat /\ Len(wire') >= Len(wire)
           /\ \A i \in 1..Len(wire) : wire'[i] = wire[i]
           /\ \A i \in 1..Len(cells) : wire'[Len(wire) + i] = cells[i]
<1>1. Scalars /\ Parcel /\ pos \in Nat \ {0} /\ Objects
  BY DEF TypeInv
<1>2. /\ wire' = wire \o cells
      /\ UNCHANGED <<client, server, phase, message, call, pos, got, result>>
      /\ place' = [p \in DOMAIN place \cup DOMAIN where |->
                     IF p \in DOMAIN where THEN where[p] ELSE place[p]]
  BY DEF Put
<1>3. /\ Len(wire) \in Nat /\ Len(cells) \in Nat /\ DOMAIN wire = 1..Len(wire)
      /\ DOMAIN cells = 1..Len(cells)
  BY <1>1, LenProperties DEF Parcel
<1>4. /\ wire' \in Seq(Cells) /\ Len(wire') = Len(wire) + Len(cells)
      /\ \A i \in 1..Len(wire) + Len(cells) :
            wire'[i] = IF i <= Len(wire) THEN wire[i] ELSE cells[i - Len(wire)]
  BY <1>1, <1>2, ConcatProperties DEF Parcel
<1>5. DOMAIN wire' = 1..Len(wire) + Len(cells)
  BY <1>4, LenProperties
<1>6. \A i \in DOMAIN wire' : wire'[i].val \in Nat
  <2> SUFFICES ASSUME NEW i \in 1..Len(wire) + Len(cells) PROVE wire'[i].val \in Nat
    BY <1>5
  <2>1. CASE i <= Len(wire)
    <3>1. i \in 1..Len(wire)
      BY <1>3, <2>1
    <3> QED
      BY <1>1, <1>3, <1>4, <2>1, <3>1 DEF Parcel
  <2>2. CASE ~(i <= Len(wire))
    <3>1. i - Len(wire) \in 1..Len(cells)
      BY <1>3, <2>2
    <3> QED
      BY <1>3, <1>4, <2>2, <3>1
  <2> QED
    BY <2>1, <2>2
<1>7. \A p \in DOMAIN place' : p \in Paths /\ place'[p] \in DOMAIN wire'
  <2> SUFFICES ASSUME NEW p \in DOMAIN place'
               PROVE  p \in Paths /\ place'[p] \in 1..Len(wire) + Len(cells)
    BY <1>5
  <2>1. CASE p \in DOMAIN where
    BY <1>2, <2>1
  <2>2. CASE p \notin DOMAIN where
    <3>1. p \in DOMAIN place /\ place'[p] = place[p]
      BY <1>2, <2>2
    <3>2. p \in Paths /\ place[p] \in 1..Len(wire)
      BY <1>1, <1>3, <3>1 DEF Parcel
    <3> QED
      BY <1>3, <3>1, <3>2
  <2> QED
    BY <2>1, <2>2
<1>8. \A i \in 1..Len(wire) : wire'[i] = wire[i]
  <2> SUFFICES ASSUME NEW i \in 1..Len(wire) PROVE wire'[i] = wire[i]
    OBVIOUS
  <2>1. i \in 1..Len(wire) + Len(cells) /\ i <= Len(wire)
    BY <1>3
  <2> QED
    BY <1>4, <2>1
<1>9. \A i \in 1..Len(cells) : wire'[Len(wire) + i] = cells[i]
  <2> SUFFICES ASSUME NEW i \in 1..Len(cells) PROVE wire'[Len(wire) + i] = cells[i]
    OBVIOUS
  <2>1. /\ Len(wire) + i \in 1..Len(wire) + Len(cells) /\ ~(Len(wire) + i <= Len(wire))
        /\ (Len(wire) + i) - Len(wire) = i
    BY <1>3
  <2> QED
    BY <1>4, <2>1
<1>10. Scalars' /\ Objects' /\ pos' \in Nat \ {0}
  BY <1>1, <1>2 DEF Scalars, Objects
<1>11. Parcel'
  BY <1>4, <1>6, <1>7 DEF Parcel
<1> QED
  BY <1>3, <1>4, <1>8, <1>9, <1>10, <1>11

\* The running field and the side that runs, as a write finds them.
LEMMA WritesField ==
    ASSUME TypeInv, phase = "writing", More
    PROVE  /\ stack # <<>> /\ At \in Paths /\ Field \in FieldType /\ call \in Nat
           /\ Len(wire) \in Nat /\ Writer \in Releases /\ Side = Writer
           /\ client \in Releases /\ server \in Releases
<1>1. Scalars /\ Parcel /\ Running
  BY DEF TypeInv
<1>2. stack # <<>>
  BY <1>1 DEF Running
<1>3. call \in Nat
  BY <1>1, ConstantTypes DEF Scalars
<1> QED
  BY <1>1, <1>2, <1>3, NextField, LenProperties DEF Scalars, Parcel, Writer, Side

\* A new activation on a side that declares its fields.
LEMMA BodyType ==
    ASSUME NEW t \in Parcelables, NEW r \in Releases, NEW start \in Nat, NEW size \in Nat,
           NEW path \in Paths, NEW ph, NEW n \in Nat, ph = "writing" => start <= n, NEW m
    PROVE  /\ Body(t, r, start, size, path) \in Activations
           /\ RunsAs(Body(t, r, start, size, path), ph, n, m, r)
<1>1. Len(Layout[t][r]) \in Nat
  BY ConstantTypes, LenProperties
<1> QED
  BY <1>1 DEF Body, Activation, Activations, RunsAs, Types

\* The arm a tag stands for.
LEMMA TagArm ==
    ASSUME NEW u \in Unions, NEW r \in Releases
    PROVE  /\ Len(Arms[u][r]) \in Nat /\ DOMAIN Arms[u][r] = 1..Len(Arms[u][r])
           /\ \A tag \in DOMAIN Arms[u][r] : tag \in Nat /\ Arms[u][r][tag] \in Variants
<1>1. Arms[u][r] \in Seq(Variants)
  BY ConstantTypes
<1> QED
  BY <1>1, LenProperties, ElementOfSeq

LEMMA ValueType ==
    ASSUME NEW arm \in Variants, NEW path \in Paths, NEW ph, NEW n \in Nat, NEW m, NEW r
    PROVE  /\ Value(arm, path) \in Activations
           /\ RunsAs(Value(arm, path), ph, n, m, r)
  BY DEF Value, Activation, Activations, RunsAs, Types

LEMMA ElementsType ==
    ASSUME NEW t \in Parcelables \cup Unions, NEW count \in Nat, NEW path \in Paths,
           NEW ph, NEW n \in Nat, NEW m, NEW r
    PROVE  /\ Elements(t, count, path) \in Activations
           /\ RunsAs(Elements(t, count, path), ph, n, m, r)
  BY DEF Elements, Activation, Activations, RunsAs, Types

LEMMA ArgumentsType ==
    ASSUME NEW m, NEW ph, NEW n \in Nat, NEW r
    PROVE  /\ Arguments(m) \in Activations /\ RunsAs(Arguments(m), ph, n, m, r)
           /\ <<Arguments(m)>> \in Seq(Activations)
           /\ Len(<<Arguments(m)>>) = 1 /\ <<Arguments(m)>>[1] = Arguments(m)
<1>1. Len(Fields(m)) \in Nat
  BY ConstantTypes, LenProperties
<1>2. Arguments(m) \in Activations /\ RunsAs(Arguments(m), ph, n, m, r)
  BY <1>1, PathTypes DEF Arguments, Activation, Activations, RunsAs, Types
<1> QED
  BY <1>2
----------------------------------------------------------------------------
(* The steps keep the types.                                               *)

LEMMA PutKeepsType ==
    ASSUME TypeInv, phase = "writing", More,
           NEW cells \in Seq(Cells), \A i \in DOMAIN cells : cells[i].val \in Nat,
           NEW where,
           \A p \in DOMAIN where : p \in Paths /\ where[p] \in 1..Len(wire) + Len(cells),
           Put(cells, where)
    PROVE  /\ stack' = Stepped => TypeInv'
           /\ \A b \in Activations :
                 /\ RunsAs(b, "writing", Len(wire) + Len(cells), message, Writer)
                 /\ stack' = Append(Stepped, b)
                 => TypeInv'
<1>1. /\ Scalars' /\ Parcel' /\ pos' \in Nat \ {0} /\ Objects'
      /\ Len(wire') = Len(wire) + Len(cells)
      /\ Len(wire') \in Nat /\ Len(wire') >= Len(wire)
  BY PutType
<1>2. UNCHANGED <<client, server, phase, message>>
  BY DEF Put
<1>3. stack # <<>> /\ Side = Writer
  BY WritesField
<1>4. Running' => TypeInv'
  BY <1>1 DEF TypeInv
<1> QED
  BY <1>1, <1>2, <1>3, <1>4, RunningOn

LEMMA WriteWordType ==
    ASSUME TypeInv, WriteWord
    PROVE  TypeInv'
<1> DEFINE cells == <<Cell("word", At, call)>>
           where == [p \in {At} |-> Behind(1)]
<1>1. phase = "writing" /\ More /\ stack' = Stepped /\ Put(cells, where)
  BY DEF WriteWord, Writing
<1>2. /\ cells \in Seq(Cells) /\ Len(cells) = 1
      /\ \A i \in DOMAIN cells : cells[i].val \in Nat
  BY <1>1, WritesField, CellTypes, OneCell
<1>3. \A p \in DOMAIN where : p \in Paths /\ where[p] \in 1..Len(wire) + Len(cells)
  BY <1>1, <1>2, WritesField DEF Behind
<1> HIDE DEF cells, where
<1> QED
  BY <1>1, <1>2, <1>3, PutKeepsType

LEMMA WriteUnionType ==
    ASSUME TypeInv, WriteUnion
    PROVE  TypeInv'
<1>1. PICK tag \in DOMAIN Arms[Field.of][Writer] :
        /\ Put(<<Cell("flag", At, 1), Cell("tag", At, tag)>>, [p \in {At} |-> Behind(1)])
        /\ stack' = Append(Stepped, Value(Arms[Field.of][Writer][tag], At))
  BY DEF WriteUnion
<1> DEFINE cells == <<Cell("flag", At, 1), Cell("tag", At, tag)>>
           where == [p \in {At} |-> Behind(1)]
           b     == Value(Arms[Field.of][Writer][tag], At)
<1>2. /\ phase = "writing" /\ More /\ stack' = Append(Stepped, b) /\ Put(cells, where)
      /\ Field.of \in Unions
  BY <1>1 DEF WriteUnion, Writing
<1>3. tag \in Nat /\ Arms[Field.of][Writer][tag] \in Variants
  BY <1>1, <1>2, WritesField, TagArm
<1>4. /\ cells \in Seq(Cells) /\ Len(cells) = 2
      /\ \A i \in DOMAIN cells : cells[i].val \in Nat
  BY <1>2, <1>3, WritesField, CellTypes, TwoCells
<1>5. \A p \in DOMAIN where : p \in Paths /\ where[p] \in 1..Len(wire) + Len(cells)
  BY <1>2, <1>4, WritesField DEF Behind
<1>6. b \in Activations /\ RunsAs(b, "writing", Len(wire) + Len(cells), message, Writer)
  <2>1. Len(wire) + Len(cells) \in Nat
    BY <1>2, <1>4, WritesField
  <2> QED
    BY <1>2, <1>3, <2>1, WritesField, ValueType
<1> HIDE DEF cells, where, b
<1> QED
  BY <1>2, <1>4, <1>5, <1>6, PutKeepsType

LEMMA WriteParcelableType ==
    ASSUME TypeInv, WriteParcelable
    PROVE  TypeInv'
<1> DEFINE cells == <<Cell("flag", At, 1), Cell("size", At, 0)>>
           where == [p \in {At} |-> Behind(1)]
           b     == Body(Field.of, Writer, Behind(2), 0, At)
<1>1. /\ phase = "writing" /\ More /\ stack' = Append(Stepped, b) /\ Put(cells, where)
      /\ Field.shape \in {"part", "maybe"} /\ Field.of \in Parcelables
  BY DEF WriteParcelable, Writing
<1>2. /\ cells \in Seq(Cells) /\ Len(cells) = 2
      /\ \A i \in DOMAIN cells : cells[i].val \in Nat
  BY <1>1, WritesField, CellTypes, TwoCells
<1>3. \A p \in DOMAIN where : p \in Paths /\ where[p] \in 1..Len(wire) + Len(cells)
  BY <1>1, <1>2, WritesField DEF Behind
<1>4. b \in Activations /\ RunsAs(b, "writing", Len(wire) + Len(cells), message, Writer)
  <2>2. Len(wire) + Len(cells) \in Nat /\ Behind(2) \in Nat
        /\ Behind(2) <= Len(wire) + Len(cells)
    BY <1>1, <1>2, WritesField DEF Behind
  <2> QED
    BY <1>1, <2>2, WritesField, BodyType
<1> HIDE DEF cells, where, b
<1> QED
  BY <1>1, <1>2, <1>3, <1>4, PutKeepsType

LEMMA WriteNullType ==
    ASSUME TypeInv, WriteNull
    PROVE  TypeInv'
<1> DEFINE cells == <<Cell("flag", At, 0)>>
           where == [p \in {At} |-> Behind(1)]
<1>1. phase = "writing" /\ More /\ stack' = Stepped /\ Put(cells, where)
  BY DEF WriteNull, Writing
<1>2. /\ cells \in Seq(Cells) /\ Len(cells) = 1
      /\ \A i \in DOMAIN cells : cells[i].val \in Nat
  BY <1>1, WritesField, CellTypes, OneCell
<1>3. \A p \in DOMAIN where : p \in Paths /\ where[p] \in 1..Len(wire) + Len(cells)
  BY <1>1, <1>2, WritesField DEF Behind
<1> HIDE DEF cells, where
<1> QED
  BY <1>1, <1>2, <1>3, PutKeepsType

LEMMA WriteVectorType ==
    ASSUME TypeInv, WriteVector
    PROVE  TypeInv'
<1>1. PICK n \in 0..MaxList :
        /\ Put(<<Cell("count", At, n)>>, [p \in {At} |-> Behind(1)])
        /\ stack' = Append(Stepped, Elements(Field.of, n, At))
  BY DEF WriteVector
<1> DEFINE cells == <<Cell("count", At, n)>>
           where == [p \in {At} |-> Behind(1)]
           b     == Elements(Field.of, n, At)
<1>2. /\ phase = "writing" /\ More /\ stack' = Append(Stepped, b) /\ Put(cells, where)
      /\ Field.shape = "list" /\ n \in Nat
  BY <1>1, ConstantTypes DEF WriteVector, Writing
<1>3. /\ cells \in Seq(Cells) /\ Len(cells) = 1
      /\ \A i \in DOMAIN cells : cells[i].val \in Nat
  BY <1>2, WritesField, CellTypes, OneCell
<1>4. \A p \in DOMAIN where : p \in Paths /\ where[p] \in 1..Len(wire) + Len(cells)
  BY <1>2, <1>3, WritesField DEF Behind
<1>5. b \in Activations /\ RunsAs(b, "writing", Len(wire) + Len(cells), message, Writer)
  <2>1. Field.of \in Parcelables \cup Unions /\ Len(wire) + Len(cells) \in Nat
    BY <1>2, <1>3, WritesField, FieldTypes
  <2> QED
    BY <1>2, <2>1, WritesField, ElementsType
<1> HIDE DEF cells, where, b
<1> QED
  BY <1>2, <1>3, <1>4, <1>5, PutKeepsType

LEMMA EndWriteType ==
    ASSUME TypeInv, EndWrite
    PROVE  TypeInv'
<1>1. /\ phase = "writing" /\ Len(stack) > 1 /\ stack' = Front(stack)
      /\ wire' = IF Top.start = 0 THEN wire
                 ELSE [wire EXCEPT ![Top.start].val = Behind(1) - Top.start]
      /\ UNCHANGED <<client, server, phase, message, call, pos, place, got, result>>
  BY DEF EndWrite
<1>2. Scalars /\ Parcel /\ pos \in Nat \ {0} /\ Running /\ Objects
  BY DEF TypeInv
<1>3. stack # <<>> /\ Top \in Activations /\ Runs(Top) /\ Len(wire) \in Nat
      /\ DOMAIN wire = 1..Len(wire)
  BY <1>1, <1>2, NextField, LenProperties DEF Running, Parcel
<1>4. Top.start \in Nat /\ Top.start <= Len(wire)
  BY <1>1, <1>3 DEF Activations, Runs, RunsAs
<1>5. /\ wire' \in Seq(Cells) /\ Len(wire') = Len(wire)
      /\ \A i \in DOMAIN wire' : wire'[i].val \in Nat
  <2>1. CASE Top.start = 0
    BY <1>1, <1>2, <2>1 DEF Parcel
  <2>2. CASE Top.start # 0
    <3> DEFINE c == [wire[Top.start] EXCEPT !.val = Behind(1) - Top.start]
    <3>1. Top.start \in 1..Len(wire)
      BY <1>3, <1>4, <2>2
    <3>2. wire[Top.start] \in Cells /\ Behind(1) - Top.start \in Nat
      BY <1>2, <1>3, <3>1, ElementOfSeq DEF Parcel, Behind
    <3>3. c \in Cells /\ c.val \in Nat
      BY <3>2 DEF Cells
    <3>4. wire' = [wire EXCEPT ![Top.start] = c]
      BY <1>1, <2>2
    <3> HIDE DEF c
    <3>5. /\ wire' \in Seq(Cells) /\ Len(wire') = Len(wire)
          /\ \A j \in 1..Len(wire) : wire'[j] = IF j = Top.start THEN c ELSE wire[j]
      BY <1>2, <3>1, <3>3, <3>4, ExceptSeq DEF Parcel
    <3>6. DOMAIN wire' = 1..Len(wire)
      BY <3>5, LenProperties
    <3> QED
      BY <1>2, <1>3, <3>3, <3>5, <3>6 DEF Parcel
  <2> QED
    BY <2>1, <2>2
<1>6. Parcel'
  <2>1. DOMAIN wire' = DOMAIN wire
    BY <1>3, <1>5, LenProperties
  <2> QED
    BY <1>1, <1>2, <1>5, <2>1 DEF Parcel
<1>7. Running'
  BY <1>1, <1>3, <1>5, RunningOn
<1> QED
  BY <1>1, <1>2, <1>6, <1>7 DEF TypeInv, Scalars, Objects

\* The operations on objects one by one: a field is set, a field and all it
\* holds goes, and elements beyond the n-th go.
LEMMA SetIs ==
    ASSUME NEW f, IsFull(f), NEW p \in Paths, NEW c \in Cells
    PROVE  /\ IsFull(Set(f, p, c)) /\ DOMAIN Set(f, p, c) = DOMAIN f \cup {p}
           /\ Set(f, p, c)[p] = c
           /\ \A q \in DOMAIN f : q # p => Set(f, p, c)[q] = f[q]
  BY DEF IsFull, Set

LEMMA WithoutIs ==
    ASSUME NEW f, IsFull(f), NEW p
    PROVE  /\ IsFull(Without(f, p)) /\ DOMAIN Without(f, p) \subseteq DOMAIN f
           /\ \A q \in DOMAIN f : q \in DOMAIN Without(f, p) <=> ~IsPrefix(p, q)
           /\ \A q \in DOMAIN Without(f, p) : Without(f, p)[q] = f[q]
  BY DEF IsFull, Without

LEMMA ResizedIs ==
    ASSUME NEW f, IsFull(f), NEW p, NEW n
    PROVE  /\ IsFull(Resized(f, p, n)) /\ DOMAIN Resized(f, p, n) \subseteq DOMAIN f
           /\ \A q \in DOMAIN f :
                 q \in DOMAIN Resized(f, p, n)
                 <=> ~(IsStrictPrefix(p, q) /\ q[Len(p) + 1].nr > n)
           /\ \A q \in DOMAIN Resized(f, p, n) : Resized(f, p, n)[q] = f[q]
  BY DEF IsFull, Resized

LEMMA EmptyIsFull == IsFull(Empty) /\ DOMAIN Empty = {}
  BY DEF IsFull, Empty

\* The running field and the side that runs, as a read finds them.
LEMMA ReadsField ==
    ASSUME TypeInv, phase = "reading", More
    PROVE  /\ stack # <<>> /\ At \in Paths /\ Field \in FieldType
           /\ Len(wire) \in Nat /\ Reader \in Releases /\ Side = Reader
           /\ client \in Releases /\ server \in Releases
           /\ message \in DOMAIN got /\ IsFull(got[message])
           /\ pos \in Nat \ {0}
           /\ Available(1) => wire[pos] \in Cells /\ wire[pos].val \in Nat
           /\ Available(2) => /\ Available(1) /\ wire[pos + 1] \in Cells
                              /\ wire[pos + 1].val \in Nat
<1>1. Scalars /\ Parcel /\ Running /\ Objects /\ pos \in Nat \ {0}
  BY DEF TypeInv
<1>2. stack # <<>>
  BY <1>1 DEF Running
<1>3. message \in DOMAIN got /\ IsFull(got[message])
  BY <1>1 DEF Scalars, Objects
<1>4. /\ wire \in Seq(Cells) /\ Len(wire) \in Nat
      /\ \A i \in 1..Len(wire) : wire[i] \in Cells /\ wire[i].val \in Nat
  BY <1>1, LenProperties, ElementOfSeq DEF Parcel
<1>5. /\ Available(1) => pos \in 1..Len(wire)
      /\ Available(2) => pos + 1 \in 1..Len(wire) /\ Available(1)
  BY <1>1, <1>4 DEF Available
<1> QED
  BY <1>1, <1>2, <1>3, <1>4, <1>5, NextField DEF Scalars, Reader, Side

LEMMA TakeKeepsType ==
    ASSUME TypeInv, phase = "reading", More, NEW n \in Nat, NEW object, IsFull(object),
           Take(n, object)
    PROVE  /\ stack' = Stepped => TypeInv'
           /\ \A b \in Activations :
                 RunsAs(b, "reading", Len(wire), message, Reader)
                 /\ stack' = Append(Stepped, b)
                 => TypeInv'
<1>1. /\ UNCHANGED <<client, server, phase, message, call, wire, place, result>>
      /\ pos' = pos + n /\ got' = [got EXCEPT ![message] = object]
  BY DEF Take
<1>2. Scalars /\ Parcel /\ Objects /\ pos \in Nat \ {0}
  BY DEF TypeInv
<1>3. Objects'
  BY <1>1, <1>2 DEF Objects, Scalars
<1>4. Scalars' /\ Parcel' /\ pos' \in Nat \ {0}
  BY <1>1, <1>2 DEF Scalars, Parcel
<1>5. Running' => TypeInv'
  BY <1>3, <1>4 DEF TypeInv
<1>6. Len(wire') \in Nat /\ Len(wire') >= Len(wire)
  BY <1>1, ReadsField
<1> QED
  BY <1>1, <1>5, <1>6, ReadsField, RunningOn

LEMMA ReadWordType ==
    ASSUME TypeInv, ReadWord
    PROVE  TypeInv'
<1> DEFINE object == Set(got[message], At, wire[pos])
<1>1. /\ phase = "reading" /\ More /\ Available(1) /\ stack' = Stepped /\ Take(1, object)
  BY DEF ReadWord, Reading
<1>2. IsFull(object)
  BY <1>1, ReadsField, SetIs, WithoutIs, ResizedIs
<1> HIDE DEF object
<1> QED
  BY <1>1, <1>2, TakeKeepsType

LEMMA ReadUnionType ==
    ASSUME TypeInv, ReadUnion
    PROVE  TypeInv'
<1> DEFINE base   == Without(got[message], At)
           object == Set(base, At, wire[pos])
           b      == Value(Arms[Field.of][Reader][wire[pos + 1].val], At)
<1>1. /\ phase = "reading" /\ More /\ Available(2) /\ stack' = Append(Stepped, b)
      /\ Take(2, object) /\ Field.of \in Unions
      /\ wire[pos + 1].val \in DOMAIN Arms[Field.of][Reader]
  BY DEF ReadUnion, ReadingBody, Reading
<1>2. IsFull(base)
  BY <1>1, ReadsField, SetIs, WithoutIs, ResizedIs
<1> HIDE DEF base
<1>3. IsFull(object)
  BY <1>1, <1>2, ReadsField, SetIs, WithoutIs, ResizedIs
<1>4. b \in Activations /\ RunsAs(b, "reading", Len(wire), message, Reader)
  BY <1>1, ReadsField, TagArm, ValueType
<1> HIDE DEF object, b
<1> QED
  BY <1>1, <1>3, <1>4, TakeKeepsType

LEMMA ReadParcelableType ==
    ASSUME TypeInv, ReadParcelable
    PROVE  TypeInv'
<1> DEFINE base   == IF Field.shape = "maybe" THEN Without(got[message], At)
                     ELSE got[message]
           object == Set(base, At, wire[pos])
           b      == Body(Field.of, Reader, pos + 1, wire[pos + 1].val, At)
<1>1. /\ phase = "reading" /\ More /\ Available(2) /\ stack' = Append(Stepped, b)
      /\ Take(2, object) /\ Field.of \in Parcelables
  BY DEF ReadParcelable, ReadingBody, Reading
<1>2. IsFull(base)
  BY <1>1, ReadsField, SetIs, WithoutIs, ResizedIs
<1> HIDE DEF base
<1>3. IsFull(object)
  BY <1>1, <1>2, ReadsField, SetIs, WithoutIs, ResizedIs
<1>4. b \in Activations /\ RunsAs(b, "reading", Len(wire), message, Reader)
  <2>1. pos + 1 \in Nat
    BY <1>1, ReadsField
  <2> QED
    BY <1>1, <2>1, ReadsField, BodyType
<1> HIDE DEF object, b
<1> QED
  BY <1>1, <1>3, <1>4, TakeKeepsType

LEMMA ReadNullType ==
    ASSUME TypeInv, ReadNull
    PROVE  TypeInv'
<1> DEFINE base   == Without(got[message], At)
           object == Set(base, At, wire[pos])
<1>1. /\ phase = "reading" /\ More /\ Available(1) /\ stack' = Stepped /\ Take(1, object)
  BY DEF ReadNull, Reading
<1>2. IsFull(base)
  BY <1>1, ReadsField, SetIs, WithoutIs, ResizedIs
<1> HIDE DEF base
<1>3. IsFull(object)
  BY <1>1, <1>2, ReadsField, SetIs, WithoutIs, ResizedIs
<1> HIDE DEF object
<1> QED
  BY <1>1, <1>3, TakeKeepsType

LEMMA ReadVectorType ==
    ASSUME TypeInv, ReadVector
    PROVE  TypeInv'
<1> DEFINE base   == Resized(got[message], At, wire[pos].val)
           object == Set(base, At, wire[pos])
           b      == Elements(Field.of, wire[pos].val, At)
<1>1. /\ phase = "reading" /\ More /\ Available(1) /\ stack' = Append(Stepped, b)
      /\ Take(1, object) /\ Field.shape = "list"
  BY DEF ReadVector, Reading
<1>2. IsFull(base)
  BY <1>1, ReadsField, SetIs, WithoutIs, ResizedIs
<1> HIDE DEF base
<1>3. IsFull(object)
  BY <1>1, <1>2, ReadsField, SetIs, WithoutIs, ResizedIs
<1>4. b \in Activations /\ RunsAs(b, "reading", Len(wire), message, Reader)
  <2>1. Field.of \in Parcelables \cup Unions
    BY <1>1, ReadsField, FieldTypes
  <2> QED
    BY <1>1, <2>1, ReadsField, ElementsType
<1> HIDE DEF object, b
<1> QED
  BY <1>1, <1>3, <1>4, TakeKeepsType

LEMMA LeaveType ==
    ASSUME TypeInv, phase = "reading", Len(stack) > 1, Leave
    PROVE  TypeInv'
<1>1. /\ UNCHANGED <<client, server, phase, message, call, wire, place, got, result>>
      /\ pos' = IF Top.size = 0 THEN pos ELSE Top.start + Top.size
      /\ stack' = Front(stack)
  BY DEF Leave
<1>2. Scalars /\ Parcel /\ Running /\ Objects /\ pos \in Nat \ {0}
  BY DEF TypeInv
<1>3. stack # <<>> /\ Top.size \in Nat /\ Top.start \in Nat
  <2>1. stack # <<>>
    BY <1>2 DEF Running
  <2> QED
    BY <2>1, NextField DEF Activations
<1>4. pos' \in Nat \ {0}
  BY <1>1, <1>2, <1>3
<1>5. Len(wire') \in Nat /\ Len(wire') >= Len(wire)
  BY <1>1, <1>2, LenProperties DEF Parcel
<1>6. Running'
  BY <1>1, <1>3, <1>5, RunningOn
<1> QED
  BY <1>1, <1>2, <1>4, <1>6 DEF TypeInv, Scalars, Parcel, Objects

LEMMA OverType ==
    ASSUME TypeInv, Scalars', stack' = <<>>, phase' \notin {"writing", "reading"},
           UNCHANGED <<wire, pos, place, got>>
    PROVE  TypeInv'
<1>1. Running'
  BY DEF Running, Activations
<1> QED
  BY <1>1 DEF TypeInv, Parcel, Objects

LEMMA StartType ==
    ASSUME TypeInv, Scalars', Parcel', Objects', pos' \in Nat \ {0},
           phase' \in {"writing", "reading"}, stack' = <<Arguments(message')>>
    PROVE  TypeInv'
<1>1. Len(wire') \in Nat
  BY LenProperties DEF Parcel
<1>2. /\ stack' \in Seq(Activations) /\ stack' # <<>> /\ stack'[1].size = 0
      /\ DOMAIN stack' = {1} /\ RunsAs(stack'[1], phase', Len(wire'), message', Side')
  <2>1. /\ Arguments(message') \in Activations /\ Arguments(message').size = 0
        /\ RunsAs(Arguments(message'), phase', Len(wire'), message', Side')
    BY <1>1, ArgumentsType DEF Arguments, Activation
  <2> QED
    BY <2>1
<1>3. Running'
  BY <1>2 DEF Running, Runs
<1> QED
  BY <1>3 DEF TypeInv

LEMMA ObstacleType == Obstacle \in Statuses
  BY Zenon DEF Obstacle, Statuses

LEMMA NextType ==
    ASSUME TypeInv, [Next]_vars
    PROVE  TypeInv'
<1>0. Scalars /\ Parcel /\ Running /\ Objects /\ pos \in Nat \ {0}
  BY DEF TypeInv
<1>1. CASE Connect
  <2>1. Scalars'
    BY <1>0, <1>1 DEF Connect, Scalars, Statuses
  <2> QED
    BY <1>0, <1>1, <2>1 DEF Connect, TypeInv, Parcel, Running, Objects
<1>2. ASSUME NEW m \in {"request", "reply"}, StartWriting(m), Scalars', got' = got
      PROVE  TypeInv'
  <2>1. Parcel' /\ pos' \in Nat \ {0} /\ Objects'
    BY <1>0, <1>2 DEF StartWriting, Parcel, Objects, Empty
  <2> QED
    BY <1>2, <2>1, StartType DEF StartWriting
<1>3. CASE Call
  <2>1. call' \in 0..MaxCalls
    BY <1>0, <1>3, ConstantTypes DEF Call, Scalars
  <2>2. Scalars'
    BY <1>0, <1>3, <2>1 DEF Call, StartWriting, Scalars, Statuses
  <2> QED
    BY <1>2, <1>3, <2>2 DEF Call
<1>6. ASSUME NEW status \in Statuses, Ended(status) PROVE TypeInv'
  <2>1. Scalars'
    BY <1>0, <1>6 DEF Ended, Scalars
  <2> QED
    BY <1>6, <2>1, OverType DEF Ended
<1>4. CASE Handle
  <2>1. ASSUME StartWriting("reply"), UNCHANGED <<client, server, call, got, result>>
        PROVE  TypeInv'
    <3>1. Scalars'
      BY <1>0, <2>1 DEF StartWriting, Scalars
    <3> QED
      BY <1>2, <2>1, <3>1
  <2>2. "EXCEPTION" \in Statuses
    BY DEF Statuses
  <2> QED
    BY <1>4, <1>6, <2>1, <2>2 DEF Handle
<1>5. CASE Transact
  <2>1. CASE message = "request" /\ Descriptor[client] # Descriptor[server]
    <3>1. Ended("BAD_TYPE") /\ "BAD_TYPE" \in Statuses
      BY <1>5, <2>1 DEF Transact, Statuses
    <3> QED
      BY <1>6, <3>1
  <2>2. CASE ~(message = "request" /\ Descriptor[client] # Descriptor[server])
    <3>1. /\ phase' = "reading" /\ stack' = <<Arguments(message)>>
          /\ got' = IF message = "request" THEN [got EXCEPT !.request = Empty] ELSE got
          /\ UNCHANGED <<client, server, message, call, wire, pos, place, result>>
      BY <1>5, <2>2 DEF Transact
    <3>2. Scalars' /\ Parcel' /\ pos' \in Nat \ {0}
      BY <1>0, <3>1 DEF Scalars, Parcel
    <3>3. Objects'
      BY <1>0, <3>1, EmptyIsFull DEF Objects
    <3> QED
      BY <3>1, <3>2, <3>3, StartType
  <2> QED
    BY <2>1, <2>2
<1>7. CASE WriteFails
  BY <1>6, <1>7 DEF WriteFails, Statuses
<1>8. CASE Die
  <2>1. Scalars'
    BY <1>0, <1>8 DEF Die, Scalars, Statuses
  <2> QED
    BY <1>8, <2>1, OverType DEF Die
<1>9. CASE Write
  BY <1>9, WriteWordType, WriteUnionType, WriteParcelableType, WriteNullType,
     WriteVectorType, EndWriteType DEF Write
<1>10. CASE SkipAbsent
  <2>1. phase = "reading" /\ More /\ Exhausted /\ Leave
    BY <1>10 DEF SkipAbsent
  <2>2. stack # <<>> /\ Len(stack) \in Nat \ {0} /\ Top = stack[Len(stack)]
    BY <2>1, ReadsField, NextField
  <2>3. Len(stack) # 1
    BY <1>0, <2>1, <2>2 DEF Running, Exhausted
  <2>4. Len(stack) > 1
    BY <2>2, <2>3
  <2> QED
    BY <2>1, <2>4, LeaveType
<1>11. CASE EndRead
  BY <1>11, LeaveType DEF EndRead
<1>12. CASE Read
  BY <1>10, <1>11, <1>12, ReadWordType, ReadUnionType, ReadParcelableType,
     ReadNullType, ReadVectorType DEF Read
<1>13. CASE ReadFails
  <2>1. "NO_MEMORY" \in Statuses
    BY DEF Statuses
  <2> QED
    BY <1>6, <1>13, <2>1, ObstacleType DEF ReadFails
<1>14. CASE EndArguments
  <2>1. CASE pos <= Len(wire)
    BY <1>6, <1>14, <2>1 DEF EndArguments, Statuses
  <2>2. CASE ~(pos <= Len(wire))
    <3>1. Scalars'
      BY <1>0, <1>14, <2>2 DEF EndArguments, Scalars
    <3> QED
      BY <1>14, <2>2, <3>1, OverType DEF EndArguments
  <2> QED
    BY <2>1, <2>2
<1>15. CASE Return
  BY <1>6, <1>15 DEF Return, Statuses
<1>16. CASE UNCHANGED vars
  BY <1>0, <1>16 DEF vars, TypeInv, Scalars, Parcel, Running, Objects, Runs,
                     Side, Writer, Reader
<1> QED
  BY <1>1, <1>3, <1>4, <1>5, <1>7, <1>8, <1>9, <1>12, <1>13, <1>14, <1>15, <1>16 DEF Next

LEMMA TypeInvariance == Spec => []TypeInv
<1>1. ASSUME Init PROVE TypeInv
  <2>1. Scalars
    BY <1>1, ConstantTypes DEF Init, Scalars, Statuses
  <2>2. Parcel /\ pos \in Nat \ {0}
    BY <1>1 DEF Init, Parcel, Empty
  <2>3. Running
    BY <1>1 DEF Init, Running
  <2>4. Objects
    BY <1>1, EmptyIsFull DEF Init, Objects
  <2> QED
    BY <2>1, <2>2, <2>3, <2>4 DEF TypeInv
<1> QED
  BY <1>1, NextType, PTL DEF Spec

\* The parcel, the running activations and both objects keep to what the
\* generated code can hold, for any layouts and whichever releases talk to each
\* other.
THEOREM TypeCorrect == Spec => []TypeOK
  BY TypeInvariance, TypeInvTypes, PTL
----------------------------------------------------------------------------
(* Paths.                                                                  *)

LEMMA PathIs ==
    ASSUME NEW p \in Paths
    PROVE  /\ p \in Seq(Steps) /\ Len(p) \in Nat /\ DOMAIN p = 1..Len(p)
           /\ \A i \in 1..Len(p) : p[i] \in Steps
           /\ p # <<>> => Len(p) \in 1..Len(p) /\ Last(p) = p[Len(p)] /\ Last(p) \in Steps
           /\ p = <<>> <=> Len(p) = 0
<1>1. p \in Seq(Steps) /\ Len(p) \in Nat /\ DOMAIN p = 1..Len(p)
  BY PathTypes, LenProperties
<1>2. \A i \in 1..Len(p) : p[i] \in Steps
  BY <1>1, ElementOfSeq
<1>3. p # <<>> => Len(p) \in Nat \ {0}
  BY <1>1, EmptySeq
<1>4. p # <<>> => Len(p) \in 1..Len(p)
  BY <1>3
<1> QED
  BY <1>1, <1>2, <1>3, <1>4, EmptySeq DEF Last

LEMMA UnderItself ==
    ASSUME NEW p \in Paths
    PROVE  Under(p, p)
  BY PathIs DEF Under

LEMMA UnderTransitive ==
    ASSUME NEW p \in Paths, NEW q \in Paths, NEW r \in Paths, Under(p, q), Under(q, r)
    PROVE  Under(p, r)
<1>1. Len(p) \in Nat /\ Len(q) \in Nat /\ Len(r) \in Nat
  BY PathIs
<1>2. \A i \in 1..Len(p) : i \in 1..Len(q)
  BY <1>1 DEF Under
<1> QED
  BY <1>1, <1>2 DEF Under

LEMMA UnderEqual ==
    ASSUME NEW p \in Paths, NEW q \in Paths, Under(p, q), Len(p) >= Len(q)
    PROVE  p = q
<1>1. p \in Seq(Steps) /\ q \in Seq(Steps) /\ Len(p) \in Nat /\ Len(q) \in Nat
  BY PathIs
<1>2. Len(p) = Len(q)
  BY <1>1 DEF Under
<1> QED
  BY <1>1, <1>2, SeqEqual DEF Under

LEMMA UnderLonger ==
    ASSUME NEW p \in Paths, NEW q \in Paths, NEW s \in Steps
    PROVE  /\ Under(q, Append(q, s)) /\ ~Under(Append(q, s), q)
           /\ Under(p, Append(q, s)) <=> Under(p, q) \/ p = Append(q, s)
<1>1. /\ Append(q, s) \in Paths /\ Len(Append(q, s)) = Len(q) + 1
      /\ \A i \in 1..Len(q) : Append(q, s)[i] = q[i]
  BY Longer
<1>2. Len(p) \in Nat /\ Len(q) \in Nat
  BY PathIs
<1>3. Under(q, Append(q, s)) /\ ~Under(Append(q, s), q)
  BY <1>1, <1>2 DEF Under
<1>4. ASSUME Under(p, Append(q, s)), p # Append(q, s) PROVE Under(p, q)
  <2>1. Len(p) <= Len(q)
    <3>1. ~(Len(p) >= Len(Append(q, s)))
      BY <1>1, <1>4, UnderEqual
    <3> QED
      BY <1>1, <1>2, <3>1
  <2> QED
    BY <1>1, <1>2, <1>4, <2>1 DEF Under
<1>5. Under(p, q) => Under(p, Append(q, s))
  BY <1>1, <1>3, UnderTransitive
<1>6. p = Append(q, s) => Under(p, Append(q, s))
  BY <1>1, UnderItself
<1> QED
  BY <1>3, <1>4, <1>5, <1>6

LEMMA PrefixIs ==
    ASSUME NEW p \in Paths, NEW n \in 0..Len(p)
    PROVE  /\ SubSeq(p, 1, n) \in Paths /\ Len(SubSeq(p, 1, n)) = n
           /\ \A i \in 1..n : SubSeq(p, 1, n)[i] = p[i]
           /\ Under(SubSeq(p, 1, n), p)
<1>1. Len(p) \in Nat /\ \A i \in 1..n : p[i] \in Steps
  BY PathIs
<1> DEFINE q == SubSeq(p, 1, n)
<1>2. /\ q \in Seq(Steps) /\ Len(q) = IF 1 <= n THEN n - 1 + 1 ELSE 0
      /\ \A i \in 1..n - 1 + 1 : q[i] = p[1 + i - 1]
  BY <1>1, SubSeqProperties
<1> HIDE DEF q
<1>3. Len(q) = n
  BY <1>1, <1>2
<1>4. \A i \in 1..n : i \in 1..n - 1 + 1 /\ 1 + i - 1 = i
  BY <1>1
<1>5. \A i \in 1..n : q[i] = p[i]
  BY <1>2, <1>4
<1>6. q \in Paths
  BY <1>2, PathTypes
<1>7. Under(q, p)
  BY <1>1, <1>3, <1>5 DEF Under
<1> QED
  BY <1>3, <1>5, <1>6, <1>7 DEF q

\* A path below p begins with p.
LEMMA UnderPrefix ==
    ASSUME NEW p \in Paths, NEW q \in Paths, Under(p, q)
    PROVE  Len(p) \in 0..Len(q) /\ SubSeq(q, 1, Len(p)) = p
<1>1. Len(p) \in 0..Len(q)
  BY PathIs DEF Under
<1>2. /\ SubSeq(q, 1, Len(p)) \in Paths /\ Len(SubSeq(q, 1, Len(p))) = Len(p)
      /\ \A i \in 1..Len(p) : SubSeq(q, 1, Len(p))[i] = q[i]
  BY <1>1, PrefixIs
<1>3. Under(p, SubSeq(q, 1, Len(p)))
  BY <1>1, <1>2, PathIs DEF Under
<1>4. Len(p) >= Len(SubSeq(q, 1, Len(p)))
  BY <1>2, PathIs
<1>5. p = SubSeq(q, 1, Len(p))
  BY <1>2, <1>3, <1>4, UnderEqual
<1> QED
  BY <1>1, <1>5

LEMMA PrefixOfLonger ==
    ASSUME NEW p \in Paths, NEW s \in Steps, NEW n \in 0..Len(p)
    PROVE  SubSeq(Append(p, s), 1, n) = SubSeq(p, 1, n)
<1>1. Append(p, s) \in Paths
  BY Longer
<1>2. /\ SubSeq(p, 1, n) \in Paths /\ Len(SubSeq(p, 1, n)) = n
      /\ Under(SubSeq(p, 1, n), p)
  BY PrefixIs
<1>3. Under(SubSeq(p, 1, n), Append(p, s))
  BY <1>2, UnderLonger
<1> QED
  BY <1>1, <1>2, <1>3, UnderPrefix

LEMMA LongerInjective ==
    ASSUME NEW p \in Paths, NEW s \in Steps, NEW q \in Paths, NEW t \in Steps
    PROVE  Append(p, s) = Append(q, t) <=> p = q /\ s = t
  BY PathTypes, AppendInjective
----------------------------------------------------------------------------
(* The tree while it is written.                                           *)

LEMMA InnerIs ==
    ASSUME TypeInv, NEW e, Tree(e), NEW p \in Nodes, Inner(p)
    PROVE  /\ p \in Paths /\ In(p) \in {"args", "fields", "list", "arm"} /\ Of(p) \in Types
           /\ p = <<>> => In(p) = "args"
           /\ p # <<>> => /\ p \in DOMAIN place /\ In(p) # "args"
                          /\ Declared(p) \in FieldType
                          /\ Declared(p).of \in Parcelables \cup Unions
                          /\ IsList(p) => /\ In(p) = "list" /\ Of(p) = Declared(p).of
                                          /\ Declared(p).shape = "list" /\ ~IsUnion(p)
                          /\ ~IsList(p) => /\ IsBody(p)
                                           /\ Declared(p).shape \in {"part", "maybe"}
                          /\ IsUnion(p) =>
                               /\ In(p) = "arm" /\ Of(p) \in Variants /\ ~IsList(p)
                               /\ Declared(p).of \in Unions
                          /\ ~IsList(p) /\ ~IsUnion(p) =>
                               /\ In(p) = "fields" /\ Of(p) = Declared(p).of
                               /\ Of(p) \in Parcelables
<1>1. CASE p = <<>>
  BY <1>1, PathTypes DEF In, Of, Types
<1>2. CASE p # <<>>
  <2>1. p \in DOMAIN place /\ Extent(e, p) /\ Shaped(e, p)
    BY <1>2 DEF Nodes, Tree
  <2>2. p \in Paths
    BY <2>1 DEF Extent
  <2>3. IsList(p) \/ IsBody(p)
    BY <1>2 DEF Inner
  <2>4. Declared(p) \in FieldType
    BY <2>1 DEF Shaped
  <2>5. Declared(p).shape \in {"word", "part", "maybe", "list"}
    BY <2>4, FieldTypes
  <2>6. CASE IsList(p)
    <3>1. Declared(p).shape = "list"
      BY <2>1, <2>5, <2>6 DEF Shaped, IsList
    <3>2. ~IsUnion(p)
      BY <2>6 DEF IsUnion, IsBody, IsList
    <3>3. Of(p) = Declared(p).of /\ In(p) = "list"
      BY <1>2, <2>6, <3>2 DEF In, Of
    <3> QED
      BY <1>2, <2>1, <2>2, <2>4, <2>6, <3>1, <3>2, <3>3, FieldTypes
  <2>7. CASE ~IsList(p) /\ IsUnion(p)
    <3>1. IsBody(p) /\ Declared(p).of \in Unions
      BY <2>7 DEF IsUnion
    <3>2. Declared(p).shape \in {"part", "maybe"}
      BY <2>1, <2>5, <2>7, <3>1 DEF Shaped, IsList, IsBody
    <3>3. Writer \in Releases
      BY DEF TypeInv, Scalars, Writer
    <3>4. HeadAt(p).val \in DOMAIN Arms[Declared(p).of][Writer]
      BY <2>1, <2>7 DEF Shaped
    <3>5. Of(p) = Arms[Declared(p).of][Writer][HeadAt(p).val] /\ In(p) = "arm"
      BY <1>2, <2>7 DEF In, Of
    <3>6. Of(p) \in Variants
      BY <3>1, <3>3, <3>4, <3>5, TagArm
    <3>7. Of(p) \in Types
      BY <3>6 DEF Types
    <3> QED
      BY <1>2, <2>1, <2>2, <2>4, <2>7, <3>1, <3>2, <3>5, <3>6, <3>7
  <2>8. CASE ~IsList(p) /\ ~IsUnion(p)
    <3>1. IsBody(p)
      BY <2>3, <2>8
    <3>2. Declared(p).shape \in {"part", "maybe"}
      BY <2>1, <2>5, <2>8, <3>1 DEF Shaped, IsList, IsBody
    <3>3. Of(p) = Declared(p).of /\ In(p) = "fields"
      BY <1>2, <2>8 DEF In, Of
    <3>4. Of(p) \in Parcelables
      BY <2>4, <2>8, <3>1, <3>2, <3>3, FieldTypes DEF IsUnion
    <3> QED
      BY <1>2, <2>1, <2>2, <2>4, <2>8, <3>1, <3>2, <3>3, <3>4, FieldTypes
  <2> QED
    BY <2>6, <2>7, <2>8
<1> QED
  BY <1>1, <1>2

LEMMA KidIs ==
    ASSUME TypeInv, NEW e, Tree(e), NEW p \in Nodes, Inner(p), NEW k \in Nat
    PROVE  /\ Kid(p, k) \in Paths /\ Kid(p, k) # <<>> /\ Len(Kid(p, k)) = Len(p) + 1
           /\ Front(Kid(p, k)) = p /\ Last(Kid(p, k)) = Step(In(p), Of(p), k)
           /\ Step(In(p), Of(p), k) \in Steps
           /\ Last(Kid(p, k)).nr = k
           /\ \A j \in Nat : Kid(p, j) = Kid(p, k) <=> j = k
<1>1. p \in Paths /\ In(p) \in {"args", "fields", "list", "arm"} /\ Of(p) \in Types
  BY InnerIs
<1>2. \A j \in Nat : Step(In(p), Of(p), j) \in Steps
  BY <1>1, PathTypes
<1>3. /\ Kid(p, k) \in Paths /\ Kid(p, k) # <<>> /\ Len(Kid(p, k)) = Len(p) + 1
      /\ Front(Kid(p, k)) = p /\ Last(Kid(p, k)) = Step(In(p), Of(p), k)
  BY <1>1, <1>2, Longer DEF Kid
<1>4. Last(Kid(p, k)).nr = k
  BY <1>1, <1>3 DEF Step
<1>5. \A j \in Nat : Kid(p, j) = Kid(p, k) <=> j = k
  <2> SUFFICES ASSUME NEW j \in Nat, Kid(p, j) = Kid(p, k) PROVE j = k
    OBVIOUS
  <2>1. Step(In(p), Of(p), j) = Step(In(p), Of(p), k)
    BY <1>1, <1>2, LongerInjective DEF Kid
  <2> QED
    BY <2>1 DEF Step
<1> QED
  BY <1>2, <1>3, <1>4, <1>5

\* The nodes being written are the path to the running activation.
LEMMA OpenIs ==
    ASSUME TypeInv, phase = "writing", NEW e, Tree(e), Growing(e)
    PROVE  /\ Len(stack) \in Nat \ {0} /\ Top = stack[Len(stack)] /\ Writes(Len(stack))
           /\ \A i \in 1..Len(stack) : stack[i].path \in Paths /\ Len(stack[i].path) = i - 1
           /\ Top.path \in Open /\ Top.path \in Nodes /\ Top.path \in Paths /\ Inner(Top.path)
           /\ \A p \in Paths : Under(p, Top.path) <=> p \in Open
           /\ <<>> \in Open /\ \A p \in Open : p \in Nodes /\ p \in Paths /\ Inner(p)
           /\ \A p \in Open : Len(p) <= Len(Top.path)
           /\ \A p \in Open : p # <<>> => Front(p) \in Open
<1>1. Running
  BY DEF TypeInv
<1>2. /\ stack \in Seq(Activations) /\ stack # <<>> /\ DOMAIN stack = 1..Len(stack)
      /\ Len(stack) \in Nat \ {0} /\ Top = stack[Len(stack)]
  BY <1>1, NextField, LenProperties DEF Running
<1>3. \A i \in 1..Len(stack) : Writes(i) /\ stack[i] \in Activations
  BY <1>2, ElementOfSeq DEF Growing
<1>4. \A i \in 1..Len(stack) : stack[i].path \in Paths /\ Len(stack[i].path) = i - 1
  BY <1>3 DEF Writes, Activations
<1>5. Open = {stack[i].path : i \in 1..Len(stack)}
  BY <1>2 DEF Open
<1>6. Len(stack) \in 1..Len(stack) /\ 1 \in 1..Len(stack)
  BY <1>2
<1>7. Top.path \in Open /\ Top.path \in Paths /\ Len(Top.path) = Len(stack) - 1
  BY <1>2, <1>4, <1>5, <1>6
<1>8. \A i \in 1..Len(stack) : /\ stack[i].path \in Nodes /\ Inner(stack[i].path)
                               /\ Under(stack[i].path, Top.path)
  BY <1>2, <1>3, <1>6 DEF Writes
<1>9. ASSUME NEW p \in Paths, Under(p, Top.path) PROVE p \in Open
  <2>1. Len(p) \in Nat /\ Len(p) <= Len(Top.path)
    BY <1>9, PathIs DEF Under
  <2>2. Len(p) + 1 \in 1..Len(stack)
    <3>1. Len(p) <= Len(stack) - 1
      BY <1>7, <2>1
    <3> QED
      BY <1>2, <2>1, <3>1
  <2> DEFINE q == stack[Len(p) + 1].path
  <2>3. q \in Paths /\ Len(q) = Len(p) /\ Under(q, Top.path) /\ q \in Open
    BY <1>4, <1>5, <1>8, <2>1, <2>2
  <2>4. q = SubSeq(Top.path, 1, Len(p)) /\ p = SubSeq(Top.path, 1, Len(p))
    BY <1>7, <1>9, <2>3, UnderPrefix
  <2> QED
    BY <2>3, <2>4
<1>10. <<>> \in Open
  <2>1. stack[1].path = <<>>
    BY <1>4, <1>6, PathIs
  <2> QED
    BY <1>5, <1>6, <2>1
<1>11. \A p \in Open : /\ p \in Nodes /\ p \in Paths /\ Inner(p) /\ Under(p, Top.path)
  BY <1>4, <1>5, <1>8
<1>12. \A p \in Open : Len(p) <= Len(Top.path)
  BY <1>11 DEF Under
<1>13. ASSUME NEW p \in Open, p # <<>> PROVE Front(p) \in Open
  <2>1. PICK i \in 1..Len(stack) : p = stack[i].path
    BY <1>5
  <2>2. i > 1
    BY <1>4, <1>13, <2>1, PathIs
  <2>3. i - 1 \in 1..Len(stack)
    BY <1>2, <2>2
  <2>4. p = Kid(stack[i - 1].path, stack[i - 1].next - 1)
    BY <1>3, <2>1, <2>2 DEF Writes
  <2>5. stack[i - 1].next - 1 \in Nat
    BY <1>3, <2>3 DEF Writes, Activations
  <2>6. Front(p) = stack[i - 1].path
    BY <1>8, <2>3, <2>4, <2>5, KidIs
  <2> QED
    BY <1>5, <2>3, <2>6
<1> QED
  BY <1>2, <1>3, <1>4, <1>6, <1>7, <1>9, <1>10, <1>11, <1>12, <1>13

\* The field that is written next is not in the parcel yet, and is below what is
\* being written only.
LEMMA AtIs ==
    ASSUME TypeInv, phase = "writing", More, NEW e, Tree(e), Growing(e)
    PROVE  /\ At = Kid(Top.path, Top.next) /\ At \in Paths /\ At # <<>>
           /\ At \notin DOMAIN place /\ At \notin Open
           /\ Top.next \in 1..Count(Top.path) /\ Top.next \in Nat
           /\ Last(At) = Here /\ Front(At) = Top.path
           /\ Last(At).nr = Top.next /\ Len(At) = Len(Top.path) + 1
           /\ Field = Declared(At) /\ Field \in FieldType
           /\ \A p \in DOMAIN place : ~Under(At, p) /\ (Under(p, At) <=> p \in Open)
           /\ \A s \in Steps :
                 /\ Append(At, s) \in Paths /\ Append(At, s) \notin DOMAIN place
                 /\ Append(At, s) \notin Open
                 /\ \A p \in DOMAIN place : /\ ~Under(Append(At, s), p)
                                            /\ (Under(p, Append(At, s)) <=> p \in Open)
<1> DEFINE f == Top.path
<1>1. /\ Len(stack) \in Nat \ {0} /\ Top = stack[Len(stack)] /\ Writes(Len(stack))
      /\ f \in Nodes /\ f \in Paths /\ Inner(f)
      /\ \A p \in Paths : Under(p, f) <=> p \in Open
      /\ \A p \in Open : Len(p) <= Len(f)
  BY OpenIs
<1>2. stack # <<>> /\ Field \in FieldType
  BY WritesField
<1>3. Top \in Activations
  BY <1>2, NextField
<1>4. Top.next \in Nat /\ Top.count \in Nat
  BY <1>3 DEF Activations
<1>5. /\ Top.in = In(f) /\ Top.of = Of(f) /\ Top.count = Count(f)
      /\ Top.next \in 1..Top.count + 1
      /\ \A k \in Nat : Kid(f, k) \in DOMAIN place <=> k \in 1..Top.next - 1
  BY <1>1 DEF Writes
<1>6. Top.next \in 1..Count(f)
  BY <1>4, <1>5 DEF More
<1>7. At = Kid(f, Top.next) /\ Here = Step(In(f), Of(f), Top.next)
  BY <1>5 DEF At, Here, Kid
<1>8. /\ At \in Paths /\ At # <<>> /\ Len(At) = Len(f) + 1 /\ Front(At) = f /\ Last(At) = Here
      /\ Last(At).nr = Top.next /\ Here \in Steps
  BY <1>1, <1>4, <1>7, KidIs
<1>9. At \notin DOMAIN place
  <2>1. Top.next \notin 1..Top.next - 1
    BY <1>4
  <2> QED
    BY <1>4, <1>5, <1>7, <2>1
<1>10. Len(f) \in Nat
  BY <1>1, PathIs
<1>11. At \notin Open
  <2>1. ~(Len(At) <= Len(f))
    BY <1>8, <1>10
  <2> QED
    BY <1>1, <2>1
<1>12. Field = Declared(At)
  BY <1>8 DEF Field, Declared
<1>13. \A p \in DOMAIN place : /\ p \in Paths
                               /\ \A i \in 1..Len(p) : SubSeq(p, 1, i) \in DOMAIN place
  BY DEF Tree, Extent
<1>14. ASSUME NEW p \in DOMAIN place PROVE ~Under(At, p) /\ (Under(p, At) <=> p \in Open)
  <2>1. ~Under(At, p)
    <3> SUFFICES ASSUME Under(At, p) PROVE FALSE
      OBVIOUS
    <3>1. SubSeq(p, 1, Len(At)) = At /\ Len(At) \in 0..Len(p)
      BY <1>8, <1>13, UnderPrefix
    <3>2. Len(At) \in 1..Len(p)
      BY <1>8, <1>10, <3>1
    <3> QED
      BY <1>9, <1>13, <3>1, <3>2
  <2>2. Under(p, At) <=> Under(p, f) \/ p = At
    BY <1>1, <1>7, <1>8, <1>13, UnderLonger DEF Kid
  <2> QED
    BY <1>1, <1>9, <1>13, <2>1, <2>2
<1>15. ASSUME NEW s \in Steps
       PROVE  /\ Append(At, s) \in Paths /\ Append(At, s) \notin DOMAIN place
              /\ Append(At, s) \notin Open
              /\ \A p \in DOMAIN place : /\ ~Under(Append(At, s), p)
                                         /\ (Under(p, Append(At, s)) <=> p \in Open)
  <2> DEFINE v == Append(At, s)
  <2>1. v \in Paths /\ Len(v) = Len(At) + 1 /\ Under(At, v)
    BY <1>8, Longer, UnderLonger
  <2>2. v \notin DOMAIN place
    BY <1>14, <2>1
  <2>3. v \notin Open
    <3>1. ~(Len(v) <= Len(f))
      BY <1>8, <1>10, <2>1
    <3> QED
      BY <1>1, <3>1
  <2>4. ASSUME NEW p \in DOMAIN place
        PROVE  ~Under(v, p) /\ (Under(p, v) <=> p \in Open)
    <3>1. Under(p, v) <=> Under(p, At) \/ p = v
      BY <1>8, <1>13, UnderLonger
    <3>2. ~Under(v, p)
      BY <1>8, <1>13, <1>14, <2>1, UnderTransitive
    <3> QED
      BY <1>14, <2>2, <3>1, <3>2
  <2> QED
    BY <2>1, <2>2, <2>3, <2>4
<1> QED
  BY <1>2, <1>4, <1>6, <1>7, <1>8, <1>9, <1>11, <1>12, <1>14, <1>15

\* A field is added; a parcelable, a union or a vector is open after that.
Grows(cells) ==
    /\ UNCHANGED <<client, server, phase, message>>
    /\ Len(cells) \in {1, 2} /\ \A i \in 1..Len(cells) : cells[i].val \in Nat
    /\ cells[1].at = At /\ cells[1].kind \notin {"size", "tag"}
    /\ Len(wire') = Len(wire) + Len(cells)
    /\ \A i \in 1..Len(wire) : wire'[i] = wire[i]
    /\ \A i \in 1..Len(cells) : wire'[Len(wire) + i] = cells[i]
    /\ DOMAIN place' = DOMAIN place \cup {At}
    /\ \A p \in DOMAIN place : p # At => place'[p] = place[p]
    /\ place'[At] = Len(wire) + 1
    /\ IF cells[1].kind = "count" \/ (cells[1].kind = "flag" /\ cells[1].val # 0)
       THEN Open' = Open \cup {At} ELSE Open' = Open

\* Where the nodes end then.
Grown(e) == [p \in DOMAIN place' |->
               IF p \in DOMAIN place \ Open THEN e[p] ELSE Len(wire') + 1]

\* What is in the parcel stays there.
LEMMA OldStays ==
    ASSUME TypeInv, phase = "writing", More, NEW e, Tree(e), Growing(e),
           NEW cells, Grows(cells), NEW p \in DOMAIN place
    PROVE  /\ place'[p] = place[p] /\ CellAt(p)' = CellAt(p) /\ p # At
           /\ p \in DOMAIN place'
           /\ place[p] \in 1..Len(wire) /\ Len(wire) \in Nat /\ Len(wire') \in Nat
           /\ Len(wire') > Len(wire)
           /\ IsBody(p) => HeadAt(p)' = HeadAt(p)
           /\ Declared(p)' = Declared(p) /\ (IsUnion(p)' <=> IsUnion(p))
           /\ (IsBody(p)' <=> IsBody(p)) /\ (IsList(p)' <=> IsList(p))
           /\ Of(p)' = Of(p) /\ In(p)' = In(p) /\ Count(p)' = Count(p)
           /\ First(p)' = First(p) /\ (Inner(p)' <=> Inner(p))
           /\ \A k : Kid(p, k)' = Kid(p, k)
<1>1. Len(wire) \in Nat
  BY WritesField
<1>2. /\ place[p] \in 1..Len(wire) /\ e[p] \in Nat /\ e[p] <= Len(wire) + 1
      /\ IsBody(p) => e[p] >= place[p] + 2
  BY DEF Tree, Extent, Shaped
<1>5. p # At
  BY AtIs
<1>6. place'[p] = place[p] /\ p \in DOMAIN place'
  BY <1>5 DEF Grows
<1>7. wire'[place[p]] = wire[place[p]]
  BY <1>2 DEF Grows
<1>8. CellAt(p)' = CellAt(p)
  BY <1>6, <1>7 DEF CellAt
<1>9. IsBody(p) => HeadAt(p)' = HeadAt(p)
  <2> SUFFICES ASSUME IsBody(p) PROVE HeadAt(p)' = HeadAt(p)
    OBVIOUS
  <2>1. place[p] + 1 \in 1..Len(wire)
    BY <1>1, <1>2
  <2>2. wire'[place[p] + 1] = wire[place[p] + 1]
    BY <2>1 DEF Grows
  <2> QED
    BY <1>6, <2>2 DEF HeadAt
<1>10. Len(wire') \in Nat /\ Len(wire') > Len(wire)
  BY <1>1 DEF Grows
<1>11. Writer' = Writer /\ message' = message
  BY DEF Grows, Writer
<1>12. Declared(p)' = Declared(p)
  BY <1>11 DEF Declared
<1>13. /\ (IsBody(p)' <=> IsBody(p)) /\ (IsList(p)' <=> IsList(p))
       /\ (IsUnion(p)' <=> IsUnion(p)) /\ (IsUnion(p) => HeadAt(p)' = HeadAt(p))
  BY <1>8, <1>9, <1>12 DEF IsBody, IsList, IsUnion
<1>14. Of(p)' = Of(p) /\ In(p)' = In(p) /\ (Inner(p)' <=> Inner(p))
  BY <1>11, <1>12, <1>13 DEF Of, In, Inner
<1>15. Count(p)' = Count(p)
  BY <1>8, <1>11, <1>13, <1>14 DEF Count
<1>16. First(p)' = First(p)
  BY <1>6, <1>13 DEF First
<1>17. \A k : Kid(p, k)' = Kid(p, k)
  BY <1>14 DEF Kid
<1> QED
  BY <1>1, <1>2, <1>5, <1>6, <1>8, <1>9, <1>10, <1>12, <1>13, <1>14, <1>15,
     <1>16, <1>17

LEMMA RootStays ==
    ASSUME UNCHANGED message
    PROVE  /\ In(<<>>)' = In(<<>>) /\ Of(<<>>)' = Of(<<>>) /\ Count(<<>>)' = Count(<<>>)
           /\ First(<<>>)' = First(<<>>) /\ (Inner(<<>>)' <=> Inner(<<>>))
           /\ \A k : Kid(<<>>, k)' = Kid(<<>>, k)
  BY DEF In, Of, Count, First, Inner, Kid

\* What is added.
LEMMA NewIs ==
    ASSUME TypeInv, phase = "writing", More, NEW e, Tree(e), Growing(e),
           NEW cells, Grows(cells), NEW a, a = At
    PROVE  /\ a \in Paths /\ a # <<>> /\ a \notin DOMAIN place /\ a \notin Open
           /\ a \in DOMAIN place' /\ place'[a] = Len(wire) + 1
           /\ place'[a] \in Len(wire) + 1..Len(wire')
           /\ CellAt(a)' = cells[1]
           /\ CellAt(a)'.at = a /\ CellAt(a)'.kind \notin {"size", "tag"}
           /\ \A i \in 1..Len(a) : SubSeq(a, 1, i) \in DOMAIN place'
           /\ \A p \in DOMAIN place : ~Under(a, p) /\ (Under(p, a) <=> p \in Open)
<1>1. Len(wire) \in Nat
  BY WritesField
<1>2. /\ a \in Paths /\ a # <<>> /\ a \notin DOMAIN place /\ a \notin Open
      /\ Len(a) = Len(Top.path) + 1
      /\ \A p \in DOMAIN place : ~Under(a, p) /\ (Under(p, a) <=> p \in Open)
  BY AtIs
<1>3. a \in DOMAIN place' /\ place'[a] = Len(wire) + 1
  BY DEF Grows
<1>4. /\ CellAt(a)' = cells[1] /\ cells[1].at = a /\ cells[1].kind \notin {"size", "tag"}
  <2>1. 1 \in 1..Len(cells)
    BY DEF Grows
  <2>2. wire'[Len(wire) + 1] = cells[1]
    BY <2>1 DEF Grows
  <2> QED
    BY <1>3, <2>2 DEF Grows, CellAt
<1>5. Top.path \in Paths /\ Top.path \in Nodes
  BY OpenIs
<1>6. Here \in Steps /\ a = Append(Top.path, Here)
  <2>1. stack # <<>>
    BY WritesField
  <2> QED
    BY <2>1, NextField DEF At
<1>7. \A i \in 1..Len(a) : SubSeq(a, 1, i) \in DOMAIN place'
  <2> SUFFICES ASSUME NEW i \in 1..Len(a) PROVE SubSeq(a, 1, i) \in DOMAIN place'
    OBVIOUS
  <2>1. Len(Top.path) \in Nat
    BY <1>5, PathIs
  <2>2. CASE i = Len(a)
    <3>1. SubSeq(a, 1, Len(a)) = a
      BY <1>2, PathTypes, SubSeqFull
    <3> QED
      BY <1>3, <2>2, <3>1
  <2>3. CASE i # Len(a)
    <3>1. i \in 1..Len(Top.path) /\ i \in 0..Len(Top.path)
      BY <1>2, <2>1, <2>3
    <3>2. SubSeq(a, 1, i) = SubSeq(Top.path, 1, i)
      BY <1>5, <1>6, <3>1, PrefixOfLonger
    <3>3. Top.path # <<>>
      BY <1>5, <3>1, PathIs
    <3>4. Top.path \in DOMAIN place
      BY <1>5, <3>3 DEF Nodes
    <3>5. SubSeq(Top.path, 1, i) \in DOMAIN place
      BY <3>1, <3>4 DEF Tree, Extent
    <3> QED
      BY <3>2, <3>5 DEF Grows
  <2> QED
    BY <2>2, <2>3
<1>8. place'[a] \in Len(wire) + 1..Len(wire')
  BY <1>1, <1>3 DEF Grows
<1> QED
  BY <1>2, <1>3, <1>4, <1>7, <1>8

\* The ends of all nodes then.
LEMMA GrownIs ==
    ASSUME TypeInv, phase = "writing", More, NEW e, Tree(e), Growing(e),
           NEW cells, Grows(cells), NEW e2, e2 = Grown(e)
    PROVE  /\ DOMAIN e2 = DOMAIN place' /\ Len(wire) \in Nat /\ Len(wire') \in Nat
           /\ Len(wire') > Len(wire)
           /\ e2 \in [DOMAIN place' -> Nat]
           /\ \A p \in DOMAIN place : /\ e[p] \in Nat /\ place[p] \in 1..Len(wire)
                                      /\ place[p] < e[p] /\ e[p] <= Len(wire) + 1
                                      /\ p \notin Open => e2[p] = e[p]
                                      /\ p \in Open => /\ e[p] = Len(wire) + 1
                                                       /\ e2[p] = Len(wire') + 1
                                      /\ e[p] <= e2[p] /\ e2[p] <= Len(wire') + 1
           /\ e2[At] = Len(wire') + 1
           /\ \A p \in DOMAIN place' : p \in DOMAIN place \/ p = At
           /\ \A p : p \in Open' <=> p \in Open \/ (p = At /\ p \in Open')
<1>1. Len(wire) \in Nat
  BY WritesField
<1>2. Len(wire') \in Nat /\ Len(wire') > Len(wire)
  BY <1>1 DEF Grows
<1>3. \A p \in DOMAIN place : /\ e[p] \in Nat /\ place[p] \in 1..Len(wire)
                              /\ place[p] < e[p] /\ e[p] <= Len(wire) + 1
                              /\ p \in Open => e[p] = Len(wire) + 1
  BY DEF Tree, Extent
<1>4. DOMAIN e2 = DOMAIN place' /\ DOMAIN place' = DOMAIN place \cup {At}
  BY DEF Grown, Grows
<1>5. \A p \in DOMAIN place : /\ p \notin Open => e2[p] = e[p]
                              /\ p \in Open => e2[p] = Len(wire') + 1
  BY <1>4 DEF Grown
<1>6. At \notin DOMAIN place
  BY NewIs
<1>7. e2[At] = Len(wire') + 1
  BY <1>4, <1>6 DEF Grown
<1>8. \A p \in DOMAIN place : e[p] <= e2[p] /\ e2[p] <= Len(wire') + 1
  BY <1>1, <1>2, <1>3, <1>5
<1>9. \A p \in DOMAIN place' : e2[p] \in Nat
  BY <1>2, <1>3, <1>4, <1>5, <1>7
<1>10. e2 \in [DOMAIN place' -> Nat]
  <2>1. e2 = [p \in DOMAIN place' |-> e2[p]]
    BY DEF Grown
  <2> QED
    BY <1>9, <2>1
<1>11. \A p : p \in Open' <=> p \in Open \/ (p = At /\ p \in Open')
  BY DEF Grows
<1> QED
  BY <1>1, <1>2, <1>3, <1>4, <1>5, <1>7, <1>8, <1>10, <1>11

LEMMA GrownExtent ==
    ASSUME TypeInv, phase = "writing", More, NEW e, Tree(e), Growing(e),
           NEW cells, Grows(cells), NEW e2, e2 = Grown(e),
           NEW p \in DOMAIN place'
    PROVE  Extent(e2, p)'
<1>1. CASE p \in DOMAIN place
  <2>1. /\ place'[p] = place[p] /\ CellAt(p)' = CellAt(p) /\ place[p] \in 1..Len(wire)
        /\ Len(wire) \in Nat /\ Len(wire') \in Nat /\ Len(wire') > Len(wire)
    BY <1>1, OldStays
  <2>2. /\ p \in Paths /\ p # <<>> /\ e[p] \in Nat /\ place[p] < e[p]
        /\ CellAt(p).at = p /\ CellAt(p).kind \notin {"size", "tag"}
        /\ \A i \in 1..Len(p) : SubSeq(p, 1, i) \in DOMAIN place
    BY <1>1 DEF Tree, Extent
  <2>3. /\ e2[p] \in Nat /\ e[p] <= e2[p] /\ e2[p] <= Len(wire') + 1
        /\ p \in Open => e2[p] = Len(wire') + 1
    BY <1>1, GrownIs
  <2>4. p \in Open' => p \in Open
    BY <1>1, AtIs, GrownIs
  <2>5. place'[p] \in 1..Len(wire') /\ place'[p] < e2[p]
    BY <2>1, <2>2, <2>3
  <2>6. \A i \in 1..Len(p) : SubSeq(p, 1, i) \in DOMAIN place'
    BY <2>2 DEF Grows
  <2> QED
    BY <2>1, <2>2, <2>3, <2>4, <2>5, <2>6 DEF Extent
<1>2. CASE p = At
  <2>1. /\ p \in Paths /\ p # <<>> /\ place'[p] \in Len(wire) + 1..Len(wire')
        /\ CellAt(p)'.at = p /\ CellAt(p)'.kind \notin {"size", "tag"}
        /\ \A i \in 1..Len(p) : SubSeq(p, 1, i) \in DOMAIN place'
    BY <1>2, NewIs
  <2>2. e2[p] = Len(wire') + 1 /\ Len(wire) \in Nat /\ Len(wire') \in Nat
    BY <1>2, GrownIs
  <2>3. place'[p] \in 1..Len(wire') /\ place'[p] < e2[p] /\ e2[p] \in Nat
        /\ e2[p] <= Len(wire') + 1
    BY <2>1, <2>2
  <2> QED
    BY <2>1, <2>2, <2>3 DEF Extent
<1> QED
  BY <1>1, <1>2, GrownIs

\* The nodes that are there keep their cells and their ends, or are open.
LEMMA GrownShaped ==
    ASSUME TypeInv, phase = "writing", More, NEW e, Tree(e), Growing(e),
           NEW cells, Grows(cells), NEW e2, e2 = Grown(e),
           NEW p \in DOMAIN place
    PROVE  Shaped(e2, p)'
<1>1. /\ place'[p] = place[p] /\ CellAt(p)' = CellAt(p) /\ Declared(p)' = Declared(p)
      /\ (IsBody(p)' <=> IsBody(p)) /\ (IsUnion(p)' <=> IsUnion(p))
      /\ IsBody(p) => HeadAt(p)' = HeadAt(p)
      /\ place[p] \in 1..Len(wire)
  BY OldStays
<1>2. /\ e[p] \in Nat /\ e[p] <= e2[p] /\ e2[p] \in Nat
      /\ p \notin Open => e2[p] = e[p]
  BY GrownIs, OldStays
<1>3. p \in Open' <=> p \in Open
  BY AtIs, GrownIs
<1>4. Writer' = Writer
  BY DEF Grows, Writer
<1>5. Shaped(e, p)
  BY DEF Tree
<1>6. /\ Declared(p) \in FieldType
      /\ CASE Declared(p).shape = "word"  -> CellAt(p).kind = "word"
           [] Declared(p).shape = "part"  -> CellAt(p).kind = "flag" /\ CellAt(p).val = 1
           [] Declared(p).shape = "maybe" ->
                 CellAt(p).kind = "flag" /\ CellAt(p).val \in {0, 1}
           [] Declared(p).shape = "list"  ->
                 CellAt(p).kind = "count" /\ CellAt(p).val \in Nat
  BY <1>5, Zenon DEF Shaped
<1>7. CellAt(p).kind = "word" \/ (CellAt(p).kind = "flag" /\ CellAt(p).val = 0) =>
        p \notin Open' /\ e2[p] = place'[p] + 1
  BY <1>1, <1>2, <1>3, <1>5 DEF Shaped
<1>8. IsBody(p) => e2[p] >= place'[p] + 2
  BY <1>1, <1>2, <1>5 DEF Shaped
<1>9. IsUnion(p) => /\ HeadAt(p)'.kind = "tag"
                    /\ HeadAt(p)'.val \in DOMAIN Arms[Declared(p).of][Writer]
  BY <1>1, <1>5 DEF Shaped, IsUnion
<1>10. IsBody(p) /\ ~IsUnion(p) =>
         /\ HeadAt(p)'.kind = "size"
         /\ p \notin Open' => HeadAt(p)'.val = e2[p] - place'[p] - 1
  BY <1>1, <1>2, <1>3, <1>5 DEF Shaped
<1> QED
  BY <1>1, <1>4, <1>6, <1>7, <1>8, <1>9, <1>10, Zenon DEF Shaped

\* The nodes of the parcel, and its root, hold what they held.
LEMMA NodeStays ==
    ASSUME TypeInv, phase = "writing", More, NEW e, Tree(e), Growing(e),
           NEW cells, Grows(cells), NEW f \in Nodes
    PROVE  /\ f \in Nodes' /\ f # At /\ (Inner(f)' <=> Inner(f)) /\ Count(f)' = Count(f)
           /\ First(f)' = First(f) /\ In(f)' = In(f) /\ Of(f)' = Of(f)
           /\ \A k : Kid(f, k)' = Kid(f, k)
           /\ f \in Open' <=> f \in Open
<1>1. message' = message
  BY DEF Grows
<1>2. CASE f \in DOMAIN place
  <2>1. f # At
    BY <1>2, AtIs
  <2>2. f \in Open' <=> f \in Open
    BY <2>1 DEF Grows
  <2> QED
    BY <1>2, <2>2, OldStays DEF Nodes
<1>3. CASE f \notin DOMAIN place
  <2>1. f = <<>> /\ f \in Nodes'
    BY <1>3 DEF Nodes
  <2>2. f # At
    BY <2>1, AtIs
  <2>3. f \in Open' <=> f \in Open
    BY <2>2 DEF Grows
  <2> QED
    BY <1>1, <2>1, <2>2, <2>3, RootStays
<1> QED
  BY <1>2, <1>3

LEMMA GrownPlaced ==
    ASSUME TypeInv, phase = "writing", More, NEW e, Tree(e), Growing(e),
           NEW cells, Grows(cells), NEW e2, e2 = Grown(e),
           NEW p \in DOMAIN place'
    PROVE  Placed(e2, p)'
<1> DEFINE f == Front(p)
           k == Last(p).nr
<1>1. CASE p \in DOMAIN place
  <2>1. /\ f \in Nodes /\ Inner(f) /\ p = Kid(f, k)
        /\ k \in 1..Count(f) /\ e[p] <= End(e, f)
        /\ k = 1 => place[p] = First(f)
        /\ \A j \in 1..k - 1 : /\ Kid(f, j) \in DOMAIN place \ Open
                               /\ e[Kid(f, j)] <= place[p]
        /\ k > 1 => place[p] = e[Kid(f, k - 1)]
    BY <1>1 DEF Tree, Placed
  <2>2. /\ f \in Nodes' /\ Inner(f)' /\ Count(f)' = Count(f) /\ First(f)' = First(f)
        /\ \A j : Kid(f, j)' = Kid(f, j)
    BY <2>1, NodeStays
  <2>3. place'[p] = place[p]
    BY <1>1, OldStays
  <2>4. e2[p] <= End(e2, f)'
    <3>1. CASE f = <<>>
      BY <1>1, <3>1, GrownIs DEF End
    <3>2. CASE f # <<>> /\ f \in Open
      <4>1. f \in DOMAIN place
        BY <2>1, <3>2 DEF Nodes
      <4>2. e2[f] = Len(wire') + 1 /\ e2[p] <= Len(wire') + 1
        BY <1>1, <3>2, <4>1, GrownIs
      <4> QED
        BY <3>2, <4>2 DEF End
    <3>3. CASE f # <<>> /\ f \notin Open
      <4>1. p \notin Open
        BY <1>1, <3>3, OpenIs DEF Tree, Extent
      <4>2. f \in DOMAIN place
        BY <2>1, <3>3 DEF Nodes
      <4>3. e2[p] = e[p] /\ e2[f] = e[f]
        BY <1>1, <3>3, <4>1, <4>2, GrownIs
      <4> QED
        BY <2>1, <3>3, <4>3 DEF End
    <3> QED
      BY <3>1, <3>2, <3>3
  <2>5. ASSUME NEW q \in DOMAIN place, q \notin Open
        PROVE  q \in DOMAIN place' /\ q \notin Open' /\ e2[q] = e[q]
    <3>1. q \notin Open'
      BY <2>5, NodeStays DEF Nodes
    <3> QED
      BY <2>5, <3>1, GrownIs, OldStays
  <2>6. \A j \in 1..k - 1 : /\ Kid(f, j)' \in DOMAIN place' \ Open'
                            /\ e2[Kid(f, j)'] <= place'[p]
    BY <2>1, <2>2, <2>3, <2>5
  <2>7. k > 1 => place'[p] = e2[Kid(f, k - 1)']
    <3> SUFFICES ASSUME k > 1 PROVE place'[p] = e2[Kid(f, k - 1)']
      OBVIOUS
    <3>1. k - 1 \in 1..k - 1
      BY <2>1 
    <3> QED
      BY <2>1, <2>2, <2>3, <2>5, <3>1
  <2> QED
    BY <2>1, <2>2, <2>3, <2>4, <2>6, <2>7 DEF Placed
<1>2. CASE p = At
  <2>1. /\ p = Kid(Top.path, Top.next) /\ Top.next \in 1..Count(Top.path)
        /\ Front(p) = Top.path /\ Last(p).nr = Top.next /\ Top.next \in Nat
        /\ place'[p] = Len(wire) + 1
    BY <1>2, AtIs, NewIs
  <2>2. PICK g : g = Top.path
    OBVIOUS
  <2>3. PICK n : n = Top.next
    OBVIOUS
  <2>4. /\ g \in Nodes /\ g \in Paths /\ Inner(g) /\ g \in Open
        /\ \A q \in Open : Len(q) <= Len(g)
        /\ Writes(Len(stack)) /\ Top = stack[Len(stack)]
    BY <2>2, OpenIs
  <2>5. /\ g \in Nodes' /\ Inner(g)' /\ Count(g)' = Count(g) /\ First(g)' = First(g)
        /\ \A j : Kid(g, j)' = Kid(g, j)
    BY <2>4, NodeStays
  <2>6. e2[p] = Len(wire') + 1 /\ Len(wire) \in Nat /\ Len(wire') \in Nat
    BY <1>2, GrownIs
  <2>7. e2[p] <= End(e2, g)'
    <3>1. CASE g = <<>>
      BY <2>6, <3>1 DEF End
    <3>2. CASE g # <<>>
      <4>1. e2[g] = Len(wire') + 1
        BY <2>4, <3>2, GrownIs DEF Nodes
      <4> QED
        BY <2>6, <3>2, <4>1 DEF End
    <3> QED
      BY <3>1, <3>2
  <2>8. ASSUME NEW j \in 1..n - 1
        PROVE  /\ Kid(g, j) \in DOMAIN place \ Open /\ Kid(g, j) \in DOMAIN place' \ Open'
               /\ e2[Kid(g, j)] = e[Kid(g, j)] /\ e[Kid(g, j)] <= place'[p]
    <3>1. j \in Nat
      BY <2>1, <2>3
    <3>2. Kid(g, j) \in DOMAIN place
      BY <2>2, <2>3, <2>4, <3>1 DEF Writes
    <3>3. Len(Kid(g, j)) = Len(g) + 1 /\ Len(g) \in Nat
      BY <2>4, <3>1, KidIs, PathIs
    <3>4. ~(Len(Kid(g, j)) <= Len(g))
      BY <3>3
    <3>5. Kid(g, j) \notin Open
      BY <2>4, <3>4
    <3>6. Kid(g, j) \in DOMAIN place' /\ Kid(g, j) \notin Open'
      BY <3>2, <3>5, NodeStays, OldStays DEF Nodes
    <3>7. e2[Kid(g, j)] = e[Kid(g, j)] /\ e[Kid(g, j)] <= Len(wire) + 1
      BY <3>2, <3>5, GrownIs
    <3> QED
      BY <2>1, <3>2, <3>5, <3>6, <3>7
  <2>9. n = 1 => place'[p] = First(g)
    BY <2>1, <2>2, <2>3 DEF Growing
  <2>10. n > 1 => place'[p] = e2[Kid(g, n - 1)]
    <3> SUFFICES ASSUME n > 1 PROVE place'[p] = e2[Kid(g, n - 1)]
      OBVIOUS
    <3>1. n - 1 \in 1..n - 1 /\ n # 1
      BY <2>1, <2>3
    <3>2. Len(wire) + 1 = e[Kid(g, n - 1)]
      BY <2>2, <2>3, <3>1 DEF Growing
    <3> QED
      BY <2>1, <2>8, <3>1, <3>2
  <2>11. /\ Front(p) = g /\ Last(p).nr = n /\ p = Kid(g, n) /\ n \in 1..Count(g)
    BY <2>1, <2>2, <2>3
  <2> HIDE DEF f, k
  <2>12. \A j \in 1..n - 1 : /\ Kid(g, j)' \in DOMAIN place' \ Open'
                             /\ e2[Kid(g, j)'] <= place'[p]
    BY <2>5, <2>8
  <2> QED
    BY <2>1, <2>5, <2>7, <2>9, <2>10, <2>11, <2>12 DEF Placed
<1> QED
  BY <1>1, <1>2, GrownIs

\* The first cell says what the new field holds.
LEMMA NewCell ==
    ASSUME TypeInv, phase = "writing", More, NEW e, Tree(e), Growing(e),
           NEW cells, Grows(cells), NEW a, a = At
    PROVE  CellAt(a)' = cells[1] /\ place'[a] = Len(wire) + 1
  BY NewIs

LEMMA GrownComplete ==
    ASSUME TypeInv, phase = "writing", More, NEW e, Tree(e), Growing(e),
           NEW cells, Grows(cells), NEW e2, e2 = Grown(e),
           NEW p \in Nodes' \ Open', Inner(p)'
    PROVE  Complete(e2, p)'
<1>1. CASE p \in Nodes
  <2>1. /\ p \notin Open /\ Inner(p) /\ Count(p)' = Count(p) /\ First(p)' = First(p)
        /\ \A k : Kid(p, k)' = Kid(p, k)
    BY <1>1, NodeStays
  <2>2. p # <<>> /\ p \in DOMAIN place
    BY <1>1, <2>1, OpenIs DEF Nodes
  <2>3. /\ \A k \in 1..Count(p) : Kid(p, k) \in DOMAIN place
        /\ e[p] = IF Count(p) = 0 THEN First(p) ELSE e[Kid(p, Count(p))]
    BY <1>1, <2>1, <2>2 DEF Tree, Complete, End
  <2>4. e2[p] = e[p]
    BY <2>1, <2>2, GrownIs
  <2>5. Count(p) \in Nat
    <3>1. p \in DOMAIN place /\ Shaped(e, p) /\ Writer \in Releases
          /\ (IsList(p) => Declared(p).shape = "list")
          /\ (~IsList(p) /\ ~IsUnion(p) => Of(p) \in Parcelables)
      BY <1>1, <2>1, <2>2, InnerIs, WritesField DEF Tree
    <3>2. CASE IsList(p)
      <4>1. CellAt(p).val \in Nat
        BY <3>1, <3>2, Zenon DEF Shaped
      <4> QED
        BY <2>2, <3>2, <4>1 DEF Count
    <3>3. CASE ~IsList(p) /\ IsUnion(p)
      BY <2>2, <3>3 DEF Count
    <3>4. CASE ~IsList(p) /\ ~IsUnion(p)
      <4>1. Layout[Of(p)][Writer] \in Seq(FieldType)
        BY <3>1, <3>4, ConstantTypes
      <4> QED
        BY <2>2, <3>4, <4>1, LenProperties DEF Count
    <3> QED
      BY <3>2, <3>3, <3>4
  <2>6. ASSUME NEW k \in 1..Count(p)
        PROVE  /\ Kid(p, k) \in DOMAIN place' /\ e2[Kid(p, k)] = e[Kid(p, k)]
    <3>1. Kid(p, k) \in DOMAIN place
      BY <2>3
    <3>2. Kid(p, k) # <<>> /\ Front(Kid(p, k)) = p
      BY <1>1, <2>1, <2>5, KidIs
    <3>3. Kid(p, k) \notin Open
      BY <2>1, <3>2, OpenIs
    <3> QED
      BY <3>1, <3>3, GrownIs, OldStays
  <2>7. e2[p] = IF Count(p) = 0 THEN First(p) ELSE e2[Kid(p, Count(p))]
    <3>1. Count(p) # 0 => Count(p) \in 1..Count(p)
      BY <2>5
    <3> QED
      BY <2>3, <2>4, <2>6, <3>1
  <2> QED
    BY <2>1, <2>2, <2>6, <2>7 DEF Complete, End
<1>2. CASE p \notin Nodes
  <2>1. p = At /\ p # <<>>
    BY <1>2, GrownIs DEF Nodes
  <2>2. IsBody(p)' \/ IsList(p)'
    BY <2>1 DEF Inner
  <2>3. CellAt(p)' = cells[1]
    BY <2>1, NewCell
  <2>4. p \in Open'
    BY <2>1, <2>2, <2>3 DEF Grows, IsBody, IsList
  <2> QED
    BY <2>4
<1> QED
  BY <1>1, <1>2

LEMMA GrownNested ==
    ASSUME TypeInv, phase = "writing", More, NEW e, Tree(e), Growing(e),
           NEW cells, Grows(cells), NEW e2, e2 = Grown(e)
    PROVE  Nested(e2)'
<1> DEFINE N(p, q) == Under(p, q) <=> place'[p] <= place'[q] /\ place'[q] < e2[p]
<1>1. PICK a : a = At
  OBVIOUS
<1>2. Len(wire) \in Nat /\ Len(wire') \in Nat /\ Len(wire') > Len(wire)
      /\ e2[a] = Len(wire') + 1 /\ \A p \in DOMAIN place' : p \in DOMAIN place \/ p = a
  BY <1>1, GrownIs
<1>3. \A p \in DOMAIN place :
         /\ place'[p] = place[p] /\ e[p] \in Nat /\ place[p] \in 1..Len(wire)
         /\ e[p] <= Len(wire) + 1
         /\ p \notin Open => e2[p] = e[p]
         /\ p \in Open => e[p] = Len(wire) + 1 /\ e2[p] = Len(wire') + 1
  BY GrownIs, OldStays
<1>4. /\ a \in Paths /\ place'[a] = Len(wire) + 1
      /\ \A p \in DOMAIN place : ~Under(a, p) /\ (Under(p, a) <=> p \in Open)
  BY <1>1, NewIs
<1>5. ASSUME NEW p \in DOMAIN place, NEW q \in DOMAIN place PROVE N(p, q)
  <2>1. Under(p, q) <=> place[p] <= place[q] /\ place[q] < e[p]
    BY DEF Tree, Nested
  <2> QED
    BY <1>2, <1>3, <2>1
<1>6. ASSUME NEW p \in DOMAIN place PROVE N(p, a)
  <2>1. Under(p, a) <=> p \in Open
    BY <1>4
  <2> QED
    BY <1>2, <1>3, <1>4, <2>1
<1>7. ASSUME NEW q \in DOMAIN place PROVE N(a, q)
  <2>1. ~Under(a, q)
    BY <1>4
  <2> QED
    BY <1>2, <1>3, <1>4, <2>1
<1>8. N(a, a)
  BY <1>2, <1>4, UnderItself
<1>9. \A p, q \in DOMAIN place' : N(p, q)
  BY <1>2, <1>5, <1>6, <1>7, <1>8
<1> QED
  BY <1>9 DEF Nested

\* What a write of one field leaves behind is a tree.
LEMMA GrownTree ==
    ASSUME TypeInv, phase = "writing", More, NEW e, Tree(e), Growing(e),
           NEW cells, Grows(cells), NEW e2, e2 = Grown(e),
           NEW a, a = At, Shaped(e2, a)'
    PROVE  Tree(e2)'
<1>1. DOMAIN e2 = DOMAIN place'
  BY GrownIs
<1>2. \A p \in DOMAIN place' : Extent(e2, p)'
  BY GrownExtent
<1>3. \A p \in DOMAIN place' : Shaped(e2, p)'
  BY GrownShaped, GrownIs
<1>4. \A p \in DOMAIN place' : Placed(e2, p)'
  BY GrownPlaced
<1>5. \A p \in Nodes' \ Open' : Inner(p)' => Complete(e2, p)'
  BY GrownComplete
<1>6. Nested(e2)'
  BY GrownNested
<1> QED
  BY <1>1, <1>2, <1>3, <1>4, <1>5, <1>6 DEF Tree

\* The paths of the nodes that are open are as long as they are deep.
LEMMA KidsOfOpen ==
    ASSUME TypeInv, phase = "writing", More, NEW e, Tree(e), Growing(e),
           NEW cells, Grows(cells),
           NEW i \in 1..Len(stack), NEW k \in Nat
    PROVE  Kid(stack[i].path, k) = At <=> i = Len(stack) /\ k = Top.next
<1> DEFINE g == stack[i].path
           n == Len(stack)
<1>1. /\ n \in Nat \ {0} /\ Top = stack[n] /\ g \in Paths /\ Len(g) = i - 1
      /\ Len(Top.path) = n - 1
  <2>1. Len(stack) \in 1..Len(stack)
    BY OpenIs
  <2> QED
    BY <2>1, OpenIs
<1>2. g \in Open /\ g \in Nodes /\ Inner(g)
  <2>1. stack \in Seq(Activations)
    BY DEF TypeInv, Running
  <2>2. i \in DOMAIN stack
    BY <2>1, LenProperties
  <2>3. g \in Open
    BY <2>2 DEF Open
  <2> QED
    BY <2>3, OpenIs
<1>3. Kid(g, k) \in Paths /\ Len(Kid(g, k)) = i
  <2>1. Kid(g, k) \in Paths /\ Len(Kid(g, k)) = Len(g) + 1
    BY <1>2, KidIs
  <2> QED
    BY <1>1, <2>1
<1>4. At = Kid(Top.path, Top.next) /\ Len(At) = n /\ Top.next \in Nat
  <2>1. At = Kid(Top.path, Top.next) /\ Len(At) = Len(Top.path) + 1 /\ Top.next \in Nat
    BY AtIs
  <2> QED
    BY <1>1, <2>1
<1>5. CASE i = n
  <2>1. g = Top.path
    BY <1>1, <1>5
  <2>2. Kid(g, k) = At <=> k = Top.next
    BY <1>2, <1>4, <2>1, KidIs
  <2> QED
    BY <1>5, <2>2
<1>6. CASE i # n
  BY <1>3, <1>4, <1>6
<1> QED
  BY <1>5, <1>6

\* The activations that are there go on writing what they wrote, the running one
\* is a field further.
LEMMA WritesOn ==
    ASSUME TypeInv, phase = "writing", More, NEW e, Tree(e), Growing(e),
           NEW cells, Grows(cells),
           \A j \in 1..Len(stack) : stack'[j] = Stepped[j],
           NEW i \in 1..Len(stack)
    PROVE  Writes(i)'
<1>1. PICK n : n = Len(stack)
  OBVIOUS
<1>2. /\ n \in Nat \ {0} /\ Top = stack[n] /\ n \in 1..n
      /\ \A j \in 1..n : stack[j].path \in Paths /\ Len(stack[j].path) = j - 1
  <2>1. /\ Len(stack) \in Nat \ {0} /\ Top = stack[Len(stack)]
        /\ \A j \in 1..Len(stack) : stack[j].path \in Paths /\ Len(stack[j].path) = j - 1
    BY OpenIs
  <2> QED
    BY <1>1, <2>1
<1>3. stack \in Seq(Activations) /\ stack # <<>> /\ DOMAIN stack = 1..n
  <2>1. stack \in Seq(Activations) /\ stack # <<>>
    BY WritesField DEF TypeInv, Running
  <2> QED
    BY <1>1, <2>1, LenProperties
<1>4. /\ \A j \in 1..n - 1 : stack'[j] = stack[j]
      /\ stack'[n] = [Top EXCEPT !.next = @ + 1]
  <2>1. /\ \A j \in 1..Len(stack) - 1 : Stepped[j] = stack[j]
        /\ Stepped[Len(stack)] = [Top EXCEPT !.next = @ + 1]
    BY <1>3, SteppedIs
  <2> QED
    BY <1>1, <1>2, <2>1
<1>5. Top \in Activations /\ Top.next \in Nat
  <2>1. Top \in Activations
    BY <1>3, NextField
  <2> QED
    BY <2>1 DEF Activations
<1>6. \A j \in 1..n : /\ stack'[j].path = stack[j].path /\ stack'[j].in = stack[j].in
                      /\ stack'[j].of = stack[j].of /\ stack'[j].count = stack[j].count
                      /\ stack'[j].start = stack[j].start
                      /\ stack'[j].next = stack[j].next + IF j = n THEN 1 ELSE 0
  <2>1. ASSUME NEW j \in 1..n
        PROVE  /\ stack'[j].path = stack[j].path /\ stack'[j].in = stack[j].in
               /\ stack'[j].of = stack[j].of /\ stack'[j].count = stack[j].count
               /\ stack'[j].start = stack[j].start
               /\ stack'[j].next = stack[j].next + IF j = n THEN 1 ELSE 0
    <3>1. CASE j = n
      BY <1>2, <1>4, <1>5, <3>1 DEF Activations
    <3>2. CASE j # n
      <4>1. j \in 1..n - 1
        BY <1>2, <3>2
      <4>2. stack[j] \in Activations
        BY <1>1, <1>3, ElementOfSeq
      <4>3. stack[j].next \in Nat
        BY <4>2 DEF Activations
      <4> QED
        BY <1>4, <3>2, <4>1, <4>3
    <3> QED
      BY <3>1, <3>2
  <2> QED
    BY <2>1
<1>7. \A j \in 1..n : Writes(j)
  BY <1>3 DEF Growing
<1>8. PICK g : g = stack[i].path
  OBVIOUS
<1>9. /\ g \in Nodes /\ Len(g) = i - 1 /\ Inner(g)
      /\ stack[i].in = In(g) /\ stack[i].of = Of(g) /\ stack[i].count = Count(g)
      /\ stack[i].start = IF stack[i].in = "fields" THEN place[g] + 1 ELSE 0
      /\ stack[i].next \in 1..stack[i].count + 1
      /\ \A k \in Nat : Kid(g, k) \in DOMAIN place <=> k \in 1..stack[i].next - 1
      /\ \A j \in 1..i : Under(stack[j].path, g)
  BY <1>1, <1>7, <1>8 DEF Writes
<1>10. /\ g \in Nodes' /\ Inner(g)' /\ Count(g)' = Count(g)
       /\ In(g)' = In(g) /\ Of(g)' = Of(g) /\ \A k : Kid(g, k)' = Kid(g, k)
  BY <1>9, NodeStays
<1>11. stack'[i].start = IF stack'[i].in = "fields" THEN place'[g] + 1 ELSE 0
  <2>1. stack[i].in = "fields" => g \in DOMAIN place
    BY <1>9 DEF Nodes, In
  <2>2. g \in DOMAIN place => place'[g] = place[g]
    BY OldStays
  <2> QED
    BY <1>1, <1>6, <1>9, <2>1, <2>2
<1>12. stack'[i].next \in 1..stack'[i].count + 1
  <2>1. stack[i].count \in Nat
    <3>1. stack[i] \in Activations
      BY <1>3, ElementOfSeq
    <3> QED
      BY <3>1 DEF Activations
  <2>2. i = n => stack[i].next <= stack[i].count
    BY <1>2 DEF More
  <2> QED
    BY <1>1, <1>6, <1>9, <2>1, <2>2
<1>13. \A k \in Nat : Kid(g, k)' \in DOMAIN place' <=> k \in 1..stack'[i].next - 1
  <2> SUFFICES ASSUME NEW k \in Nat
               PROVE  Kid(g, k)' \in DOMAIN place' <=> k \in 1..stack'[i].next - 1
    OBVIOUS
  <2>1. Kid(g, k)' = Kid(g, k)
    BY <1>10
  <2>2. Kid(g, k) \in DOMAIN place' <=> Kid(g, k) \in DOMAIN place \/ Kid(g, k) = At
    BY DEF Grows
  <2>3. Kid(g, k) = At <=> i = n /\ k = Top.next
    BY <1>1, <1>8, KidsOfOpen
  <2>4. Kid(g, k) \in DOMAIN place <=> k \in 1..stack[i].next - 1
    BY <1>9
  <2>5. stack'[i].next = stack[i].next + IF i = n THEN 1 ELSE 0
    BY <1>1, <1>6
  <2>6. stack[i].next \in Nat \ {0}
    <3>1. stack[i].count \in Nat
      <4>1. stack[i] \in Activations
        BY <1>3, ElementOfSeq
      <4> QED
        BY <4>1 DEF Activations
    <3> QED
      BY <1>9, <3>1
  <2>7. CASE i = n
    <3>1. Top.next = stack[i].next
      BY <1>2, <2>7
    <3>2. k \in 1..stack'[i].next - 1 <=> k \in 1..stack[i].next - 1 \/ k = stack[i].next
      BY <2>5, <2>6, <2>7
    <3> QED
      BY <2>1, <2>2, <2>3, <2>4, <2>7, <3>1, <3>2
  <2>8. CASE i # n
    <3>1. stack'[i].next = stack[i].next
      BY <2>5, <2>6, <2>8
    <3> QED
      BY <2>1, <2>2, <2>3, <2>4, <2>8, <3>1
  <2> QED
    BY <2>7, <2>8
<1>14. i > 1 => \E h \in Nodes', m \in Int : /\ h = stack'[i - 1].path
                                             /\ m = stack'[i - 1].next - 1
                                             /\ g = Kid(h, m)'
  <2> SUFFICES ASSUME i > 1
               PROVE  \E h \in Nodes', m \in Int : /\ h = stack'[i - 1].path
                                                   /\ m = stack'[i - 1].next - 1
                                                   /\ g = Kid(h, m)'
    OBVIOUS
  <2>1. i - 1 \in 1..n - 1 /\ i - 1 \in 1..n
    BY <1>1, <1>2
  <2>2. PICK h : h = stack[i - 1].path
    OBVIOUS
  <2>3. PICK m : m = stack[i - 1].next - 1
    OBVIOUS
  <2>4. h = stack'[i - 1].path /\ m = stack'[i - 1].next - 1
    BY <1>4, <2>1, <2>2, <2>3
  <2>5. g = Kid(h, m)
    <3>1. Writes(i)
      BY <1>1, <1>7
    <3> QED
      BY <1>8, <2>2, <2>3, <3>1 DEF Writes
  <2>6. h \in Nodes /\ m \in Int
    <3>1. h \in Nodes
      BY <1>7, <2>1, <2>2 DEF Writes
    <3>2. stack[i - 1] \in Activations
      BY <1>1, <1>3, <2>1, ElementOfSeq
    <3> QED
      BY <2>3, <3>1, <3>2 DEF Activations
  <2>7. Kid(h, m)' = Kid(h, m) /\ h \in Nodes'
    BY <2>6, NodeStays
  <2> QED
    BY <2>4, <2>5, <2>6, <2>7
<1>15. \A j \in 1..i : Under(stack'[j].path, g)
  <2> SUFFICES ASSUME NEW j \in 1..i PROVE Under(stack'[j].path, g)
    OBVIOUS
  <2>1. j \in 1..n
    BY <1>1, <1>2
  <2>2. stack'[j].path = stack[j].path
    BY <1>6, <2>1
  <2> QED
    BY <1>9, <2>2
<1>16. stack'[i].path = g /\ stack'[i].in = In(g)' /\ stack'[i].of = Of(g)'
       /\ stack'[i].count = Count(g)'
  BY <1>1, <1>6, <1>8, <1>9, <1>10
<1> QED
  BY <1>9, <1>10, <1>11, <1>12, <1>13, <1>14, <1>15, <1>16
     DEF Writes, Kid, Inner, In, Of, Count, IsBody, IsList, CellAt, Nodes

\* A field that holds nothing below it is written.
LEMMA GrowingOn ==
    ASSUME TypeInv, phase = "writing", More, NEW e, Tree(e), Growing(e),
           NEW cells, Grows(cells), NEW e2, e2 = Grown(e),
           stack' = Stepped, pos' = pos
    PROVE  Growing(e2)'
<1>1. PICK n : n = Len(stack)
  OBVIOUS
<1>2. stack \in Seq(Activations) /\ stack # <<>> /\ n \in Nat \ {0} /\ n \in 1..n
      /\ Top = stack[n] /\ DOMAIN stack = 1..n
  <2>1. stack \in Seq(Activations) /\ stack # <<>>
    BY WritesField DEF TypeInv, Running
  <2>2. Len(stack) \in Nat \ {0} /\ Top = stack[Len(stack)]
    BY OpenIs
  <2> QED
    BY <1>1, <2>1, <2>2, LenProperties
<1>3. /\ stack' \in Seq(Activations) /\ Len(stack') = n
      /\ stack'[n] = [Top EXCEPT !.next = @ + 1]
  BY <1>1, <1>2, SteppedIs
<1>4. Top \in Activations /\ Top.next \in Nat \ {0} /\ At = Kid(Top.path, Top.next)
  <2>1. Top \in Activations
    BY <1>2, NextField
  <2>2. Top.next \in 1..Count(Top.path) /\ At = Kid(Top.path, Top.next)
    BY AtIs
  <2>3. Top.next \in Nat \ {0}
    BY <2>1, <2>2 DEF Activations
  <2> QED
    BY <2>1, <2>2, <2>3
<1>5. Top' = [Top EXCEPT !.next = @ + 1]
  BY <1>3 DEF Top, Last
<1>6. PICK g : g = Top.path
  OBVIOUS
<1>7. PICK m : m = Top.next
  OBVIOUS
<1>8. Top'.path = g /\ Top'.next = m + 1 /\ m \in Nat \ {0} /\ m + 1 # 1 /\ m + 1 - 1 = m
  BY <1>4, <1>5, <1>6, <1>7 DEF Activations
<1>9. \A i \in DOMAIN stack' : Writes(i)'
  <2>1. DOMAIN stack' = 1..n
    BY <1>3, LenProperties
  <2>2. \A i \in 1..Len(stack) : Writes(i)'
    BY WritesOn
  <2> QED
    BY <1>1, <2>1, <2>2
<1>10. Len(wire') + 1 = e2[Kid(g, m)']
  <2>1. g \in Nodes
    BY <1>6, OpenIs
  <2>2. Kid(g, m)' = At
    BY <1>4, <1>6, <1>7, <2>1, NodeStays
  <2> QED
    BY <2>2, GrownIs
<1>11. pos' = 1
  BY DEF Growing
<1>12. Len(wire') + 1 = e2[Kid(Top.path, Top.next - 1)'] /\ Top'.next # 1
  BY <1>8, <1>10 DEF Kid, In, Of, IsList, CellAt
<1> QED
  BY <1>9, <1>11, <1>12 DEF Growing, Kid, In, Of, IsList, CellAt

\* A body or a vector is written: its activation starts.
LEMMA GrowingInto ==
    ASSUME TypeInv, phase = "writing", More, NEW e, Tree(e), Growing(e),
           NEW cells, Grows(cells), NEW e2, e2 = Grown(e),
           NEW b \in Activations, stack' = Append(Stepped, b), pos' = pos,
           NEW a, a = At, b.path = a, b.next = 1,
           Inner(a)', b.in = In(a)', b.of = Of(a)', b.count = Count(a)',
           b.start = IF b.in = "fields" THEN place'[a] + 1 ELSE 0,
           Len(wire') + 1 = First(a)'
    PROVE  Growing(e2)'
<1>1. PICK n : n = Len(stack)
  OBVIOUS
<1>2. stack \in Seq(Activations) /\ stack # <<>> /\ n \in Nat \ {0} /\ n \in 1..n
      /\ Top = stack[n] /\ DOMAIN stack = 1..n
      /\ \A j \in 1..n : stack[j].path \in Paths /\ Len(stack[j].path) = j - 1
  <2>1. stack \in Seq(Activations) /\ stack # <<>>
    BY WritesField DEF TypeInv, Running
  <2>2. /\ Len(stack) \in Nat \ {0} /\ Top = stack[Len(stack)]
        /\ \A j \in 1..Len(stack) : stack[j].path \in Paths /\ Len(stack[j].path) = j - 1
    BY OpenIs
  <2> QED
    BY <1>1, <2>1, <2>2, LenProperties
<1>3. /\ Stepped \in Seq(Activations) /\ Len(Stepped) = n
      /\ \A i \in 1..n - 1 : Stepped[i] = stack[i]
      /\ Stepped[n] = [Top EXCEPT !.next = @ + 1]
  BY <1>1, <1>2, SteppedIs
<1>4. /\ stack' \in Seq(Activations) /\ Len(stack') = n + 1
      /\ \A j \in 1..n : stack'[j] = Stepped[j]
      /\ stack'[n + 1] = b
  BY <1>2, <1>3, AppendProperties
<1>5. Top' = b
  BY <1>4 DEF Top, Last
<1>6. a \in Paths /\ Len(a) = n /\ a = Kid(Top.path, Top.next) /\ a \in Nodes'
  <2>1. At \in Paths /\ Len(At) = Len(Top.path) + 1 /\ At = Kid(Top.path, Top.next)
    BY AtIs
  <2>2. Len(At) = n
    BY <1>2, <2>1
  <2>3. a \in Nodes'
    BY DEF Grows, Nodes
  <2> QED
    BY <2>1, <2>2, <2>3
<1>7. /\ Top \in Activations /\ Top.next \in Nat
      /\ [Top EXCEPT !.next = @ + 1].next = Top.next + 1
      /\ [Top EXCEPT !.next = @ + 1].path = Top.path
  <2>1. Top \in Activations
    BY <1>2, NextField
  <2> QED
    BY <2>1 DEF Activations
<1>8. \A i \in 1..n : Writes(i)'
  <2>1. \A i \in 1..Len(stack) : stack'[i] = Stepped[i]
    BY <1>1, <1>4
  <2> QED
    BY <1>1, <2>1, WritesOn
<1>9. Writes(n + 1)'
  <2>1. \A k \in Nat : Kid(a, k)' \in DOMAIN place' <=> k \in 1..b.next - 1
    <3> SUFFICES ASSUME NEW k \in Nat PROVE Kid(a, k)' \notin DOMAIN place'
      OBVIOUS
    <3>1. b.in \in {"args", "fields", "list", "arm"} /\ b.of \in Types
      BY DEF Activations
    <3>2. Step(b.in, b.of, k) \in Steps
      BY <3>1, PathTypes
    <3>3. Kid(a, k)' = Append(a, Step(b.in, b.of, k))
      BY DEF Kid
    <3>4. Append(a, Step(b.in, b.of, k)) \notin DOMAIN place
      BY <3>2, AtIs
    <3>5. Append(a, Step(b.in, b.of, k)) # a
      <4>1. Len(Append(a, Step(b.in, b.of, k))) = Len(a) + 1 /\ Len(a) \in Nat
        BY <1>6, <3>2, Longer, PathIs
      <4> QED
        BY <4>1
    <3> QED
      BY <3>3, <3>4, <3>5 DEF Grows
  <2>2. b.next \in 1..b.count + 1
    <3>1. b.count \in Nat
      BY DEF Activations
    <3> QED
      BY <3>1
  <2>3. \E h \in Nodes', m \in Int : h = stack'[n].path /\ m = stack'[n].next - 1
                                     /\ a = Kid(h, m)'
    <3>1. PICK h : h = Top.path
      OBVIOUS
    <3>2. PICK m : m = Top.next
      OBVIOUS
    <3>3. h \in Nodes
      BY <3>1, OpenIs
    <3>4. Kid(h, m)' = Kid(h, m) /\ h \in Nodes'
      BY <3>3, NodeStays
    <3>5. stack'[n].path = h /\ stack'[n].next - 1 = m /\ m \in Int
      <4>1. stack'[n] = [Top EXCEPT !.next = @ + 1]
        BY <1>2, <1>3, <1>4
      <4> QED
        BY <1>7, <3>1, <3>2, <4>1
    <3> QED
      BY <1>6, <3>1, <3>2, <3>4, <3>5
  <2>4. \A j \in 1..n + 1 : Under(stack'[j].path, a)
    <3> SUFFICES ASSUME NEW j \in 1..n + 1 PROVE Under(stack'[j].path, a)
      OBVIOUS
    <3>1. CASE j = n + 1
      BY <1>4, <1>6, <3>1, UnderItself
    <3>2. CASE j # n + 1
      <4>1. j \in 1..n
        BY <1>2, <3>2
      <4>2. stack'[j].path = stack[j].path
        <5>1. CASE j = n
          BY <1>2, <1>3, <1>4, <1>7, <5>1
        <5>2. CASE j # n
          <6>1. j \in 1..n - 1
            BY <1>2, <4>1, <5>2
          <6> QED
            BY <1>3, <1>4, <4>1, <6>1
        <5> QED
          BY <5>1, <5>2
      <4>3. stack[j].path \in Open /\ stack[j].path \in Paths
        BY <1>2, <4>1 DEF Open
      <4>4. stack[j].path \in Nodes
        BY <4>3, OpenIs
      <4>5. CASE stack[j].path = <<>>
        BY <4>2, <4>5 DEF Under
      <4>6. CASE stack[j].path # <<>>
        <5>1. stack[j].path \in DOMAIN place
          BY <4>4, <4>6 DEF Nodes
        <5> QED
          BY <4>2, <4>3, <5>1, AtIs
      <4> QED
        BY <4>5, <4>6
    <3> QED
      BY <3>1, <3>2
  <2>5. n + 1 - 1 = n /\ stack'[n + 1] = b /\ Len(a) = n + 1 - 1
    BY <1>2, <1>4, <1>6
  <2>6. PICK i : i = n + 1 /\ i - 1 = n
    BY <1>2
  <2>7. /\ stack'[i].path = a /\ stack'[i].in = b.in /\ stack'[i].of = b.of
        /\ stack'[i].count = b.count /\ stack'[i].next = b.next /\ stack'[i].start = b.start
        /\ Len(a) = i - 1 /\ a \in Nodes' /\ i - 1 = n
    <3>1. stack'[i] = b
      BY <2>5, <2>6
    <3> QED
      BY <1>6, <2>6, <3>1
  <2>8. \E h \in Nodes', m \in Int : h = stack'[i - 1].path /\ m = stack'[i - 1].next - 1
                                     /\ a = Kid(h, m)'
    BY <2>3, <2>7
  <2>9. \A j \in 1..i : Under(stack'[j].path, a)
    BY <2>4, <2>6
  <2>10. Writes(i)'
    BY <2>1, <2>2, <2>7, <2>8, <2>9
       DEF Writes, Kid, Inner, In, Of, Count, IsBody, IsList, CellAt, Nodes
  <2> QED
    BY <2>6, <2>10
<1>10. \A i \in DOMAIN stack' : Writes(i)'
  <2>1. DOMAIN stack' = 1..n + 1
    BY <1>4, LenProperties
  <2>2. \A i \in 1..n + 1 : i \in 1..n \/ i = n + 1
    BY <1>2
  <2> QED
    BY <1>8, <1>9, <2>1, <2>2
<1>11. pos' = 1
  BY DEF Growing
<1>12. Len(wire') + 1 = First(Top.path)' /\ Top'.next = 1
  BY <1>5 DEF First, IsList, CellAt
<1> QED
  BY <1>10, <1>11, <1>12 DEF Growing, First, IsList, CellAt

\* The cells of a field of this type.
CellsOf(f, cells) ==
    \/ f.shape = "word" /\ cells[1].kind = "word" /\ Len(cells) = 1
    \/ /\ f.shape \in {"part", "maybe"} /\ cells[1].kind = "flag" /\ cells[1].val = 1
       /\ Len(cells) = 2
       /\ \/ f.of \in Parcelables /\ cells[2].kind = "size"
          \/ /\ f.of \in Unions /\ cells[2].kind = "tag"
             /\ cells[2].val \in DOMAIN Arms[f.of][Writer]
    \/ f.shape = "maybe" /\ cells[1].kind = "flag" /\ cells[1].val = 0 /\ Len(cells) = 1
    \/ f.shape = "list" /\ cells[1].kind = "count" /\ Len(cells) = 1

LEMMA NewShaped ==
    ASSUME TypeInv, phase = "writing", More, NEW e, Tree(e), Growing(e),
           NEW cells, Grows(cells), CellsOf(Field, cells), NEW e2, e2 = Grown(e),
           NEW p, p = At
    PROVE  Shaped(e2, p)'
<1>1. /\ Len(wire) \in Nat /\ Len(wire') = Len(wire) + Len(cells) /\ Len(cells) \in {1, 2}
      /\ e2[p] = Len(wire') + 1 /\ cells[1].val \in Nat /\ Writer' = Writer
  <2>1. 1 \in 1..Len(cells)
    BY DEF Grows
  <2>2. Len(wire) \in Nat /\ e2[p] = Len(wire') + 1
    BY GrownIs
  <2>3. /\ Len(wire') = Len(wire) + Len(cells) /\ Len(cells) \in {1, 2}
        /\ cells[1].val \in Nat
    BY <2>1 DEF Grows
  <2>4. Writer' = Writer
    BY DEF Grows, Writer
  <2> QED
    BY <2>2, <2>3, <2>4
<1>2. CellAt(p)' = cells[1] /\ place'[p] = Len(wire) + 1
  BY NewCell
<1>3. Field = Declared(p) /\ Field \in FieldType /\ p \notin Open
  BY AtIs
<1>4. Declared(p)' = Declared(p)
  BY DEF Declared, Grows, Writer
<1>5. PICK f : f = Field
  OBVIOUS
<1>6. PICK c : c = cells[1]
  OBVIOUS
<1>7. f = Declared(p)' /\ c = CellAt(p)' /\ f \in FieldType
  BY <1>2, <1>3, <1>4, <1>5, <1>6
<1>8. f.shape \in {"word", "part", "maybe", "list"}
  BY <1>7, FieldTypes
<1>9. CASE f.shape \in {"word", "list"} \/ (c.kind = "flag" /\ c.val = 0)
  <2>1. \/ f.shape = "word" /\ c.kind = "word"
        \/ f.shape = "list" /\ c.kind = "count" /\ c.val \in Nat
        \/ f.shape = "maybe" /\ c.kind = "flag" /\ c.val = 0
    BY <1>1, <1>5, <1>6, <1>9 DEF CellsOf
  <2>2. Len(cells) = 1
    BY <1>5, <1>6, <1>9 DEF CellsOf
  <2>3. e2[p] = place'[p] + 1
    BY <1>1, <1>2, <2>2
  <2>4. p \in Open' => c.kind = "count"
    BY <1>3, <1>6, <2>1 DEF Grows
  <2>5. ~IsBody(p)' /\ ~IsUnion(p)'
    BY <1>7, <2>1 DEF IsBody, IsUnion
  <2>6. c.kind = "word" \/ (c.kind = "flag" /\ c.val = 0)
             => p \notin Open' /\ e2[p] = place'[p] + 1
    BY <2>1, <2>3, <2>4
  <2>7. c.kind = "flag" => c.val = 0
    BY <2>1
  <2> QED
    BY <1>7, <2>1, <2>5, <2>6, <2>7, Zenon DEF Shaped
<1>10. CASE f.shape \in {"part", "maybe"} /\ ~(c.kind = "flag" /\ c.val = 0)
  <2>1. /\ c.kind = "flag" /\ c.val = 1 /\ Len(cells) = 2
        /\ \/ f.of \in Parcelables /\ cells[2].kind = "size"
           \/ /\ f.of \in Unions /\ cells[2].kind = "tag"
              /\ cells[2].val \in DOMAIN Arms[f.of][Writer]
    BY <1>5, <1>6, <1>10 DEF CellsOf
  <2>2. e2[p] >= place'[p] + 2
    BY <1>1, <1>2, <2>1
  <2>3. p \in Open'
    BY <1>6, <2>1 DEF Grows
  <2>4. HeadAt(p)' = cells[2]
    <3>1. wire'[Len(wire) + 2] = cells[2]
      BY <2>1 DEF Grows
    <3>2. place'[p] + 1 = Len(wire) + 2
      BY <1>1, <1>2
    <3> QED
      BY <3>1, <3>2 DEF HeadAt
  <2>5. c.kind # "word" /\ c.val # 0 /\ c.val \in {0, 1}
    BY <2>1
  <2>6. IsUnion(p)' <=> f.of \in Unions
    BY <1>7, <2>1, <2>5 DEF IsUnion, IsBody
  <2>7. IsUnion(p)' => /\ HeadAt(p)'.kind = "tag"
                       /\ HeadAt(p)'.val \in DOMAIN Arms[f.of][Writer']
    BY <1>1, <2>1, <2>4, <2>6, ConstantTypes
  <2>8. ~IsUnion(p)' => HeadAt(p)'.kind = "size"
    BY <2>1, <2>4, <2>6
  <2> QED
    BY <1>7, <1>10, <2>1, <2>2, <2>3, <2>5, <2>7, <2>8, Zenon DEF Shaped
<1> QED
  BY <1>8, <1>9, <1>10

\* What becomes open.
LEMMA OpenThen ==
    ASSUME TypeInv, phase = "writing", stack # <<>>, UNCHANGED phase
    PROVE  /\ stack' = Stepped => Open' = Open
           /\ \A b \in Activations : stack' = Append(Stepped, b) => Open' = Open \cup {b.path}
<1>1. PICK n : n = Len(stack)
  OBVIOUS
<1>2. stack \in Seq(Activations) /\ Top = stack[n] /\ n \in Nat \ {0} /\ DOMAIN stack = 1..n
      /\ n \in 1..n
  <2>1. stack \in Seq(Activations)
    BY DEF TypeInv, Running
  <2>2. Top = stack[Len(stack)] /\ Len(stack) \in Nat \ {0}
    BY NextField
  <2> QED
    BY <1>1, <2>1, <2>2, LenProperties
<1>3. PICK s : s = Stepped
  OBVIOUS
<1>4. /\ s \in Seq(Activations) /\ Len(s) = n /\ \A i \in 1..n - 1 : s[i] = stack[i]
      /\ s[n] = [Top EXCEPT !.next = @ + 1]
  BY <1>1, <1>2, <1>3, SteppedIs
<1>5. \A i \in 1..n : s[i].path = stack[i].path
  <2>1. Top \in Activations
    BY <1>2, NextField
  <2>2. s[n].path = stack[n].path
    BY <1>2, <1>4, <2>1 DEF Activations
  <2>3. \A i \in 1..n : i \in 1..n - 1 \/ i = n
    BY <1>2
  <2> QED
    BY <1>4, <2>2, <2>3
<1>6. DOMAIN s = 1..n
  BY <1>4, LenProperties
<1>7. ASSUME stack' = s PROVE Open' = Open
  BY <1>2, <1>5, <1>6, <1>7 DEF Open
<1>8. ASSUME NEW b \in Activations, stack' = Append(s, b) PROVE Open' = Open \cup {b.path}
  <2>1. PICK t : t = Append(s, b)
    OBVIOUS
  <2>2. /\ t \in Seq(Activations) /\ Len(t) = n + 1 /\ t[n + 1] = b
        /\ \A i \in 1..n : t[i] = s[i]
    BY <1>2, <1>4, <2>1, AppendProperties
  <2>3. DOMAIN t = 1..n + 1
    BY <2>2, LenProperties
  <2>4. \A i : i \in 1..n + 1 <=> i \in 1..n \/ i = n + 1
    BY <1>2
  <2>5. {t[i].path : i \in 1..n + 1} = {stack[i].path : i \in 1..n} \cup {b.path}
    BY <1>5, <2>2, <2>4
  <2>6. Open = {stack[i].path : i \in 1..n}
    BY <1>2 DEF Open
  <2>7. Open' = {t[i].path : i \in 1..n + 1}
    BY <1>8, <2>1, <2>3 DEF Open
  <2> QED
    BY <2>5, <2>6, <2>7
<1> QED
  BY <1>3, <1>7, <1>8

Opens(c) == c.kind = "count" \/ (c.kind = "flag" /\ c.val # 0)

\* Cells that are put into the parcel for a field grow the tree.
LEMMA PutGrows ==
    ASSUME TypeInv, phase = "writing", More,
           NEW cells \in Seq(Cells), Len(cells) \in {1, 2},
           \A i \in DOMAIN cells : cells[i].val \in Nat,
           CellsOf(Field, cells), cells[1].at = At, NEW where,
           Put(cells, where), DOMAIN where = {At}, where[At] = Behind(1),
           \/ stack' = Stepped /\ ~Opens(cells[1])
           \/ \E b \in Activations : stack' = Append(Stepped, b) /\ b.path = At /\ Opens(cells[1])
    PROVE  Grows(cells) /\ pos' = pos
<1>1. /\ Len(wire) \in Nat /\ At \in Paths /\ stack # <<>>
      /\ DOMAIN cells = 1..Len(cells)
  BY WritesField, LenProperties
<1>2. Behind(1) = Len(wire) + 1
  BY DEF Behind
<1>3. \A p \in DOMAIN where : p \in Paths /\ where[p] \in 1..Len(wire) + Len(cells)
  <2>1. Len(wire) + 1 \in 1..Len(wire) + Len(cells)
    BY <1>1
  <2> QED
    BY <1>1, <1>2, <2>1
<1>4. /\ Len(wire') = Len(wire) + Len(cells)
      /\ \A i \in 1..Len(wire) : wire'[i] = wire[i]
      /\ \A i \in 1..Len(cells) : wire'[Len(wire) + i] = cells[i]
  BY <1>3, PutType
<1>5. /\ UNCHANGED <<client, server, phase, message>> /\ pos' = pos
      /\ DOMAIN place' = DOMAIN place \cup {At}
      /\ \A p \in DOMAIN place : p # At => place'[p] = place[p]
      /\ place'[At] = where[At]
  BY DEF Put
<1>6. place'[At] = Len(wire) + 1
  BY <1>2, <1>5
<1>7. IF Opens(cells[1]) THEN Open' = Open \cup {At} ELSE Open' = Open
  <2>1. CASE stack' = Stepped /\ ~Opens(cells[1])
    BY <1>1, <1>5, <2>1, OpenThen
  <2>2. CASE \E b \in Activations : stack' = Append(Stepped, b) /\ b.path = At
                                    /\ Opens(cells[1])
    <3>1. PICK b \in Activations : stack' = Append(Stepped, b) /\ b.path = At
                                   /\ Opens(cells[1])
      BY <2>2
    <3>2. Open' = Open \cup {b.path}
      BY <1>1, <1>5, <3>1, OpenThen
    <3> QED
      BY <3>1, <3>2
  <2> QED
    BY <2>1, <2>2
<1>8. cells[1].kind \notin {"size", "tag"}
  BY DEF CellsOf
<1>9. \A i \in 1..Len(cells) : cells[i].val \in Nat
  BY <1>1
<1> HIDE DEF Put
<1>10. IF cells[1].kind = "count" \/ (cells[1].kind = "flag" /\ cells[1].val # 0)
       THEN Open' = Open \cup {At} ELSE Open' = Open
  BY <1>7 DEF Opens
<1> QED
  BY <1>4, <1>5, <1>6, <1>8, <1>9, <1>10 DEF Grows

LEMMA TreeOn ==
    ASSUME TypeInv, phase = "writing", More, NEW e, Tree(e), Growing(e),
           NEW cells, Grows(cells), CellsOf(Field, cells), pos' = pos,
           stack' = Stepped
    PROVE  \E e2 \in [DOMAIN place' -> Nat] : Tree(e2)' /\ Growing(e2)'
<1>1. PICK e2 : e2 = Grown(e)
  OBVIOUS
<1>2. e2 \in [DOMAIN place' -> Nat]
  BY <1>1, GrownIs
<1>3. PICK a : a = At
  OBVIOUS
<1>4. Tree(e2)'
  <2>1. Shaped(e2, a)'
    BY <1>1, <1>3, NewShaped
  <2> QED
    BY <1>1, <1>3, <2>1, GrownTree
<1>5. Growing(e2)'
  BY <1>1, GrowingOn
<1> QED
  BY <1>2, <1>4, <1>5

LEMMA TreeInto ==
    ASSUME TypeInv, phase = "writing", More, NEW e, Tree(e), Growing(e),
           NEW cells, Grows(cells), CellsOf(Field, cells), pos' = pos,
           NEW b \in Activations, stack' = Append(Stepped, b), b.path = At, b.next = 1,
           \/ /\ Field.shape \in {"part", "maybe"} /\ Field.of \in Unions
              /\ cells[1].val = 1 /\ b.in = "arm" /\ b.count = 1 /\ b.start = 0
              /\ b.of = Arms[Field.of][Writer][cells[2].val]
           \/ /\ Field.shape \in {"part", "maybe"} /\ Field.of \in Parcelables
              /\ cells[1].val = 1 /\ b.in = "fields"
              /\ b.of = Field.of /\ b.count = Len(Layout[Field.of][Writer])
              /\ b.start = Len(wire) + 2
           \/ /\ Field.shape = "list" /\ b.in = "list" /\ b.of = Field.of
              /\ b.count = cells[1].val /\ b.start = 0
    PROVE  \E e2 \in [DOMAIN place' -> Nat] : Tree(e2)' /\ Growing(e2)'
<1>1. PICK e2 : e2 = Grown(e)
  OBVIOUS
<1>2. e2 \in [DOMAIN place' -> Nat]
  BY <1>1, GrownIs
<1>5. PICK a : a = At
  OBVIOUS
<1>4. Tree(e2)'
  <2>1. Shaped(e2, a)'
    BY <1>1, <1>5, NewShaped
  <2> QED
    BY <1>1, <1>5, <2>1, GrownTree
<1>6. PICK f : f = Field
  OBVIOUS
<1>7. CellAt(a)' = cells[1] /\ place'[a] = Len(wire) + 1
  BY <1>5, NewCell
<1>8. Declared(a)' = f /\ a # <<>>
  <2>1. Declared(a) = f /\ a # <<>>
    BY <1>5, <1>6, AtIs
  <2>2. Declared(a)' = Declared(a)
    BY DEF Declared, Grows, Writer
  <2> QED
    BY <2>1, <2>2
<1>9. Len(wire') = Len(wire) + Len(cells) /\ Len(wire) \in Nat /\ Writer' = Writer
  <2>1. Len(wire) \in Nat
    BY WritesField
  <2>2. Len(wire') = Len(wire) + Len(cells)
    BY DEF Grows
  <2>3. Writer' = Writer
    BY DEF Writer, Grows
  <2> QED
    BY <2>1, <2>2, <2>3
<1>10. /\ Inner(a)' /\ b.in = In(a)' /\ b.of = Of(a)' /\ b.count = Count(a)'
       /\ b.start = IF b.in = "fields" THEN place'[a] + 1 ELSE 0
       /\ Len(wire') + 1 = First(a)'
  <2>3. CASE /\ f.shape \in {"part", "maybe"} /\ f.of \in Unions /\ cells[1].val = 1
             /\ b.in = "arm" /\ b.count = 1 /\ b.start = 0
             /\ b.of = Arms[f.of][Writer][cells[2].val]
    <3>1. cells[1].kind = "flag" /\ Len(cells) = 2
      BY <1>6, <2>3 DEF CellsOf
    <3>2. IsBody(a)' /\ ~IsList(a)' /\ IsUnion(a)'
      BY <1>7, <1>8, <2>3, <3>1 DEF IsBody, IsList, IsUnion
    <3>3. HeadAt(a)' = cells[2]
      <4>1. wire'[Len(wire) + 2] = cells[2]
        BY <3>1 DEF Grows
      <4>2. place'[a] + 1 = Len(wire) + 2
        BY <1>7, <1>9
      <4> QED
        BY <4>1, <4>2 DEF HeadAt
    <3>4. Of(a)' = b.of
      BY <1>8, <1>9, <2>3, <3>2, <3>3 DEF Of
    <3>5. /\ In(a)' = "arm" /\ First(a)' = place'[a] + 2 /\ Inner(a)' /\ Count(a)' = 1
      BY <1>8, <3>2 DEF In, First, Inner, Count
    <3>6. Len(wire') + 1 = place'[a] + 2
      BY <1>7, <1>9, <3>1
    <3> QED
      BY <2>3, <3>4, <3>5, <3>6
  <2>1. CASE /\ f.shape \in {"part", "maybe"} /\ f.of \in Parcelables /\ cells[1].val = 1
             /\ b.in = "fields"
             /\ b.of = f.of /\ b.count = Len(Layout[f.of][Writer])
             /\ b.start = Len(wire) + 2
    <3>1. cells[1].kind = "flag" /\ Len(cells) = 2
      BY <1>6, <2>1 DEF CellsOf
    <3>2. IsBody(a)' /\ ~IsList(a)' /\ ~IsUnion(a)'
      BY <1>7, <1>8, <2>1, <3>1, ConstantTypes DEF IsBody, IsList, IsUnion
    <3>3. Of(a)' = f.of /\ In(a)' = "fields" /\ First(a)' = place'[a] + 2 /\ Inner(a)'
      BY <1>8, <3>2 DEF Of, In, First, Inner
    <3>4. Count(a)' = Len(Layout[f.of][Writer])
      BY <1>8, <1>9, <3>2, <3>3 DEF Count
    <3>5. Len(wire') + 1 = place'[a] + 2 /\ place'[a] + 1 = Len(wire) + 2
      BY <1>7, <1>9, <3>1
    <3> QED
      BY <2>1, <3>3, <3>4, <3>5
  <2>2. CASE /\ f.shape = "list" /\ b.in = "list" /\ b.of = f.of
             /\ b.count = cells[1].val /\ b.start = 0
    <3>1. cells[1].kind = "count" /\ Len(cells) = 1
      BY <1>6, <2>2 DEF CellsOf
    <3>2. IsList(a)' /\ ~IsUnion(a)'
      BY <1>7, <3>1 DEF IsList, IsUnion, IsBody
    <3>3. Of(a)' = f.of /\ In(a)' = "list" /\ First(a)' = place'[a] + 1 /\ Inner(a)'
      BY <1>8, <3>2 DEF Of, In, First, Inner
    <3>4. Count(a)' = cells[1].val
      BY <1>7, <1>8, <3>2 DEF Count
    <3>5. Len(wire') + 1 = place'[a] + 1
      BY <1>7, <1>9, <3>1
    <3> QED
      BY <2>2, <3>3, <3>4, <3>5
  <2> QED
    BY <1>6, <2>1, <2>2, <2>3
<1>11. Growing(e2)'
  BY <1>1, <1>5, <1>10, GrowingInto
<1> QED
  BY <1>2, <1>4, <1>11

LEMMA WriteWordTree ==
    ASSUME TypeInv, NEW e, Tree(e), Growing(e), WriteWord
    PROVE  \E e2 \in [DOMAIN place' -> Nat] : Tree(e2)' /\ Growing(e2)'
<1> DEFINE cells == <<Cell("word", At, call)>>
           where == [p \in {At} |-> Behind(1)]
<1>1. phase = "writing" /\ More /\ stack' = Stepped /\ Put(cells, where)
      /\ Field.shape = "word"
  BY DEF WriteWord, Writing
<1>2. /\ cells \in Seq(Cells) /\ Len(cells) = 1 /\ cells[1] = Cell("word", At, call)
      /\ \A i \in DOMAIN cells : cells[i].val \in Nat
  BY <1>1, WritesField, CellTypes, OneCell
<1>3. cells[1].kind = "word" /\ cells[1].at = At /\ CellsOf(Field, cells) /\ ~Opens(cells[1])
  BY <1>1, <1>2 DEF Cell, CellsOf, Opens
<1>4. DOMAIN where = {At} /\ where[At] = Behind(1)
  OBVIOUS
<1> HIDE DEF cells, where
<1>5. Grows(cells) /\ pos' = pos
  BY <1>1, <1>2, <1>3, <1>4, PutGrows
<1> QED
  BY <1>1, <1>3, <1>5, TreeOn

LEMMA WriteNullTree ==
    ASSUME TypeInv, NEW e, Tree(e), Growing(e), WriteNull
    PROVE  \E e2 \in [DOMAIN place' -> Nat] : Tree(e2)' /\ Growing(e2)'
<1> DEFINE cells == <<Cell("flag", At, 0)>>
           where == [p \in {At} |-> Behind(1)]
<1>1. phase = "writing" /\ More /\ stack' = Stepped /\ Put(cells, where)
      /\ Field.shape = "maybe"
  BY DEF WriteNull, Writing
<1>2. /\ cells \in Seq(Cells) /\ Len(cells) = 1 /\ cells[1] = Cell("flag", At, 0)
      /\ \A i \in DOMAIN cells : cells[i].val \in Nat
  BY <1>1, WritesField, CellTypes, OneCell
<1>3. /\ cells[1].kind = "flag" /\ cells[1].at = At /\ CellsOf(Field, cells)
      /\ ~Opens(cells[1])
  BY <1>1, <1>2 DEF Cell, CellsOf, Opens
<1>4. DOMAIN where = {At} /\ where[At] = Behind(1)
  OBVIOUS
<1> HIDE DEF cells, where
<1>5. Grows(cells) /\ pos' = pos
  BY <1>1, <1>2, <1>3, <1>4, PutGrows
<1> QED
  BY <1>1, <1>3, <1>5, TreeOn

LEMMA WriteUnionTree ==
    ASSUME TypeInv, NEW e, Tree(e), Growing(e), WriteUnion
    PROVE  \E e2 \in [DOMAIN place' -> Nat] : Tree(e2)' /\ Growing(e2)'
<1>1. PICK tag \in DOMAIN Arms[Field.of][Writer] :
          /\ Put(<<Cell("flag", At, 1), Cell("tag", At, tag)>>,
                 [p \in {At} |-> Behind(1)])
          /\ stack' = Append(Stepped, Value(Arms[Field.of][Writer][tag], At))
  BY DEF WriteUnion
<1> DEFINE cells == <<Cell("flag", At, 1), Cell("tag", At, tag)>>
           where == [p \in {At} |-> Behind(1)]
           b == Value(Arms[Field.of][Writer][tag], At)
<1>2. phase = "writing" /\ More /\ stack' = Append(Stepped, b) /\ Put(cells, where)
      /\ Field.shape \in {"part", "maybe"} /\ Field.of \in Unions
  BY <1>1 DEF WriteUnion, Writing
<1>3. /\ tag \in Nat /\ Arms[Field.of][Writer][tag] \in Variants
      /\ At \in Paths /\ Len(wire) \in Nat
  BY <1>1, <1>2, WritesField, TagArm
<1>4. /\ cells \in Seq(Cells) /\ Len(cells) = 2 /\ cells[1] = Cell("flag", At, 1)
      /\ cells[2] = Cell("tag", At, tag)
      /\ \A i \in DOMAIN cells : cells[i].val \in Nat
  BY <1>3, CellTypes, TwoCells
<1>5. /\ cells[1].kind = "flag" /\ cells[1].at = At /\ cells[1].val = 1
      /\ cells[2].kind = "tag" /\ cells[2].val = tag
      /\ CellsOf(Field, cells) /\ Opens(cells[1])
  BY <1>1, <1>2, <1>4 DEF Cell, CellsOf, Opens
<1>6. DOMAIN where = {At} /\ where[At] = Behind(1)
  OBVIOUS
<1>7. /\ b.path = At /\ b.next = 1 /\ b.in = "arm" /\ b.count = 1 /\ b.start = 0
      /\ b.of = Arms[Field.of][Writer][cells[2].val]
  BY <1>5 DEF Value, Activation
<1>8. b \in Activations
  BY <1>3, ValueType
<1> HIDE DEF cells, where, b
<1>9. Grows(cells) /\ pos' = pos
  BY <1>2, <1>4, <1>5, <1>6, <1>7, <1>8, PutGrows
<1> QED
  BY <1>2, <1>5, <1>7, <1>8, <1>9, TreeInto

LEMMA WriteParcelableTree ==
    ASSUME TypeInv, NEW e, Tree(e), Growing(e), WriteParcelable
    PROVE  \E e2 \in [DOMAIN place' -> Nat] : Tree(e2)' /\ Growing(e2)'
<1> DEFINE cells == <<Cell("flag", At, 1), Cell("size", At, 0)>>
           where == [p \in {At} |-> Behind(1)]
           b == Body(Field.of, Writer, Behind(2), 0, At)
<1>1. phase = "writing" /\ More /\ stack' = Append(Stepped, b) /\ Put(cells, where)
      /\ Field.shape \in {"part", "maybe"} /\ Field.of \in Parcelables
  BY DEF WriteParcelable, Writing
<1>2. /\ cells \in Seq(Cells) /\ Len(cells) = 2 /\ cells[1] = Cell("flag", At, 1)
      /\ cells[2] = Cell("size", At, 0)
      /\ \A i \in DOMAIN cells : cells[i].val \in Nat
  BY <1>1, WritesField, CellTypes, TwoCells
<1>3. /\ cells[1].kind = "flag" /\ cells[1].at = At /\ cells[1].val = 1
      /\ cells[2].kind = "size"
      /\ CellsOf(Field, cells) /\ Opens(cells[1])
  BY <1>1, <1>2 DEF Cell, CellsOf, Opens
<1>4. DOMAIN where = {At} /\ where[At] = Behind(1)
  OBVIOUS
<1>5. /\ b.path = At /\ b.next = 1 /\ b.in = "fields" /\ b.of = Field.of
      /\ b.count = Len(Layout[Field.of][Writer]) /\ b.start = Len(wire) + 2
  BY DEF Body, Activation, Behind
<1>6. b \in Activations
  <2>1. Field.of \in Parcelables /\ Writer \in Releases /\ At \in Paths /\ Len(wire) + 2 \in Nat
        /\ Len(wire) + 2 <= Len(wire) + 2
    BY <1>1, WritesField, FieldTypes
  <2> QED
    BY <2>1, BodyType DEF Behind
<1> HIDE DEF cells, where, b
<1>7. Grows(cells) /\ pos' = pos
  BY <1>1, <1>2, <1>3, <1>4, <1>5, <1>6, PutGrows
<1> QED
  BY <1>1, <1>3, <1>5, <1>6, <1>7, TreeInto

LEMMA WriteVectorTree ==
    ASSUME TypeInv, NEW e, Tree(e), Growing(e), WriteVector
    PROVE  \E e2 \in [DOMAIN place' -> Nat] : Tree(e2)' /\ Growing(e2)'
<1>1. PICK n \in 0..MaxList :
          /\ Put(<<Cell("count", At, n)>>, [p \in {At} |-> Behind(1)])
          /\ stack' = Append(Stepped, Elements(Field.of, n, At))
  BY DEF WriteVector
<1> DEFINE cells == <<Cell("count", At, n)>>
           where == [p \in {At} |-> Behind(1)]
           b == Elements(Field.of, n, At)
<1>2. phase = "writing" /\ More /\ stack' = Append(Stepped, b) /\ Put(cells, where)
      /\ Field.shape = "list"
  BY <1>1 DEF WriteVector, Writing
<1>3. n \in Nat
  BY ConstantTypes
<1>4. /\ cells \in Seq(Cells) /\ Len(cells) = 1 /\ cells[1] = Cell("count", At, n)
      /\ \A i \in DOMAIN cells : cells[i].val \in Nat
  BY <1>2, <1>3, WritesField, CellTypes, OneCell
<1>5. /\ cells[1].kind = "count" /\ cells[1].at = At /\ cells[1].val = n
      /\ CellsOf(Field, cells) /\ Opens(cells[1])
  BY <1>2, <1>4 DEF Cell, CellsOf, Opens
<1>6. DOMAIN where = {At} /\ where[At] = Behind(1)
  OBVIOUS
<1>7. /\ b.path = At /\ b.next = 1 /\ b.in = "list" /\ b.of = Field.of
      /\ b.count = n /\ b.start = 0
  BY DEF Elements, Activation
<1>8. b \in Activations
  <2>1. Field.of \in Parcelables \cup Unions /\ At \in Paths
    BY <1>2, WritesField, FieldTypes
  <2>2. 0 \in Nat
    OBVIOUS
  <2> QED
    BY <1>3, <2>1, <2>2, ElementsType
<1> HIDE DEF cells, where, b
<1>9. Grows(cells) /\ pos' = pos
  BY <1>2, <1>4, <1>5, <1>6, <1>7, <1>8, PutGrows
<1> QED
  BY <1>2, <1>5, <1>7, <1>8, <1>9, TreeInto

----------------------------------------------------------------------------
(* The end of a body or of a vector.                                       *)

\* Patching the size header leaves every cell that says what a field holds.
LEMMA Patched ==
    ASSUME TypeInv, NEW e, Tree(e), Growing(e), EndWrite, NEW t, t = Top.path
    PROVE  /\ t \in DOMAIN place /\ t \in Paths /\ Inner(t) /\ Len(wire') = Len(wire)
           /\ Len(wire) \in Nat
           /\ \A i \in 1..Len(wire) : wire'[i].kind = wire[i].kind
           /\ \A p \in DOMAIN place : CellAt(p)' = CellAt(p)
           /\ \A i \in 1..Len(wire) : i # Top.start => wire'[i] = wire[i]
           /\ In(t) = "fields" =>
                /\ Top.start = place[t] + 1 /\ Top.start \in 1..Len(wire)
                /\ wire[Top.start].kind = "size"
                /\ wire'[Top.start].val = Len(wire) + 1 - Top.start
           /\ In(t) # "fields" => Top.start = 0
           /\ UNCHANGED <<client, server, phase, message, place, pos>>
<1>1. /\ phase = "writing" /\ Len(stack) > 1 /\ stack' = Front(stack)
      /\ wire' = IF Top.start = 0 THEN wire
                 ELSE [wire EXCEPT ![Top.start].val = Behind(1) - Top.start]
      /\ UNCHANGED <<client, server, phase, message, place, pos>>
  BY DEF EndWrite
<1>2. /\ Len(stack) \in Nat \ {0} /\ Top = stack[Len(stack)] /\ Writes(Len(stack))
      /\ t \in Nodes /\ t \in Paths /\ Inner(t) /\ Len(t) = Len(stack) - 1
  <2>1. Len(stack) \in 1..Len(stack)
    BY <1>1, OpenIs
  <2> QED
    BY <1>1, <2>1, OpenIs
<1>3. t \in DOMAIN place /\ t # <<>>
  <2>1. t # <<>>
    BY <1>1, <1>2, PathIs
  <2> QED
    BY <1>2, <2>1 DEF Nodes
<1>4. Top.in = In(t) /\ Top.start = IF Top.in = "fields" THEN place[t] + 1 ELSE 0
  BY <1>2 DEF Writes
<1>5. wire \in Seq(Cells) /\ Len(wire) \in Nat /\ DOMAIN wire = 1..Len(wire)
  BY LenProperties DEF TypeInv, Parcel
<1>6. /\ place[t] \in 1..Len(wire) /\ e[t] \in Nat /\ e[t] <= Len(wire) + 1
  BY <1>3 DEF Tree, Extent
<1>7. CASE In(t) = "fields"
  <2>1. IsBody(t) /\ ~IsUnion(t)
    BY <1>2, <1>3, <1>7, InnerIs
  <2>2. e[t] >= place[t] + 2 /\ wire[place[t] + 1].kind = "size"
    BY <1>3, <2>1 DEF Tree, Shaped, HeadAt
  <2>3. /\ Top.start = place[t] + 1 /\ Top.start \in 1..Len(wire) /\ Top.start # 0
        /\ wire[Top.start].kind = "size"
    BY <1>4, <1>5, <1>6, <1>7, <2>2
  <2>4. Behind(1) = Len(wire) + 1
    BY DEF Behind
  <2>5. PICK s : s = Top.start
    OBVIOUS
  <2>6. PICK v : v = Len(wire) + 1 - Top.start
    OBVIOUS
  <2>7. s \in 1..Len(wire) /\ wire' = [wire EXCEPT ![s] = [wire[s] EXCEPT !.val = v]]
    <3>1. v = Behind(1) - s
      BY <1>5, <2>3, <2>4, <2>5, <2>6
    <3>2. wire' = [wire EXCEPT ![s].val = Behind(1) - s]
      BY <1>1, <2>3, <2>5
    <3> QED
      BY <2>3, <2>5, <3>1, <3>2
  <2>8. wire[s] \in Cells
    BY <1>5, <2>7, ElementOfSeq
  <2>9. /\ [wire[s] EXCEPT !.val = v].kind = wire[s].kind
        /\ [wire[s] EXCEPT !.val = v].val = v
    BY <2>8 DEF Cells
  <2>10. /\ DOMAIN wire' = 1..Len(wire)
         /\ wire'[s] = [wire[s] EXCEPT !.val = v]
         /\ \A i \in 1..Len(wire) : i # s => wire'[i] = wire[i]
    BY <1>5, <2>7
  <2>11. Len(wire') = Len(wire)
    <3>1. TypeInv'
      BY EndWriteType
    <3>2. wire' \in Seq(Cells)
      BY <3>1 DEF TypeInv, Parcel
    <3> QED
      BY <1>5, <2>10, <3>2, LenProperties
  <2>12. \A i \in 1..Len(wire) : wire'[i].kind = wire[i].kind
    BY <2>9, <2>10
  <2>13. ASSUME NEW p \in DOMAIN place PROVE CellAt(p)' = CellAt(p)
    <3>1. place[p] \in 1..Len(wire) /\ wire[place[p]].kind # "size"
      BY DEF Tree, Extent, CellAt
    <3>2. place[p] # s
      BY <2>3, <2>5, <3>1
    <3>3. wire'[place[p]] = wire[place[p]]
      BY <2>10, <3>1, <3>2
    <3> QED
      BY <1>1, <3>3 DEF CellAt
  <2> QED
    BY <1>1, <1>2, <1>3, <1>5, <1>7, <2>3, <2>5, <2>6, <2>9, <2>10, <2>11, <2>12, <2>13
<1>8. CASE In(t) # "fields"
  <2>1. Top.start = 0 /\ wire' = wire
    BY <1>1, <1>4, <1>8
  <2>2. \A p : CellAt(p)' = CellAt(p)
    BY <1>1, <2>1 DEF CellAt
  <2> QED
    BY <1>1, <1>2, <1>3, <1>5, <1>8, <2>1, <2>2
<1> QED
  BY <1>7, <1>8

\* The nodes are what they were, and one of them is closed.
LEMMA PatchedNodes ==
    ASSUME TypeInv, NEW e, Tree(e), Growing(e), EndWrite, NEW t, t = Top.path
    PROVE  /\ Nodes' = Nodes /\ Writer' = Writer
           /\ \A p \in DOMAIN place : /\ Declared(p)' = Declared(p) /\ (IsBody(p)' <=> IsBody(p))
                                      /\ (IsUnion(p)' <=> IsUnion(p))
                                      /\ IsUnion(p) => HeadAt(p)' = HeadAt(p)
           /\ \A p \in Nodes : /\ (Inner(p)' <=> Inner(p)) /\ In(p)' = In(p) /\ Of(p)' = Of(p)
                               /\ Count(p)' = Count(p) /\ First(p)' = First(p)
                               /\ (\A k : Kid(p, k)' = Kid(p, k))
           /\ \A p : End(e, p)' = End(e, p)
           /\ t \in Open /\ Open' = Open \ {t} /\ e[t] = Len(wire) + 1
<1>1. /\ UNCHANGED <<client, server, phase, message, place>> /\ Len(wire') = Len(wire)
      /\ \A p \in DOMAIN place : CellAt(p)' = CellAt(p)
      /\ t \in DOMAIN place /\ phase = "writing"
  BY Patched DEF EndWrite
<1>2. Nodes' = Nodes /\ Writer' = Writer
  BY <1>1 DEF Nodes, Writer
<1>3. \A p \in DOMAIN place : /\ Declared(p)' = Declared(p)
                              /\ (IsBody(p)' <=> IsBody(p)) /\ (IsList(p)' <=> IsList(p))
                              /\ (IsUnion(p)' <=> IsUnion(p))
  BY <1>1, <1>2 DEF Declared, IsBody, IsList, IsUnion
<1>9. ASSUME NEW p \in DOMAIN place, IsUnion(p) PROVE HeadAt(p)' = HeadAt(p)
  <2>1. /\ place[p] \in 1..Len(wire) /\ e[p] \in Nat /\ e[p] <= Len(wire) + 1
        /\ e[p] >= place[p] + 2 /\ wire[place[p] + 1].kind = "tag"
    BY <1>9 DEF Tree, Extent, Shaped, IsUnion, HeadAt
  <2>2. /\ Len(wire) \in Nat /\ \A i \in 1..Len(wire) : i # Top.start => wire'[i] = wire[i]
        /\ In(t) = "fields" => wire[Top.start].kind = "size"
        /\ In(t) # "fields" => Top.start = 0
    BY Patched
  <2>3. place[p] + 1 \in 1..Len(wire)
    BY <2>1, <2>2
  <2>4. place[p] + 1 # Top.start
    BY <2>1, <2>2
  <2>5. wire'[place[p] + 1] = wire[place[p] + 1]
    BY <2>2, <2>3, <2>4
  <2> QED
    BY <1>1, <2>5 DEF HeadAt
<1>4. ASSUME NEW p \in Nodes
      PROVE  /\ (Inner(p)' <=> Inner(p)) /\ In(p)' = In(p) /\ Of(p)' = Of(p)
             /\ Count(p)' = Count(p) /\ First(p)' = First(p)
             /\ (\A k : Kid(p, k)' = Kid(p, k))
  <2>1. CASE p = <<>>
    BY <1>1, <2>1, RootStays
  <2>2. CASE p # <<>>
    <3>1. p \in DOMAIN place
      BY <2>2 DEF Nodes
    <3>2. /\ Declared(p)' = Declared(p) /\ (IsBody(p)' <=> IsBody(p))
          /\ (IsList(p)' <=> IsList(p)) /\ CellAt(p)' = CellAt(p)
          /\ (IsUnion(p)' <=> IsUnion(p)) /\ (IsUnion(p) => HeadAt(p)' = HeadAt(p))
          /\ place'[p] = place[p]
      BY <1>1, <1>3, <1>9, <3>1
    <3>3. (Inner(p)' <=> Inner(p)) /\ In(p)' = In(p) /\ Of(p)' = Of(p)
      BY <1>2, <3>2 DEF Inner, In, Of
    <3>4. Count(p)' = Count(p)
      BY <1>1, <1>2, <3>2, <3>3 DEF Count
    <3>5. First(p)' = First(p)
      BY <3>2 DEF First
    <3>6. \A k : Kid(p, k)' = Kid(p, k)
      BY <3>3 DEF Kid
    <3> QED
      BY <3>3, <3>4, <3>5, <3>6
  <2> QED
    BY <2>1, <2>2
<1>5. \A p : End(e, p)' = End(e, p)
  BY <1>1 DEF End
<1>6. t \in Open
  BY <1>1, OpenIs
<1>7. e[t] = Len(wire) + 1
  BY <1>1, <1>6 DEF Tree, Extent
<1>8. Open' = Open \ {t}
  <2>1. PICK n : n = Len(stack)
    OBVIOUS
  <2>2. stack \in Seq(Activations) /\ stack # <<>> /\ n \in Nat /\ n > 1
        /\ DOMAIN stack = 1..n /\ t = stack[n].path
        /\ \A i \in 1..n : stack[i].path \in Paths /\ Len(stack[i].path) = i - 1
    <3>1. stack \in Seq(Activations) /\ n > 1
      BY <2>1 DEF TypeInv, Running, EndWrite
    <3>2. /\ Len(stack) \in Nat \ {0} /\ Top = stack[Len(stack)]
          /\ \A i \in 1..Len(stack) : stack[i].path \in Paths /\ Len(stack[i].path) = i - 1
      BY <1>1, OpenIs
    <3> QED
      BY <2>1, <3>1, <3>2, LenProperties
  <2>3. stack' \in Seq(Activations) /\ Len(stack') = n - 1
        /\ \A i \in 1..n - 1 : stack'[i] = stack[i]
    BY <2>1, <2>2, FrontIs DEF EndWrite
  <2>4. DOMAIN stack' = 1..n - 1
    BY <2>3, LenProperties
  <2>5. \A i \in 1..n : stack[i].path = t <=> i = n
    BY <2>2
  <2>6. \A i : i \in 1..n - 1 <=> i \in 1..n /\ i # n
    BY <2>2
  <2>7. Open = {stack[i].path : i \in 1..n}
    BY <1>1, <2>2 DEF Open
  <2>8. Open' = {stack'[i].path : i \in 1..n - 1}
    BY <1>1, <2>4 DEF Open
  <2>9. {stack'[i].path : i \in 1..n - 1} = {stack[i].path : i \in 1..n - 1}
    BY <2>3
  <2>10. {stack[i].path : i \in 1..n - 1} = {stack[i].path : i \in 1..n} \ {t}
    BY <2>5, <2>6
  <2> QED
    BY <2>7, <2>8, <2>9, <2>10
<1> QED
  BY <1>2, <1>3, <1>4, <1>5, <1>6, <1>7, <1>8, <1>9

\* The node that is closed has all its fields.
LEMMA ClosedIsComplete ==
    ASSUME TypeInv, phase = "writing", NEW e, Tree(e), Growing(e), ~More
    PROVE  Complete(e, Top.path)
<1>1. PICK t : t = Top.path
  OBVIOUS
<1>2. /\ Len(stack) \in Nat \ {0} /\ Top = stack[Len(stack)] /\ Writes(Len(stack))
      /\ t \in Open /\ t \in Nodes /\ t \in Paths /\ Inner(t) /\ stack # <<>>
  <2>1. stack # <<>>
    BY DEF TypeInv, Running
  <2> QED
    BY <1>1, <2>1, OpenIs
<1>3. Top \in Activations
  BY <1>2, NextField
<1>4. /\ Top.count = Count(t) /\ Top.next \in 1..Top.count + 1
      /\ \A k \in Nat : Kid(t, k) \in DOMAIN place <=> k \in 1..Top.next - 1
  BY <1>1, <1>2 DEF Writes
<1>5. Count(t) \in Nat /\ Top.next \in Nat /\ Top.next = Count(t) + 1
  BY <1>3, <1>4 DEF Activations, More
<1>6. End(e, t) = Len(wire) + 1
  BY <1>2 DEF End, Tree, Extent, Nodes
<1>7. Len(wire) + 1 = IF Top.next = 1 THEN First(t) ELSE e[Kid(t, Top.next - 1)]
  BY <1>1 DEF Growing
<1>8. Top.next - 1 = Count(t) /\ (Top.next = 1 <=> Count(t) = 0)
  BY <1>5
<1>9. End(e, t) = IF Count(t) = 0 THEN First(t) ELSE e[Kid(t, Count(t))]
  BY <1>6, <1>7, <1>8
<1>10. \A k \in 1..Count(t) : Kid(t, k) \in DOMAIN place
  BY <1>4, <1>5, <1>8
<1> QED
  BY <1>1, <1>9, <1>10 DEF Complete

LEMMA EndWriteTree ==
    ASSUME TypeInv, NEW e \in [DOMAIN place -> Nat], Tree(e), Growing(e), EndWrite
    PROVE  e \in [DOMAIN place' -> Nat] /\ Tree(e)'
<1>1. PICK t : t = Top.path
  OBVIOUS
<1>2. /\ t \in DOMAIN place /\ t \in Paths /\ Inner(t) /\ Len(wire') = Len(wire)
      /\ Len(wire) \in Nat
      /\ \A i \in 1..Len(wire) : wire'[i].kind = wire[i].kind
      /\ \A p \in DOMAIN place : CellAt(p)' = CellAt(p)
      /\ \A i \in 1..Len(wire) : i # Top.start => wire'[i] = wire[i]
      /\ In(t) = "fields" =>
           /\ Top.start = place[t] + 1 /\ Top.start \in 1..Len(wire)
           /\ wire'[Top.start].val = Len(wire) + 1 - Top.start
      /\ In(t) # "fields" => Top.start = 0
      /\ UNCHANGED <<client, server, phase, message, place, pos>>
  BY <1>1, Patched
<1>3. /\ Nodes' = Nodes /\ Writer' = Writer
      /\ \A p \in DOMAIN place : /\ Declared(p)' = Declared(p) /\ (IsBody(p)' <=> IsBody(p))
                                 /\ (IsUnion(p)' <=> IsUnion(p))
                                 /\ IsUnion(p) => HeadAt(p)' = HeadAt(p)
      /\ \A p \in Nodes : /\ (Inner(p)' <=> Inner(p)) /\ In(p)' = In(p) /\ Of(p)' = Of(p)
                          /\ Count(p)' = Count(p) /\ First(p)' = First(p)
                          /\ (\A k : Kid(p, k)' = Kid(p, k))
      /\ \A p : End(e, p)' = End(e, p)
      /\ t \in Open /\ Open' = Open \ {t} /\ e[t] = Len(wire) + 1
  BY <1>1, PatchedNodes
<1>4. \A p \in DOMAIN place : Extent(e, p) /\ Shaped(e, p) /\ Placed(e, p)
  BY DEF Tree
<1>5. ASSUME NEW p \in DOMAIN place PROVE Extent(e, p)'
  BY <1>2, <1>3, <1>4 DEF Extent
<1>6. ASSUME NEW p \in DOMAIN place PROVE Shaped(e, p)'
  <2>1. Shaped(e, p)
    BY <1>4
  <2>2. /\ CellAt(p)' = CellAt(p) /\ Declared(p)' = Declared(p) /\ Writer' = Writer
        /\ (IsBody(p)' <=> IsBody(p)) /\ (IsUnion(p)' <=> IsUnion(p))
        /\ place'[p] = place[p] /\ place' = place
    BY <1>2, <1>3
  <2>3. /\ Declared(p) \in FieldType
        /\ CASE Declared(p).shape = "word"  -> CellAt(p).kind = "word"
             [] Declared(p).shape = "part"  -> CellAt(p).kind = "flag" /\ CellAt(p).val = 1
             [] Declared(p).shape = "maybe" ->
                   CellAt(p).kind = "flag" /\ CellAt(p).val \in {0, 1}
             [] Declared(p).shape = "list"  ->
                   CellAt(p).kind = "count" /\ CellAt(p).val \in Nat
    BY <2>1, Zenon DEF Shaped
  <2>4. CellAt(p).kind = "word" \/ (CellAt(p).kind = "flag" /\ CellAt(p).val = 0) =>
          p \notin Open' /\ e[p] = place[p] + 1
    BY <1>3, <2>1 DEF Shaped
  <2>5. /\ IsBody(p) => e[p] >= place[p] + 2
        /\ IsUnion(p) => /\ HeadAt(p)'.kind = "tag"
                         /\ HeadAt(p)'.val \in DOMAIN Arms[Declared(p).of][Writer]
    BY <1>3, <2>1 DEF Shaped
  <2>6. IsBody(p) /\ ~IsUnion(p) =>
          /\ HeadAt(p)'.kind = "size"
          /\ p \notin Open' => HeadAt(p)'.val = e[p] - place[p] - 1
    <3> SUFFICES ASSUME IsBody(p), ~IsUnion(p)
                 PROVE  /\ wire'[place[p] + 1].kind = "size"
                        /\ p \notin Open' => wire'[place[p] + 1].val = e[p] - place[p] - 1
      BY <2>2 DEF HeadAt
    <3>1. /\ e[p] >= place[p] + 2 /\ wire[place[p] + 1].kind = "size"
          /\ p \notin Open => wire[place[p] + 1].val = e[p] - place[p] - 1
      BY <2>1 DEF Shaped, HeadAt
    <3>2. /\ e[p] \in Nat /\ place[p] \in 1..Len(wire) /\ e[p] <= Len(wire) + 1
          /\ CellAt(p).at = p
      BY <1>4 DEF Extent
    <3>3. place[p] + 1 \in 1..Len(wire)
      BY <1>2, <3>1, <3>2
    <3>4. wire'[place[p] + 1].kind = "size"
      BY <1>2, <3>1, <3>3
    <3>5. CASE p = t
      <4>1. In(t) = "fields"
        <5>1. ~IsList(t) /\ t # <<>>
          <6>1. t # <<>>
            BY <1>2, <1>4 DEF Extent
          <6> QED
            BY <3>5, <6>1 DEF IsBody, IsList
        <5> QED
          BY <3>5, <5>1 DEF In
      <4>2. wire'[place[p] + 1].val = Len(wire) + 1 - (place[p] + 1)
        BY <1>2, <3>5, <4>1
      <4>3. wire'[place[p] + 1].val = e[p] - place[p] - 1
        BY <1>2, <1>3, <3>2, <3>5, <4>2
      <4> QED
        BY <3>1, <3>4, <4>3
    <3>6. CASE p # t
      <4>1. place[p] # place[t]
        <5>1. CellAt(t).at = t /\ CellAt(p).at = p
          BY <1>2, <1>4 DEF Extent
        <5> QED
          BY <3>6, <5>1 DEF CellAt
      <4>2. place[t] \in 1..Len(wire)
        BY <1>2, <1>4 DEF Extent
      <4>3. place[p] + 1 # Top.start
        BY <1>2, <3>2, <4>1, <4>2
      <4>4. wire'[place[p] + 1] = wire[place[p] + 1]
        BY <1>2, <3>3, <4>3
      <4>5. p \notin Open' => p \notin Open
        BY <1>3, <3>6
      <4> QED
        BY <3>1, <3>4, <4>4, <4>5
    <3> QED
      BY <3>5, <3>6
  <2> QED
    BY <2>2, <2>3, <2>4, <2>5, <2>6, Zenon DEF Shaped
<1>7. ASSUME NEW p \in DOMAIN place PROVE Placed(e, p)'
  <2>1. Placed(e, p)
    BY <1>4
  <2>2. PICK f : f = Front(p)
    OBVIOUS
  <2>3. PICK k : k = Last(p).nr
    OBVIOUS
  <2>4. /\ f \in Nodes /\ Inner(f) /\ p = Kid(f, k)
        /\ k \in 1..Count(f) /\ e[p] <= End(e, f)
        /\ k = 1 => place[p] = First(f)
        /\ \A j \in 1..k - 1 : /\ Kid(f, j) \in DOMAIN place \ Open
                               /\ e[Kid(f, j)] <= place[p]
        /\ k > 1 => place[p] = e[Kid(f, k - 1)]
    BY <2>1, <2>2, <2>3 DEF Placed
  <2>5. /\ f \in Nodes' /\ Inner(f)' /\ Count(f)' = Count(f) /\ First(f)' = First(f)
        /\ \A j : Kid(f, j)' = Kid(f, j)
        /\ End(e, f)' = End(e, f) /\ place' = place
    BY <1>2, <1>3, <2>4
  <2>6. \A j \in 1..k - 1 : /\ Kid(f, j)' \in DOMAIN place' \ Open'
                            /\ e[Kid(f, j)'] <= place'[p]
    BY <1>3, <2>4, <2>5
  <2> QED
    BY <2>2, <2>3, <2>4, <2>5, <2>6 DEF Placed
<1>8. ASSUME NEW p \in Nodes' \ Open', Inner(p)' PROVE Complete(e, p)'
  <2>1. p \in Nodes /\ Inner(p) /\ (p \notin Open \/ p = t)
    BY <1>3, <1>8
  <2>2. Complete(e, t)
    BY <1>1, ClosedIsComplete DEF EndWrite
  <2>3. Complete(e, p)
    BY <2>1, <2>2 DEF Tree
  <2>4. /\ Count(p)' = Count(p) /\ First(p)' = First(p) /\ End(e, p)' = End(e, p)
        /\ \A k : Kid(p, k)' = Kid(p, k)
    BY <1>3, <2>1
  <2> QED
    BY <1>2, <2>3, <2>4 DEF Complete
<1>9. Nested(e)'
  BY <1>2 DEF Nested, Tree
<1>10. DOMAIN e = DOMAIN place' /\ e \in [DOMAIN place' -> Nat]
  BY <1>2 DEF Tree
<1> QED
  BY <1>2, <1>5, <1>6, <1>7, <1>8, <1>9, <1>10 DEF Tree

LEMMA EndWriteGrowing ==
    ASSUME TypeInv, NEW e, Tree(e), Growing(e), EndWrite
    PROVE  Growing(e)'
<1>1. PICK t : t = Top.path
  OBVIOUS
<1>2. /\ UNCHANGED <<client, server, phase, message, place, pos>> /\ Len(wire') = Len(wire)
      /\ t \in DOMAIN place /\ \A p \in DOMAIN place : CellAt(p)' = CellAt(p)
  BY <1>1, Patched
<1>3. /\ Nodes' = Nodes
      /\ \A p \in Nodes : /\ (Inner(p)' <=> Inner(p)) /\ In(p)' = In(p) /\ Of(p)' = Of(p)
                          /\ Count(p)' = Count(p) /\ First(p)' = First(p)
                          /\ (\A k : Kid(p, k)' = Kid(p, k))
      /\ e[t] = Len(wire) + 1
  BY <1>1, PatchedNodes
<1>4. PICK n : n = Len(stack)
  OBVIOUS
<1>5. /\ stack \in Seq(Activations) /\ stack # <<>> /\ n \in Nat /\ n > 1 /\ DOMAIN stack = 1..n
      /\ phase = "writing" /\ stack' = Front(stack) /\ Top = stack[n]
  <2>1. stack \in Seq(Activations) /\ n > 1 /\ phase = "writing" /\ stack' = Front(stack)
    BY <1>4 DEF TypeInv, Running, EndWrite
  <2>2. Len(stack) \in Nat \ {0} /\ Top = stack[Len(stack)]
    BY <2>1, OpenIs
  <2> QED
    BY <1>4, <2>1, <2>2, LenProperties
<1>6. /\ stack' \in Seq(Activations) /\ Len(stack') = n - 1 /\ DOMAIN stack' = 1..n - 1
      /\ \A i \in 1..n - 1 : stack'[i] = stack[i]
  <2>1. /\ stack' \in Seq(Activations) /\ Len(stack') = n - 1
        /\ \A i \in 1..n - 1 : stack'[i] = stack[i]
    BY <1>4, <1>5, FrontIs
  <2> QED
    BY <2>1, LenProperties
<1>7. \A i \in 1..n : Writes(i) /\ stack[i] \in Activations
  BY <1>5, ElementOfSeq DEF Growing
<1>8. ASSUME NEW i \in 1..n - 1 PROVE Writes(i)'
  <2>1. i \in 1..n /\ stack'[i] = stack[i] /\ stack[i] \in Activations /\ Writes(i)
    BY <1>5, <1>6, <1>7
  <2>2. PICK g : g = stack[i].path
    OBVIOUS
  <2>3. /\ g \in Nodes /\ Len(g) = i - 1 /\ Inner(g)
        /\ stack[i].in = In(g) /\ stack[i].of = Of(g) /\ stack[i].count = Count(g)
        /\ stack[i].start = IF stack[i].in = "fields" THEN place[g] + 1 ELSE 0
        /\ stack[i].next \in 1..stack[i].count + 1
        /\ \A k \in Nat : Kid(g, k) \in DOMAIN place <=> k \in 1..stack[i].next - 1
        /\ \A j \in 1..i : Under(stack[j].path, g)
    BY <2>1, <2>2 DEF Writes
  <2>4. /\ g \in Nodes' /\ Inner(g)' /\ Count(g)' = Count(g) /\ In(g)' = In(g) /\ Of(g)' = Of(g)
        /\ \A k : Kid(g, k)' = Kid(g, k)
    BY <1>3, <2>3
  <2>5. i > 1 => \E h \in Nodes', m \in Int : /\ h = stack'[i - 1].path
                                              /\ m = stack'[i - 1].next - 1
                                              /\ g = Kid(h, m)'
    <3> SUFFICES ASSUME i > 1
                 PROVE  \E h \in Nodes', m \in Int : /\ h = stack'[i - 1].path
                                                     /\ m = stack'[i - 1].next - 1
                                                     /\ g = Kid(h, m)'
      OBVIOUS
    <3>1. i - 1 \in 1..n - 1 /\ i - 1 \in 1..n
      BY <1>5
    <3>2. PICK h : h = stack[i - 1].path
      OBVIOUS
    <3>3. PICK m : m = stack[i - 1].next - 1
      OBVIOUS
    <3>4. h = stack'[i - 1].path /\ m = stack'[i - 1].next - 1
      BY <1>6, <3>1, <3>2, <3>3
    <3>5. g = Kid(h, m)
      BY <2>1, <2>2, <3>2, <3>3 DEF Writes
    <3>6. h \in Nodes /\ m \in Int
      <4>1. Writes(i - 1) /\ stack[i - 1] \in Activations
        BY <1>7, <3>1
      <4> QED
        BY <3>2, <3>3, <4>1 DEF Writes, Activations
    <3>7. Kid(h, m)' = Kid(h, m) /\ h \in Nodes'
      BY <1>3, <3>6
    <3> QED
      BY <3>4, <3>5, <3>6, <3>7
  <2>6. \A j \in 1..i : Under(stack'[j].path, g)
    <3> SUFFICES ASSUME NEW j \in 1..i PROVE Under(stack'[j].path, g)
      OBVIOUS
    <3>1. j \in 1..n - 1
      BY <1>5
    <3> QED
      BY <1>6, <2>3, <3>1
  <2>7. stack'[i].start = IF stack'[i].in = "fields" THEN place'[g] + 1 ELSE 0
    BY <1>2, <2>1, <2>3
  <2>8. /\ stack'[i].path = g /\ stack'[i].in = In(g)' /\ stack'[i].of = Of(g)'
        /\ stack'[i].count = Count(g)' /\ stack'[i].next \in 1..stack'[i].count + 1
        /\ Len(g) = i - 1
    BY <2>1, <2>2, <2>3, <2>4
  <2>9. \A k \in Nat : Kid(g, k)' \in DOMAIN place' <=> k \in 1..stack'[i].next - 1
    BY <1>2, <2>1, <2>3, <2>4
  <2> QED
    BY <2>4, <2>5, <2>6, <2>7, <2>8, <2>9
       DEF Writes, Kid, Inner, In, Of, Count, IsBody, IsList, CellAt, Nodes
<1>9. PICK g : g = stack[n - 1].path
  OBVIOUS
<1>10. PICK m : m = stack[n - 1].next - 1
  OBVIOUS
<1>11. n \in 1..n /\ n - 1 \in 1..n /\ n - 1 \in 1..n - 1
  BY <1>5
<1>12. /\ t = Kid(g, m) /\ g \in Nodes /\ Inner(g)
       /\ stack[n - 1].next \in 1..stack[n - 1].count + 1
       /\ \A k \in Nat : Kid(g, k) \in DOMAIN place <=> k \in 1..m
  <2>1. t = Kid(g, m)
    <3>1. Writes(n)
      BY <1>7, <1>11
    <3> QED
      BY <1>1, <1>5, <1>9, <1>10, <3>1 DEF Writes
  <2>2. Writes(n - 1)
    BY <1>7, <1>11
  <2> QED
    BY <1>9, <1>10, <2>1, <2>2 DEF Writes
<1>13. m \in Nat /\ stack[n - 1].next = m + 1
  <2>1. stack[n - 1].count \in Nat /\ stack[n - 1].next \in Nat
    <3>1. stack[n - 1] \in Activations
      BY <1>7, <1>11
    <3> QED
      BY <3>1 DEF Activations
  <2> QED
    BY <1>10, <1>12, <2>1
<1>14. m # 0
  <2>1. m \in 1..m
    BY <1>2, <1>12, <1>13
  <2> QED
    BY <1>13, <2>1
<1>15. Top' = stack[n - 1]
  BY <1>6, <1>11 DEF Top, Last
<1>16. Top'.path = g /\ Top'.next = m + 1 /\ Top'.next # 1 /\ Top'.next - 1 = m
  BY <1>9, <1>13, <1>14, <1>15
<1>17. Len(wire') + 1 = e[Kid(g, m)']
  BY <1>2, <1>3, <1>12
<1>18. Len(wire') + 1 = e[Kid(Top.path, Top.next - 1)']
  BY <1>16, <1>17 DEF Kid, In, Of, IsList, CellAt
<1>19. pos' = 1
  BY <1>2 DEF Growing
<1> QED
  BY <1>6, <1>8, <1>16, <1>18, <1>19 DEF Growing, Kid, In, Of, IsList, CellAt

----------------------------------------------------------------------------
(* The start and the end of a message.                                     *)

LEMMA StartTree ==
    ASSUME NEW m \in {"request", "reply"}, StartWriting(m)
    PROVE  \E e2 \in [DOMAIN place' -> Nat] : Tree(e2)' /\ Growing(e2)'
<1>1. /\ phase' = "writing" /\ message' = m /\ wire' = <<>> /\ pos' = 1
      /\ place' = Empty /\ DOMAIN place' = {} /\ stack' = <<Arguments(m)>>
  BY DEF StartWriting, Empty
<1>2. PICK e2 : e2 = Empty
  OBVIOUS
<1>3. e2 \in [DOMAIN place' -> Nat] /\ DOMAIN e2 = {}
  BY <1>1, <1>2 DEF Empty
<1>4. /\ DOMAIN stack' = {1} /\ stack'[1] = Arguments(m) /\ Len(stack') = 1
  BY <1>1
<1>5. /\ Arguments(m).in = "args" /\ Arguments(m).of = "none" /\ Arguments(m).path = <<>>
      /\ Arguments(m).count = Len(Fields(m)) /\ Arguments(m).start = 0
      /\ Arguments(m).next = 1
  BY DEF Arguments, Activation
<1>6. Nodes' = {<<>>} /\ Open' = {<<>>}
  BY <1>1, <1>4, <1>5 DEF Nodes, Open
<1>7. Nested(e2)'
  BY <1>1 DEF Nested
<1>8. Tree(e2)'
  BY <1>1, <1>3, <1>6, <1>7 DEF Tree
<1>9. /\ Inner(<<>>)' /\ In(<<>>)' = "args" /\ Of(<<>>)' = "none"
      /\ Count(<<>>)' = Len(Fields(m)) /\ First(<<>>)' = 1
  BY <1>1 DEF Inner, In, Of, Count, First
<1>10. Len(Fields(m)) \in Nat
  BY ConstantTypes, LenProperties
<1>11. Under(<<>>, <<>>) /\ Len(<<>>) = 1 - 1
  BY DEF Under
<1>12. Writes(1)'
  BY <1>1, <1>4, <1>5, <1>6, <1>9, <1>10, <1>11
     DEF Writes, Inner, In, Of, Count, IsBody, IsList, CellAt
<1>13. Top' = Arguments(m)
  BY <1>4 DEF Top, Last
<1>14. Len(wire') + 1 = 1
  BY <1>1
<1>15. Growing(e2)'
  BY <1>1, <1>4, <1>5, <1>9, <1>12, <1>13, <1>14 DEF Growing, First, IsList, CellAt
<1> QED
  BY <1>3, <1>8, <1>15


LEMMA TransactTree ==
    ASSUME TypeInv, NEW e \in [DOMAIN place -> Nat], Tree(e), Growing(e), Transact
    PROVE  e \in [DOMAIN place' -> Nat] /\ Tree(e)' /\ Open' = {}
<1>1. /\ phase = "writing" /\ Len(stack) = 1 /\ ~More /\ phase' # "writing"
      /\ UNCHANGED <<client, server, message, wire, place>>
  BY DEF Transact, Ended
<1>2. /\ Top = stack[1] /\ Top.path \in Open /\ Top.path = <<>>
      /\ \A p \in Open : p = <<>>
  <2>1. /\ Top = stack[Len(stack)] /\ Top.path \in Open
        /\ \A i \in 1..Len(stack) : stack[i].path \in Paths /\ Len(stack[i].path) = i - 1
        /\ \A p \in Open : p \in Paths /\ Len(p) <= Len(Top.path)
    BY <1>1, OpenIs
  <2>2. 1 \in 1..Len(stack)
    BY <1>1
  <2>3. Len(Top.path) = 0 /\ Top.path \in Paths
    BY <1>1, <2>1, <2>2
  <2>4. \A p \in Open : Len(p) = 0
    <3>1. \A p \in Open : Len(p) \in Nat /\ Len(p) <= 0
      BY <2>1, <2>3, PathIs
    <3> QED
      BY <3>1
  <2> QED
    BY <1>1, <2>1, <2>3, <2>4, PathIs
<1>3. Complete(e, <<>>)
  BY <1>1, <1>2, ClosedIsComplete
<1>4. Open' = {} /\ Nodes' = Nodes /\ Writer' = Writer
  BY <1>1 DEF Open, Nodes, Writer
<1>5. \A p : /\ CellAt(p)' = CellAt(p) /\ Declared(p)' = Declared(p) /\ HeadAt(p)' = HeadAt(p)
             /\ (IsBody(p)' <=> IsBody(p)) /\ (IsList(p)' <=> IsList(p))
             /\ (IsUnion(p)' <=> IsUnion(p))
  BY <1>1, <1>4 DEF CellAt, HeadAt, Declared, IsBody, IsList, IsUnion
<1>6. \A p : /\ (Inner(p)' <=> Inner(p)) /\ In(p)' = In(p) /\ Of(p)' = Of(p)
  BY <1>4, <1>5 DEF Inner, In, Of
<1>7. \A p : /\ Count(p)' = Count(p) /\ First(p)' = First(p) /\ End(e, p)' = End(e, p)
             /\ (\A k : Kid(p, k)' = Kid(p, k))
  BY <1>1, <1>4, <1>5, <1>6 DEF Count, First, End, Kid
<1>8. \A p \in DOMAIN place : p \notin Open /\ Extent(e, p) /\ Shaped(e, p) /\ Placed(e, p)
  BY <1>2 DEF Tree, Extent
<1>9. ASSUME NEW p \in DOMAIN place PROVE Extent(e, p)' /\ Shaped(e, p)' /\ Placed(e, p)'
  <2>1. p \notin Open /\ Extent(e, p) /\ Shaped(e, p) /\ Placed(e, p)
    BY <1>8
  <2>2. Extent(e, p)'
    BY <1>1, <1>4, <1>5, <2>1 DEF Extent
  <2>3. Shaped(e, p)'
    BY <1>1, <1>4, <1>5, <2>1, Zenon DEF Shaped
  <2>4. Placed(e, p)'
    BY <1>1, <1>4, <1>5, <1>6, <1>7, <2>1, Zenon DEF Placed
  <2> QED
    BY <2>2, <2>3, <2>4
<1>10. ASSUME NEW p \in Nodes, Inner(p) PROVE Complete(e, p)'
  <2>1. Complete(e, p)
    BY <1>2, <1>3, <1>10 DEF Tree
  <2> QED
    BY <1>1, <1>7, <2>1 DEF Complete
<1>11. Nested(e)' /\ DOMAIN e = DOMAIN place'
  BY <1>1 DEF Nested, Tree
<1> QED
  BY <1>1, <1>4, <1>6, <1>9, <1>10, <1>11 DEF Tree

\* While it is read, the parcel does not change.
LEMMA TreeStays ==
    ASSUME NEW e, Tree(e), UNCHANGED <<client, server, message, wire, place>>,
           UNCHANGED <<phase, stack>> \/ (phase = "reading" /\ phase' = "reading")
    PROVE  Tree(e)'
<1>1. Open' = Open /\ Nodes' = Nodes /\ Writer' = Writer
  BY DEF Open, Nodes, Writer
<1>2. \A p : /\ CellAt(p)' = CellAt(p) /\ Declared(p)' = Declared(p) /\ HeadAt(p)' = HeadAt(p)
             /\ (IsBody(p)' <=> IsBody(p)) /\ (IsList(p)' <=> IsList(p))
             /\ (IsUnion(p)' <=> IsUnion(p))
  BY <1>1 DEF CellAt, HeadAt, Declared, IsBody, IsList, IsUnion
<1>3. \A p : /\ (Inner(p)' <=> Inner(p)) /\ In(p)' = In(p) /\ Of(p)' = Of(p)
  BY <1>1, <1>2 DEF Inner, In, Of
<1>4. \A p : /\ Count(p)' = Count(p) /\ First(p)' = First(p) /\ End(e, p)' = End(e, p)
             /\ (\A k : Kid(p, k)' = Kid(p, k))
  BY <1>1, <1>2, <1>3 DEF Count, First, End, Kid
<1>5. ASSUME NEW p \in DOMAIN place PROVE Extent(e, p)' /\ Shaped(e, p)' /\ Placed(e, p)'
  <2>1. Extent(e, p) /\ Shaped(e, p) /\ Placed(e, p)
    BY DEF Tree
  <2>2. Extent(e, p)'
    BY <1>1, <1>2, <2>1 DEF Extent
  <2>3. Shaped(e, p)'
    BY <1>1, <1>2, <2>1, Zenon DEF Shaped
  <2>4. Placed(e, p)'
    BY <1>1, <1>2, <1>3, <1>4, <2>1, Zenon DEF Placed
  <2> QED
    BY <2>2, <2>3, <2>4
<1>6. ASSUME NEW p \in Nodes \ Open, Inner(p) PROVE Complete(e, p)'
  <2>1. Complete(e, p)
    BY <1>6 DEF Tree
  <2> QED
    BY <1>4, <2>1 DEF Complete
<1>7. Nested(e)' /\ DOMAIN e = DOMAIN place'
  BY DEF Nested, Tree
<1> QED
  BY <1>1, <1>3, <1>5, <1>6, <1>7 DEF Tree

----------------------------------------------------------------------------
(* The reader walks the tree.                                              *)

LEMMA PrefixElements ==
    ASSUME NEW S, NEW s \in Seq(S), NEW t \in Seq(S), IsPrefix(s, t)
    PROVE  Len(s) <= Len(t) /\ \A k \in 1..Len(s) : s[k] = t[k]
<1>1. Len(s) \in Nat /\ Len(t) \in Nat /\ Len(s) <= Len(t)
      /\ SubSeq(s, 1, Len(s)) = SubSeq(t, 1, Len(s))
  BY LenProperties DEF IsPrefix
<1>2. ASSUME NEW k \in 1..Len(s) PROVE s[k] = t[k]
  <2>1. \A i \in 1..Len(s) : s[i] \in S /\ t[i] \in S
    BY <1>1, ElementOfSeq
  <2>2. 1 + k - 1 = k /\ k \in 1..Len(s) - 1 + 1
    BY <1>1
  <2>3. SubSeq(s, 1, Len(s))[k] = s[1 + k - 1] /\ SubSeq(t, 1, Len(s))[k] = t[1 + k - 1]
    BY <1>1, <2>1, <2>2, SubSeqProperties
  <2> QED
    BY <1>1, <2>2, <2>3
<1> QED
  BY <1>1, <1>2

\* What both releases declare, they declare alike.
LEMMA Alike ==
    ASSUME TypeInv, Skewed
    PROVE  /\ Reader \in Releases /\ Writer \in Releases
           /\ Descriptor[client] = Descriptor[server]
           /\ \A u \in Unions : \A tag \in DOMAIN Arms[u][Writer] :
                 tag \in DOMAIN Arms[u][Reader] => Arms[u][Reader][tag] = Arms[u][Writer][tag]
           /\ \A t \in Parcelables :
                /\ Len(Layout[t][Writer]) \in Nat /\ Len(Layout[t][Reader]) \in Nat
                /\ \A k \in 1..Len(Layout[t][Writer]) :
                      k <= Len(Layout[t][Reader]) => Layout[t][Reader][k] = Layout[t][Writer][k]
<1>1. client \in Releases /\ server \in Releases
  BY DEF TypeInv, Scalars
<1>2. Reader \in Releases /\ Writer \in Releases
  BY <1>1 DEF Reader, Writer
<1>3. PICK o \in Releases, n \in Releases :
        /\ Descriptor[o] = Descriptor[n] /\ {o, n} = {client, server}
        /\ \A t \in Parcelables : IsPrefix(Layout[t][o], Layout[t][n])
        /\ \A u \in Unions : IsPrefix(Arms[u][o], Arms[u][n])
  <2>1. CASE Appends(client, server)
    BY <1>1, <2>1 DEF Appends
  <2>2. CASE Appends(server, client)
    BY <1>1, <2>2 DEF Appends
  <2> QED
    BY <2>1, <2>2 DEF Skewed
<1>4. (Writer = o /\ Reader = n) \/ (Writer = n /\ Reader = o)
  BY <1>3 DEF Reader, Writer
<1>5. ASSUME NEW u \in Unions, NEW tag \in DOMAIN Arms[u][Writer],
             tag \in DOMAIN Arms[u][Reader]
      PROVE  Arms[u][Reader][tag] = Arms[u][Writer][tag]
  <2>1. /\ Arms[u][o] \in Seq(Variants) /\ Arms[u][n] \in Seq(Variants)
        /\ DOMAIN Arms[u][o] = 1..Len(Arms[u][o])
    BY ConstantTypes, TagArm
  <2>2. \A k \in 1..Len(Arms[u][o]) : Arms[u][o][k] = Arms[u][n][k]
    BY <1>3, <2>1, PrefixElements
  <2> QED
    BY <1>4, <1>5, <2>1, <2>2
<1>6. ASSUME NEW t \in Parcelables
      PROVE  /\ Len(Layout[t][Writer]) \in Nat /\ Len(Layout[t][Reader]) \in Nat
             /\ \A k \in 1..Len(Layout[t][Writer]) :
                   k <= Len(Layout[t][Reader]) => Layout[t][Reader][k] = Layout[t][Writer][k]
  <2>1. PICK x : x = Layout[t][o]
    OBVIOUS
  <2>2. PICK y : y = Layout[t][n]
    OBVIOUS
  <2>3. x \in Seq(FieldType) /\ y \in Seq(FieldType) /\ Len(x) \in Nat /\ Len(y) \in Nat
    BY <2>1, <2>2, ConstantTypes, LenProperties
  <2>4. \A k \in 1..Len(x) : x[k] = y[k]
    BY <1>3, <2>1, <2>2, <2>3, PrefixElements
  <2>5. CASE Layout[t][Writer] = x /\ Layout[t][Reader] = y
    BY <2>3, <2>4, <2>5
  <2>6. CASE Layout[t][Writer] = y /\ Layout[t][Reader] = x
    BY <2>3, <2>4, <2>6
  <2> QED
    BY <1>4, <2>1, <2>2, <2>5, <2>6
<1>7. Descriptor[client] = Descriptor[server]
  BY <1>3
<1> QED
  BY <1>2, <1>5, <1>6, <1>7

\* The counts of the tree.
LEMMA Counts ==
    ASSUME TypeInv, NEW e, Tree(e), NEW p \in Nodes, Inner(p)
    PROVE  Count(p) \in Nat
<1>1. CASE p = <<>>
  BY <1>1, ConstantTypes, LenProperties DEF Count
<1>2. CASE p # <<>>
  <2>1. /\ p \in DOMAIN place /\ Shaped(e, p) /\ Writer \in Releases
        /\ (IsList(p) => Declared(p).shape = "list")
        /\ (~IsList(p) /\ ~IsUnion(p) => Of(p) \in Parcelables)
    <3>1. /\ p \in DOMAIN place /\ (IsList(p) => Declared(p).shape = "list")
          /\ (~IsList(p) /\ ~IsUnion(p) => Of(p) \in Parcelables)
      BY <1>2, InnerIs
    <3>2. Writer \in Releases
      BY DEF TypeInv, Scalars, Writer
    <3> QED
      BY <3>1, <3>2 DEF Tree
  <2>2. CASE IsList(p)
    <3>1. CellAt(p).val \in Nat
      BY <2>1, <2>2, Zenon DEF Shaped
    <3> QED
      BY <1>2, <2>2, <3>1 DEF Count
  <2>3. CASE ~IsList(p) /\ IsUnion(p)
    BY <1>2, <2>3 DEF Count
  <2>4. CASE ~IsList(p) /\ ~IsUnion(p)
    <3>1. Layout[Of(p)][Writer] \in Seq(FieldType)
      BY <2>1, <2>4, ConstantTypes
    <3> QED
      BY <1>2, <2>4, <3>1, LenProperties DEF Count
  <2> QED
    BY <2>2, <2>3, <2>4
<1> QED
  BY <1>1, <1>2

\* A parcelable that is read has its size in its header, and is done when the
\* position is its end.
LEMMA BodySize ==
    ASSUME TypeInv, phase = "reading", NEW e, Tree(e), NEW p \in Nodes, Inner(p),
           In(p) = "fields"
    PROVE  /\ p \in DOMAIN place /\ p # <<>> /\ place[p] \in Nat \ {0} /\ e[p] \in Nat
           /\ e[p] >= place[p] + 2 /\ e[p] <= Len(wire) + 1 /\ Len(wire) \in Nat
           /\ HeadAt(p).val = e[p] - place[p] - 1
           /\ HeadAt(p).val \in Nat \ {0}
           /\ First(p) = place[p] + 2
<1>1. Open = {} /\ Len(wire) \in Nat
  BY LenProperties DEF Open, TypeInv, Parcel
<1>2. p # <<>>
  BY DEF In
<1>3. p \in DOMAIN place /\ ~IsList(p) /\ IsBody(p) /\ ~IsUnion(p)
  BY <1>2, InnerIs DEF In
<1>4. Extent(e, p) /\ Shaped(e, p)
  BY <1>3 DEF Tree
<1>5. e[p] >= place[p] + 2 /\ HeadAt(p).val = e[p] - place[p] - 1
  BY <1>1, <1>3, <1>4 DEF Shaped
<1>6. place[p] \in Nat \ {0} /\ e[p] \in Nat /\ e[p] <= Len(wire) + 1
  BY <1>1, <1>4 DEF Extent
<1>7. e[p] - place[p] - 1 \in Nat \ {0}
  BY <1>5, <1>6
<1> QED
  BY <1>1, <1>2, <1>3, <1>5, <1>6, <1>7 DEF First

\* The activation that runs reads an inner node.
LEMMA TopReads ==
    ASSUME TypeInv, phase = "reading", NEW e, Tree(e), Walking(e)
    PROVE  /\ Len(stack) \in Nat \ {0} /\ Top = stack[Len(stack)] /\ Reads(Len(stack))
           /\ Top \in Activations /\ stack \in Seq(Activations) /\ stack # <<>>
           /\ Top.path \in Nodes /\ Inner(Top.path) /\ Top.path \in Paths
           /\ Declares(Reader, Top.path) /\ Top.in = In(Top.path) /\ Top.of = Of(Top.path)
           /\ Top.count = IF Top.in = "fields" THEN Len(Layout[Top.of][Reader])
                          ELSE Count(Top.path)
           /\ Top.in = "fields" => /\ Top.start = place[Top.path] + 1
                                   /\ Top.size = HeadAt(Top.path).val
           /\ Top.in # "fields" => Top.size = 0
           /\ Top.next \in Nat \ {0} /\ Top.count \in Nat /\ Count(Top.path) \in Nat
           /\ Top.next <= Top.count + 1 /\ Top.next <= Count(Top.path) + 1
           /\ pos = IF Top.next = 1 THEN First(Top.path) ELSE e[Kid(Top.path, Top.next - 1)]
<1>1. stack \in Seq(Activations) /\ stack # <<>>
  BY DEF TypeInv, Running
<1>2. Len(stack) \in Nat \ {0} /\ Top = stack[Len(stack)] /\ Top \in Activations
  BY <1>1, NextField
<1>3. Reads(Len(stack))
  <2>1. Len(stack) \in DOMAIN stack
    BY <1>1, <1>2, LenProperties
  <2> QED
    BY <2>1 DEF Walking
<1>4. /\ Top.path \in Nodes /\ Inner(Top.path) /\ Declares(Reader, Top.path)
      /\ Top.in = In(Top.path) /\ Top.of = Of(Top.path)
      /\ Top.count = IF Top.in = "fields" THEN Len(Layout[Top.of][Reader])
                     ELSE Count(Top.path)
      /\ Top.in = "fields" => /\ Top.start = place[Top.path] + 1
                              /\ Top.size = HeadAt(Top.path).val
      /\ Top.in # "fields" => Top.size = 0
      /\ Top.next \in 1..Top.count + 1 /\ Top.next <= Count(Top.path) + 1
  BY <1>2, <1>3 DEF Reads
<1>5. Top.next \in Nat /\ Top.count \in Nat /\ Top.path \in Paths
  BY <1>2 DEF Activations
<1>6. Count(Top.path) \in Nat
  BY <1>4, Counts
<1>7. pos = IF Top.next = 1 THEN First(Top.path) ELSE e[Kid(Top.path, Top.next - 1)]
  BY DEF Walking
<1>8. Top.next \in Nat \ {0} /\ Top.next <= Top.count + 1
  BY <1>4, <1>5
<1> QED
  BY <1>1, <1>2, <1>3, <1>4, <1>5, <1>6, <1>7, <1>8

\* When all that was sent below a node is read, the position is its end.
LEMMA AtEnd ==
    ASSUME TypeInv, phase = "reading", NEW e, Tree(e), Walking(e),
           Top.next = Count(Top.path) + 1
    PROVE  pos = End(e, Top.path)
<1>1. /\ Top.path \in Nodes /\ Inner(Top.path) /\ Count(Top.path) \in Nat
      /\ pos = IF Top.next = 1 THEN First(Top.path) ELSE e[Kid(Top.path, Top.next - 1)]
  BY TopReads
<1>2. Open = {}
  BY DEF Open
<1>3. Complete(e, Top.path)
  BY <1>1, <1>2 DEF Tree
<1>4. Top.next - 1 = Count(Top.path) /\ (Top.next = 1 <=> Count(Top.path) = 0)
  BY <1>1
<1> QED
  BY <1>1, <1>3, <1>4 DEF Complete

\* A reader that comes to a field stands where it was written.
LEMMA Standing ==
    ASSUME TypeInv, phase = "reading", NEW e, Tree(e), Walking(e), More, ~Exhausted
    PROVE  /\ At = Kid(Top.path, Top.next) /\ At \in DOMAIN place /\ pos = place[At]
           /\ Top.next \in 1..Count(Top.path) /\ Declares(Reader, At)
           /\ At \in Paths /\ At # <<>> /\ Last(At) = Here
           /\ Front(At) = Top.path
<1> DEFINE f == Top.path
<1>1. /\ Top \in Activations /\ stack # <<>> /\ f \in Nodes /\ Inner(f) /\ f \in Paths
      /\ Declares(Reader, f) /\ Top.in = In(f) /\ Top.of = Of(f)
      /\ Top.count = IF Top.in = "fields" THEN Len(Layout[Top.of][Reader]) ELSE Count(f)
      /\ Top.in = "fields" => Top.start = place[f] + 1 /\ Top.size = HeadAt(f).val
      /\ Top.next \in Nat \ {0} /\ Top.count \in Nat /\ Count(f) \in Nat
      /\ Top.next <= Top.count + 1 /\ Top.next <= Count(f) + 1
      /\ pos = IF Top.next = 1 THEN First(f) ELSE e[Kid(f, Top.next - 1)]
  BY TopReads
<1>2. Top.next <= Top.count
  BY DEF More
<1>3. Top.next # Count(f) + 1
  <2> SUFFICES ASSUME Top.next = Count(f) + 1 PROVE FALSE
    OBVIOUS
  <2>1. Top.in = "fields"
    BY <1>1, <1>2
  <2>2. /\ f # <<>> /\ place[f] \in Nat \ {0} /\ e[f] \in Nat
        /\ HeadAt(f).val = e[f] - place[f] - 1
        /\ HeadAt(f).val \in Nat \ {0}
    BY <1>1, <2>1, BodySize
  <2>3. pos = e[f]
    BY <2>2, AtEnd DEF End
  <2>4. Top.size = e[f] - place[f] - 1 /\ Top.size > 0 /\ pos - Top.start = e[f] - (place[f] + 1)
    BY <1>1, <2>1, <2>2, <2>3
  <2>5. pos - Top.start >= Top.size
    BY <2>2, <2>4
  <2> QED
    BY <2>4, <2>5 DEF Exhausted
<1>4. Top.next \in 1..Count(f)
  BY <1>1, <1>3
<1>5. At = Kid(f, Top.next) /\ Here = Step(In(f), Of(f), Top.next)
  BY <1>1 DEF At, Here, Kid
<1>6. /\ At \in Paths /\ At # <<>> /\ Front(At) = f /\ Last(At) = Here
      /\ Last(At).nr = Top.next /\ Here \in Steps /\ Len(At) = Len(f) + 1
  BY <1>1, <1>5, KidIs
<1>7. At \in DOMAIN place
  <2>1. Open = {}
    BY DEF Open
  <2> QED
    BY <1>1, <1>4, <1>5, <2>1 DEF Tree, Complete
<1>8. Placed(e, At)
  BY <1>7 DEF Tree
<1>9. pos = place[At]
  <2>1. Top.next = 1 => place[At] = First(f)
    BY <1>6, <1>8 DEF Placed
  <2>2. Top.next > 1 => place[At] = e[Kid(f, Top.next - 1)]
    BY <1>6, <1>8 DEF Placed
  <2>3. Top.next = 1 \/ (Top.next # 1 /\ Top.next > 1)
    BY <1>1
  <2> QED
    BY <1>1, <2>1, <2>2, <2>3
<1>10. Declares(Reader, At)
  <2>1. At = Append(f, Here)
    BY DEF At
  <2>2. DOMAIN At = 1..Len(f) + 1 /\ Len(f) \in Nat /\ DOMAIN f = 1..Len(f)
    BY <1>1, <1>6, PathIs
  <2>3. (\A i \in 1..Len(f) : At[i] = f[i]) /\ At[Len(f) + 1] = Here
    BY <1>1, <1>6, <2>1, Longer
  <2>4. Here.in = "fields" => Here.nr <= Len(Layout[Here.of][Reader])
    <3>1. Here.in = Top.in /\ Here.of = Top.of /\ Here.nr = Top.next
      BY <1>1, NextField
    <3> QED
      BY <1>1, <1>2, <3>1
  <2>5. \A i \in 1..Len(f) + 1 : i \in 1..Len(f) \/ i = Len(f) + 1
    BY <2>2
  <2> QED
    BY <1>1, <2>2, <2>3, <2>4, <2>5 DEF Declares
<1> QED
  BY <1>4, <1>5, <1>6, <1>7, <1>9, <1>10

\* It takes the field for what was written.
LEMMA SameField ==
    ASSUME TypeInv, phase = "reading", Skewed,
           NEW e, Tree(e), Walking(e), More, ~Exhausted
    PROVE  Field = Declared(At) /\ Field \in FieldType /\ Shaped(e, At) /\ Extent(e, At)
           /\ At \notin Open
<1>1. /\ At \in DOMAIN place /\ Last(At) = Here /\ Top.next \in 1..Count(Top.path)
      /\ stack # <<>>
  BY Standing, TopReads
<1>2. Shaped(e, At) /\ Extent(e, At)
  BY <1>1 DEF Tree
<1>3. Field \in FieldType /\ Here.in = Top.in /\ Here.of = Top.of /\ Here.nr = Top.next
  BY <1>1, NextField
<1>4. Field = FieldAt(Reader, message, Here) /\ Declared(At) = FieldAt(Writer, message, Here)
  BY <1>1 DEF Field, Declared
<1>5. FieldAt(Reader, message, Here) = FieldAt(Writer, message, Here)
  <2>1. CASE Here.in # "fields"
    BY <2>1 DEF FieldAt
  <2>2. CASE Here.in = "fields"
    <3>1. /\ Top.path \in Nodes /\ Inner(Top.path) /\ In(Top.path) = "fields"
          /\ Top.of = Of(Top.path) /\ Top.count = Len(Layout[Top.of][Reader])
      BY <1>3, <2>2, TopReads
    <3>2. Top.path # <<>> /\ ~IsList(Top.path) /\ ~IsUnion(Top.path)
      BY <3>1 DEF In
    <3>3. Count(Top.path) = Len(Layout[Top.of][Writer])
      BY <3>1, <3>2 DEF Count
    <3>4. Top.of \in Parcelables
      BY <3>1, <3>2, InnerIs
    <3>5. Top.next <= Len(Layout[Top.of][Reader])
      BY <3>1 DEF More
    <3>6. Layout[Top.of][Reader][Top.next] = Layout[Top.of][Writer][Top.next]
      BY <1>1, <3>3, <3>4, <3>5, Alike
    <3> QED
      BY <1>3, <2>2, <3>6 DEF FieldAt
  <2> QED
    BY <2>1, <2>2
<1>6. At \notin Open
  BY DEF Open
<1> QED
  BY <1>2, <1>3, <1>4, <1>5, <1>6

\* What the reader finds there.
LEMMA FieldCells ==
    ASSUME TypeInv, phase = "reading", Skewed,
           NEW e, Tree(e), Walking(e), More, ~Exhausted
    PROVE  /\ wire[pos] = CellAt(At) /\ pos \in 1..Len(wire) /\ Len(wire) \in Nat
           /\ Available(1) /\ e[At] \in Nat
           /\ Field.shape = "word" => e[At] = pos + 1
           /\ Field.shape \in {"part", "maybe"} /\ wire[pos].val # 0 =>
                /\ IsBody(At) /\ ~IsList(At) /\ Available(2)
                /\ wire[pos + 1] = HeadAt(At)
                /\ IsUnion(At) <=> Field.of \in Unions
                /\ Field.of \in Unions =>
                     /\ wire[pos + 1].kind = "tag" /\ pos + 1 \in DOMAIN wire
                     /\ wire[pos + 1].val \in DOMAIN Arms[Field.of][Writer]
                     /\ wire[pos + 1].val \in DOMAIN Arms[Field.of][Reader] =>
                           Of(At) = Arms[Field.of][Reader][wire[pos + 1].val]
                /\ Field.of \in Parcelables =>
                     wire[pos + 1].val \in Nat \ {0} /\ Of(At) = Field.of
           /\ Field.shape = "part" => wire[pos].val # 0
           /\ Field.shape = "maybe" /\ wire[pos].val = 0 => e[At] = pos + 1
           /\ Field.shape = "list" => IsList(At) /\ wire[pos].val \in Nat /\ Of(At) = Field.of
<1>1. PICK a : a = At
  OBVIOUS
<1>2. PICK f : f = Field
  OBVIOUS
<1>3. PICK c : c = CellAt(a)
  OBVIOUS
<1>4. a \in DOMAIN place /\ pos = place[a] /\ a # <<>> /\ a \in Paths
  BY <1>1, Standing
<1>5. f = Declared(a) /\ f \in FieldType /\ Shaped(e, a) /\ Extent(e, a) /\ a \notin Open
  BY <1>1, <1>2, SameField
<1>6. /\ place[a] \in 1..Len(wire) /\ e[a] \in Nat /\ e[a] <= Len(wire) + 1
  BY <1>5 DEF Extent
<1>7. Len(wire) \in Nat /\ wire[pos] = c /\ pos \in 1..Len(wire) /\ DOMAIN wire = 1..Len(wire)
  BY <1>3, <1>4, <1>6, LenProperties DEF CellAt, TypeInv, Parcel
<1>8. Available(1)
  BY <1>7 DEF Available
<1>9. /\ f.shape = "word"  => c.kind = "word"
      /\ f.shape = "part"  => c.kind = "flag" /\ c.val = 1
      /\ f.shape = "maybe" => c.kind = "flag" /\ c.val \in {0, 1}
      /\ f.shape = "list"  => c.kind = "count" /\ c.val \in Nat
  <2>1. CASE f.shape = "word"
    BY <1>3, <1>4, <1>5, <2>1, Zenon DEF Shaped
  <2>3. CASE f.shape = "part"
    BY <1>3, <1>4, <1>5, <2>3, Zenon DEF Shaped
  <2>4. CASE f.shape = "maybe"
    BY <1>3, <1>4, <1>5, <2>4, Zenon DEF Shaped
  <2>5. CASE f.shape = "list"
    BY <1>3, <1>4, <1>5, <2>5, Zenon DEF Shaped
  <2> QED
    BY <1>5, <2>1, <2>3, <2>4, <2>5, FieldTypes
<1>10. /\ c.kind = "word" => e[a] = place[a] + 1
       /\ c.kind = "flag" /\ c.val = 0 => e[a] = place[a] + 1
  BY <1>3, <1>5 DEF Shaped
<1>11. a \in Nodes
  BY <1>4 DEF Nodes
<1>12. ASSUME f.shape \in {"part", "maybe"}, c.val # 0
       PROVE  /\ IsBody(a) /\ ~IsList(a) /\ Available(2)
              /\ wire[pos + 1] = HeadAt(a) /\ Inner(a)
              /\ IsUnion(a) <=> f.of \in Unions
  <2>1. IsBody(a) /\ ~IsList(a)
    BY <1>3, <1>9, <1>12 DEF IsBody, IsList
  <2>2. Inner(a)
    BY <2>1 DEF Inner
  <2>3. IsUnion(a) <=> f.of \in Unions
    BY <1>5, <2>1 DEF IsUnion
  <2>4. e[a] >= place[a] + 2
    BY <1>5, <2>1 DEF Shaped
  <2>5. Available(2)
    BY <1>4, <1>6, <1>7, <2>4 DEF Available
  <2>6. wire[pos + 1] = HeadAt(a)
    BY <1>4 DEF HeadAt
  <2> QED
    BY <2>1, <2>2, <2>3, <2>5, <2>6
<1>13. ASSUME f.shape \in {"part", "maybe"}, c.val # 0, f.of \in Unions
       PROVE  /\ wire[pos + 1].kind = "tag" /\ pos + 1 \in DOMAIN wire
              /\ wire[pos + 1].val \in DOMAIN Arms[f.of][Writer]
              /\ wire[pos + 1].val \in DOMAIN Arms[f.of][Reader] =>
                    Of(a) = Arms[f.of][Reader][wire[pos + 1].val]
  <2>1. IsUnion(a) /\ Available(2) /\ wire[pos + 1] = HeadAt(a)
    BY <1>12, <1>13
  <2>2. HeadAt(a).kind = "tag" /\ HeadAt(a).val \in DOMAIN Arms[f.of][Writer]
    BY <1>5, <2>1 DEF Shaped
  <2>3. Of(a) = Arms[f.of][Writer][HeadAt(a).val]
    BY <1>4, <1>5, <2>1 DEF Of
  <2>4. pos + 1 \in DOMAIN wire
    BY <1>7, <2>1 DEF Available
  <2> QED
    BY <1>13, <2>1, <2>2, <2>3, <2>4, Alike
<1>14. ASSUME f.shape \in {"part", "maybe"}, c.val # 0, f.of \in Parcelables
       PROVE  wire[pos + 1].val \in Nat \ {0} /\ Of(a) = f.of
  <2>1. Inner(a) /\ ~IsList(a) /\ ~IsUnion(a) /\ wire[pos + 1] = HeadAt(a)
    BY <1>12, <1>14, ConstantTypes
  <2>2. In(a) = "fields" /\ Of(a) = f.of
    BY <1>4, <1>5, <2>1 DEF In, Of
  <2>3. HeadAt(a).val \in Nat \ {0}
    BY <1>11, <2>1, <2>2, BodySize
  <2> QED
    BY <2>1, <2>2, <2>3
<1>15. f.shape = "list" => IsList(a) /\ Of(a) = f.of
  <2> SUFFICES ASSUME f.shape = "list" PROVE IsList(a) /\ Of(a) = f.of
    OBVIOUS
  <2>1. IsList(a) /\ ~IsUnion(a)
    BY <1>3, <1>9 DEF IsList, IsUnion, IsBody
  <2> QED
    BY <1>4, <1>5, <2>1 DEF Of
<1>16. f.shape = "word" => e[a] = pos + 1
  BY <1>4, <1>9, <1>10
<1>17. f.shape = "maybe" /\ c.val = 0 => e[a] = pos + 1
  BY <1>4, <1>9, <1>10
<1>18. /\ f.shape = "part" => c.val # 0
       /\ f.shape = "list" => c.val \in Nat
  BY <1>9
<1> QED
  BY <1>1, <1>2, <1>3, <1>6, <1>7, <1>8, <1>12, <1>13, <1>14, <1>15, <1>16, <1>17, <1>18

\* Nothing stops it but an arm it does not know.
LEMMA NoObstacle ==
    ASSUME TypeInv, phase = "reading", Skewed,
           NEW e, Tree(e), Walking(e), More, ~Exhausted
    PROVE  Obstacle = "none" \/ (Obstacle = "BAD_VALUE" /\ UnknownArm)
<1> DEFINE here == Field.shape \in {"part", "maybe"} /\ wire[pos].val # 0
<1>1. /\ Available(1)
      /\ ~(Field.shape = "part" /\ wire[pos].val = 0)
      /\ ~(here /\ ~Available(2))
  BY FieldCells
<1>2. ~(here /\ Field.of \in Parcelables /\ wire[pos + 1].val < 1)
  <2> SUFFICES ASSUME here, Field.of \in Parcelables
               PROVE  ~(wire[pos + 1].val < 1)
    OBVIOUS
  <2>1. wire[pos + 1].val \in Nat \ {0}
    BY FieldCells
  <2> QED
    BY <2>1
<1>3. CASE here /\ Field.of \in Unions
           /\ wire[pos + 1].val \notin DOMAIN Arms[Field.of][Reader]
  <2>1. /\ wire[pos + 1].kind = "tag" /\ pos + 1 \in DOMAIN wire
        /\ wire[pos + 1].val \in DOMAIN Arms[Field.of][Writer]
    BY <1>3, FieldCells
  <2>2. UnknownArm
    BY <1>3, <2>1 DEF UnknownArm
  <2>3. Obstacle = "BAD_VALUE"
    BY <1>1, <1>2, <1>3, Zenon DEF Obstacle
  <2> QED
    BY <2>2, <2>3
<1>4. CASE ~(here /\ Field.of \in Unions
             /\ wire[pos + 1].val \notin DOMAIN Arms[Field.of][Reader])
  BY <1>1, <1>2, <1>4, Zenon DEF Obstacle
<1> QED
  BY <1>3, <1>4

LEMMA NothingLeft ==
    ASSUME TypeInv, phase = "reading", NEW e, Tree(e), Walking(e), Len(stack) = 1, ~More
    PROVE  pos = Len(wire) + 1 /\ ~(pos <= Len(wire)) /\ Top.path = <<>>
           /\ Top.next = Count(<<>>) + 1
<1>1. /\ Top = stack[1] /\ Reads(1) /\ Top.in = In(Top.path)
      /\ Top.count = IF Top.in = "fields" THEN Len(Layout[Top.of][Reader])
                     ELSE Count(Top.path)
      /\ Top.next \in Nat \ {0} /\ Top.count \in Nat /\ Count(Top.path) \in Nat
      /\ Top.next <= Count(Top.path) + 1
  BY TopReads
<1>2. Top.path = <<>>
  BY <1>1 DEF Reads
<1>3. Top.in = "args"
  BY <1>1, <1>2 DEF In
<1>4. Top.next = Count(Top.path) + 1
  BY <1>1, <1>3 DEF More
<1>5. pos = Len(wire) + 1
  BY <1>2, <1>4, AtEnd DEF End
<1>6. Len(wire) \in Nat
  BY LenProperties DEF TypeInv, Parcel
<1> QED
  BY <1>2, <1>4, <1>5, <1>6

LEMMA NodesStay ==
    ASSUME UNCHANGED <<client, server, message, wire, place>>
    PROVE  /\ Nodes' = Nodes /\ Writer' = Writer /\ Reader' = Reader
           /\ \A p : /\ CellAt(p)' = CellAt(p) /\ (Inner(p)' <=> Inner(p)) /\ In(p)' = In(p)
                     /\ Of(p)' = Of(p) /\ Count(p)' = Count(p) /\ First(p)' = First(p)
                     /\ (IsBody(p)' <=> IsBody(p)) /\ (IsList(p)' <=> IsList(p))
                     /\ (IsUnion(p)' <=> IsUnion(p)) /\ HeadAt(p)' = HeadAt(p)
                     /\ (\A k : Kid(p, k)' = Kid(p, k))
<1>1. Nodes' = Nodes /\ Writer' = Writer /\ Reader' = Reader
  BY DEF Nodes, Writer, Reader
<1>2. \A p : /\ CellAt(p)' = CellAt(p) /\ Declared(p)' = Declared(p) /\ HeadAt(p)' = HeadAt(p)
             /\ (IsBody(p)' <=> IsBody(p)) /\ (IsList(p)' <=> IsList(p))
             /\ (IsUnion(p)' <=> IsUnion(p))
  BY <1>1 DEF CellAt, HeadAt, Declared, IsBody, IsList, IsUnion
<1>3. \A p : /\ (Inner(p)' <=> Inner(p)) /\ In(p)' = In(p) /\ Of(p)' = Of(p)
  BY <1>1, <1>2 DEF Inner, In, Of
<1>4. \A p : /\ Count(p)' = Count(p) /\ First(p)' = First(p)
             /\ (\A k : Kid(p, k)' = Kid(p, k))
  BY <1>1, <1>2, <1>3 DEF Count, First, Kid
<1> QED
  BY <1>1, <1>2, <1>3, <1>4

\* An activation goes on reading what it reads.
LEMMA ReadsStays ==
    ASSUME UNCHANGED <<client, server, message, wire, place>>,
           NEW i, Reads(i), stack'[i] \in Activations,
           stack'[i].path = stack[i].path, stack'[i].in = stack[i].in,
           stack'[i].of = stack[i].of, stack'[i].count = stack[i].count,
           stack'[i].start = stack[i].start, stack'[i].size = stack[i].size,
           stack'[i].next \in 1..stack[i].count + 1,
           stack'[i].next <= Count(stack[i].path) + 1,
           i # 1 => stack[i - 1] \in Activations /\ stack'[i - 1] = stack[i - 1]
    PROVE  Reads(i)'
<1>1. PICK g : g = stack[i].path
  OBVIOUS
<1>2. /\ g \in Nodes /\ Inner(g) /\ Declares(Reader, g)
      /\ stack[i].in = In(g) /\ stack[i].of = Of(g)
      /\ stack[i].count = IF stack[i].in = "fields" THEN Len(Layout[stack[i].of][Reader])
                          ELSE Count(g)
      /\ stack[i].in = "fields" => /\ stack[i].start = place[g] + 1
                                   /\ stack[i].size = HeadAt(g).val
      /\ stack[i].in # "fields" => stack[i].size = 0
      /\ i = 1 => g = <<>>
      /\ i # 1 => stack[i - 1].next > 1 /\ g = Kid(stack[i - 1].path, stack[i - 1].next - 1)
  BY <1>1 DEF Reads
<1>3. /\ Nodes' = Nodes /\ Reader' = Reader
      /\ (Inner(g)' <=> Inner(g)) /\ In(g)' = In(g) /\ Of(g)' = Of(g) /\ Count(g)' = Count(g)
      /\ HeadAt(g)' = HeadAt(g)
  BY NodesStay
<1>4. /\ stack'[i].path = g /\ g \in Nodes' /\ Inner(g)' /\ Declares(Reader', g)
      /\ stack'[i].in = In(g)' /\ stack'[i].of = Of(g)'
      /\ stack'[i].count = IF stack'[i].in = "fields" THEN Len(Layout[stack'[i].of][Reader'])
                           ELSE Count(g)'
      /\ stack'[i].in = "fields" => /\ stack'[i].start = place'[g] + 1
                                    /\ stack'[i].size = HeadAt(g)'.val
      /\ stack'[i].in # "fields" => stack'[i].size = 0
      /\ stack'[i].next \in 1..stack'[i].count + 1 /\ stack'[i].next <= Count(g)' + 1
  BY <1>1, <1>2, <1>3
<1>5. i # 1 => \E h, m : /\ h = stack'[i - 1].path /\ m = stack'[i - 1].next - 1
                         /\ g = Kid(h, m)' /\ stack'[i - 1].next > 1
  <2> SUFFICES ASSUME i # 1
               PROVE  \E h, m : /\ h = stack'[i - 1].path /\ m = stack'[i - 1].next - 1
                                /\ g = Kid(h, m)' /\ stack'[i - 1].next > 1
    OBVIOUS
  <2>1. PICK h : h = stack[i - 1].path
    OBVIOUS
  <2>2. PICK m : m = stack[i - 1].next - 1
    OBVIOUS
  <2>3. g = Kid(h, m) /\ stack[i - 1].next > 1
    BY <1>2, <2>1, <2>2
  <2>4. Kid(h, m)' = Kid(h, m)
    BY NodesStay
  <2> QED
    BY <2>1, <2>2, <2>3, <2>4
<1> QED
  BY <1>2, <1>4, <1>5 DEF Reads, HeadAt, Kid, Inner, In, Of, Count, IsBody, IsList, CellAt, Nodes

\* A field is read: the running activation is a field further.
LEMMA ReadsOn ==
    ASSUME TypeInv, phase = "reading", NEW e, Tree(e), Walking(e), More, ~Exhausted,
           UNCHANGED <<client, server, message, wire, place>>,
           \A j \in 1..Len(stack) : stack'[j] = Stepped[j]
    PROVE  \A i \in 1..Len(stack) : Reads(i)'
<1>1. PICK n : n = Len(stack)
  OBVIOUS
<1>2. /\ stack \in Seq(Activations) /\ stack # <<>> /\ n \in Nat \ {0} /\ Top = stack[n]
      /\ Top \in Activations /\ DOMAIN stack = 1..n /\ n \in 1..n
      /\ Top.next \in Nat \ {0} /\ Top.count \in Nat
  <2>1. /\ stack \in Seq(Activations) /\ stack # <<>> /\ Len(stack) \in Nat \ {0}
        /\ Top = stack[Len(stack)] /\ Top \in Activations
        /\ Top.next \in Nat \ {0} /\ Top.count \in Nat
    BY TopReads
  <2> QED
    BY <1>1, <2>1, LenProperties
<1>3. /\ \A i \in 1..n - 1 : stack'[i] = stack[i]
      /\ stack'[n] = [Top EXCEPT !.next = @ + 1] /\ stack'[n] \in Activations
  <2>1. /\ \A i \in 1..n - 1 : Stepped[i] = stack[i]
        /\ Stepped[n] = [Top EXCEPT !.next = @ + 1]
        /\ Stepped \in Seq(Activations) /\ Len(Stepped) = n
    BY <1>1, <1>2, SteppedIs
  <2>2. Stepped[n] \in Activations
    BY <1>2, <2>1, ElementOfSeq
  <2>3. \A i \in 1..n - 1 : i \in 1..n
    BY <1>2
  <2> QED
    BY <1>1, <1>2, <2>1, <2>2, <2>3
<1>4. \A i \in 1..n : Reads(i) /\ stack[i] \in Activations
  BY <1>1, <1>2, ElementOfSeq DEF Walking
<1>5. ASSUME NEW i \in 1..n - 1 PROVE Reads(i)'
  <2>1. i \in 1..n /\ stack'[i] = stack[i] /\ Reads(i) /\ stack[i] \in Activations
    BY <1>2, <1>3, <1>4
  <2>2. i # 1 => i - 1 \in 1..n - 1 /\ i - 1 \in 1..n
    BY <1>2
  <2>3. i # 1 => stack[i - 1] \in Activations /\ stack'[i - 1] = stack[i - 1]
    BY <1>3, <1>4, <2>2
  <2>4. stack[i].next \in 1..stack[i].count + 1 /\ stack[i].next <= Count(stack[i].path) + 1
    BY <2>1 DEF Reads
  <2> QED
    BY <2>1, <2>3, <2>4, ReadsStays
<1>6. Reads(n)'
  <2>1. /\ stack'[n].path = stack[n].path /\ stack'[n].in = stack[n].in
        /\ stack'[n].of = stack[n].of /\ stack'[n].count = stack[n].count
        /\ stack'[n].start = stack[n].start /\ stack'[n].size = stack[n].size
        /\ stack'[n].next = Top.next + 1
    BY <1>2, <1>3 DEF Activations
  <2>2. Top.next <= Count(Top.path) /\ Count(Top.path) \in Nat /\ Top.next <= Top.count
    <3>1. Top.next \in 1..Count(Top.path) /\ Count(Top.path) \in Nat
      BY Standing, TopReads
    <3> QED
      BY <3>1 DEF More
  <2>3. stack'[n].next \in 1..stack[n].count + 1 /\ stack'[n].next <= Count(stack[n].path) + 1
    BY <1>2, <2>1, <2>2
  <2>4. n # 1 => stack[n - 1] \in Activations /\ stack'[n - 1] = stack[n - 1]
    <3>1. n # 1 => n - 1 \in 1..n - 1 /\ n - 1 \in 1..n
      BY <1>2
    <3> QED
      BY <1>3, <1>4, <3>1
  <2> QED
    BY <1>3, <1>4, <1>2, <2>1, <2>3, <2>4, ReadsStays
<1>7. \A i \in 1..n : i \in 1..n - 1 \/ i = n
  BY <1>2
<1> QED
  BY <1>1, <1>5, <1>6, <1>7

LEMMA WalkOn ==
    ASSUME TypeInv, phase = "reading", NEW e, Tree(e), Walking(e), More, ~Exhausted,
           UNCHANGED <<client, server, message, wire, place>>,
           stack' = Stepped, pos' = e[At]
    PROVE  Walking(e)'
<1>1. PICK n : n = Len(stack)
  OBVIOUS
<1>2. /\ stack \in Seq(Activations) /\ stack # <<>> /\ n \in Nat \ {0} /\ Top = stack[n]
      /\ Top \in Activations /\ Top.next \in Nat \ {0}
  BY <1>1, TopReads
<1>3. /\ stack' \in Seq(Activations) /\ Len(stack') = n /\ DOMAIN stack' = 1..n
      /\ stack'[n] = [Top EXCEPT !.next = @ + 1]
  BY <1>1, <1>2, SteppedIs, LenProperties
<1>4. \A i \in DOMAIN stack' : Reads(i)'
  <2>1. \A i \in 1..Len(stack) : Reads(i)'
    BY ReadsOn
  <2> QED
    BY <1>1, <1>3, <2>1
<1>5. PICK g : g = Top.path
  OBVIOUS
<1>6. PICK m : m = Top.next
  OBVIOUS
<1>7. Top'.path = g /\ Top'.next = m + 1 /\ Top'.next # 1 /\ Top'.next - 1 = m
  <2>1. Top' = [Top EXCEPT !.next = @ + 1]
    BY <1>3 DEF Top, Last
  <2>2. Top'.path = g /\ Top'.next = m + 1
    BY <1>2, <1>5, <1>6, <2>1 DEF Activations
  <2>3. m \in Nat \ {0}
    BY <1>2, <1>6
  <2> QED
    BY <2>2, <2>3
<1>8. pos' = e[Kid(g, m)']
  <2>1. At = Kid(g, m)
    BY <1>5, <1>6, Standing
  <2>2. Kid(g, m)' = Kid(g, m)
    BY NodesStay
  <2> QED
    BY <2>1, <2>2
<1>9. pos' = e[Kid(Top.path, Top.next - 1)']
  BY <1>7, <1>8 DEF Kid, In, Of, IsList, IsUnion, IsBody, HeadAt, Declared, Writer, CellAt
<1> QED
  BY <1>4, <1>7, <1>9 DEF Walking, Kid, In, Of, IsList, IsUnion, IsBody, HeadAt, Declared, Writer, CellAt

\* A body or a vector is read: its activation starts.
LEMMA WalkInto ==
    ASSUME TypeInv, phase = "reading", NEW e, Tree(e), Walking(e), More, ~Exhausted,
           UNCHANGED <<client, server, message, wire, place>>,
           NEW b \in Activations, stack' = Append(Stepped, b),
           NEW a, a = At, b.path = a, b.next = 1, Inner(a), b.in = In(a), b.of = Of(a),
           b.count = IF b.in = "fields" THEN Len(Layout[b.of][Reader]) ELSE Count(a),
           b.in = "fields" => b.start = place[a] + 1 /\ b.size = HeadAt(a).val,
           b.in # "fields" => b.size = 0,
           pos' = First(a)
    PROVE  Walking(e)'
<1>1. PICK n : n = Len(stack)
  OBVIOUS
<1>2. /\ stack \in Seq(Activations) /\ stack # <<>> /\ n \in Nat \ {0} /\ Top = stack[n]
      /\ Top \in Activations /\ Top.next \in Nat \ {0}
  BY <1>1, TopReads
<1>3. /\ Stepped \in Seq(Activations) /\ Len(Stepped) = n
      /\ Stepped[n] = [Top EXCEPT !.next = @ + 1]
  BY <1>1, <1>2, SteppedIs
<1>4. /\ stack' \in Seq(Activations) /\ Len(stack') = n + 1 /\ DOMAIN stack' = 1..n + 1
      /\ \A j \in 1..n : stack'[j] = Stepped[j]
      /\ stack'[n + 1] = b
  <2>1. /\ stack' \in Seq(Activations) /\ Len(stack') = n + 1
        /\ \A j \in 1..n : stack'[j] = Stepped[j]
        /\ stack'[n + 1] = b
    BY <1>2, <1>3, AppendProperties
  <2> QED
    BY <2>1, LenProperties
<1>5. \A i \in 1..n : Reads(i)'
  <2>1. \A j \in 1..Len(stack) : stack'[j] = Stepped[j]
    BY <1>1, <1>4
  <2>2. \A i \in 1..Len(stack) : Reads(i)'
    BY <2>1, ReadsOn
  <2> QED
    BY <1>1, <2>2
<1>6. /\ a = Kid(Top.path, Top.next) /\ a \in DOMAIN place /\ Declares(Reader, a)
      /\ a \in Nodes /\ Count(a) \in Nat
  <2>1. a = Kid(Top.path, Top.next) /\ a \in DOMAIN place /\ Declares(Reader, a)
    BY Standing
  <2>2. a \in Nodes
    BY <2>1 DEF Nodes
  <2> QED
    BY <2>1, <2>2, Counts
<1>7. /\ Nodes' = Nodes /\ Reader' = Reader
      /\ (Inner(a)' <=> Inner(a)) /\ In(a)' = In(a) /\ Of(a)' = Of(a) /\ Count(a)' = Count(a)
      /\ First(a)' = First(a) /\ HeadAt(a)' = HeadAt(a)
  BY NodesStay
<1>8. PICK i : i = n + 1 /\ i - 1 = n /\ i # 1
  BY <1>2
<1>9. /\ stack'[i] = b /\ stack'[i - 1] = [Top EXCEPT !.next = @ + 1]
  <2>1. n \in 1..n
    BY <1>2
  <2> QED
    BY <1>3, <1>4, <1>8, <2>1
<1>10. Reads(i)'
  <2>1. \E h, m : /\ h = stack'[i - 1].path /\ m = stack'[i - 1].next - 1
                  /\ a = Kid(h, m)' /\ stack'[i - 1].next > 1
    <3>1. PICK h : h = Top.path
      OBVIOUS
    <3>2. PICK m : m = Top.next
      OBVIOUS
    <3>3. stack'[i - 1].path = h /\ stack'[i - 1].next = m + 1 /\ m \in Nat \ {0}
      BY <1>2, <1>9, <3>1, <3>2 DEF Activations
    <3>4. m = stack'[i - 1].next - 1 /\ stack'[i - 1].next > 1
      BY <3>3
    <3>5. a = Kid(h, m)'
      BY <1>6, <3>1, <3>2, NodesStay
    <3> QED
      BY <3>3, <3>4, <3>5
  <2>2. /\ stack'[i].path = a /\ a \in Nodes' /\ Inner(a)' /\ Declares(Reader', a)
        /\ stack'[i].in = In(a)' /\ stack'[i].of = Of(a)'
        /\ stack'[i].count = IF stack'[i].in = "fields" THEN Len(Layout[stack'[i].of][Reader'])
                             ELSE Count(a)'
        /\ stack'[i].in = "fields" => /\ stack'[i].start = place'[a] + 1
                                      /\ stack'[i].size = HeadAt(a)'.val
        /\ stack'[i].in # "fields" => stack'[i].size = 0
    BY <1>6, <1>7, <1>9
  <2>3. stack'[i].next \in 1..stack'[i].count + 1 /\ stack'[i].next <= Count(a)' + 1
    <3>1. b.count \in Nat
      BY DEF Activations
    <3> QED
      BY <1>6, <1>7, <1>9, <3>1
  <2> QED
    BY <1>8, <2>1, <2>2, <2>3
       DEF Reads, HeadAt, Kid, Inner, In, Of, Count, IsBody, IsList, CellAt, Nodes
<1>11. \A j \in DOMAIN stack' : Reads(j)'
  <2>1. \A j \in 1..n + 1 : j \in 1..n \/ j = n + 1
    BY <1>2
  <2> QED
    BY <1>4, <1>5, <1>8, <1>10, <2>1
<1>12. Top' = b
  BY <1>4 DEF Top, Last
<1>13. pos' = First(Top.path)' /\ Top'.next = 1
  <2>1. pos' = First(a)' /\ Top'.path = a
    BY <1>7, <1>12
  <2> QED
    BY <1>12, <2>1 DEF First, IsList, CellAt
<1> QED
  BY <1>11, <1>13 DEF Walking, First, IsList, CellAt

\* The end of one is read: back to where it was found.
LEMMA WalkBack ==
    ASSUME TypeInv, phase = "reading", NEW e, Tree(e), Walking(e), Len(stack) > 1,
           UNCHANGED <<client, server, message, wire, place>>,
           stack' = Front(stack), pos' = e[Top.path]
    PROVE  Walking(e)'
<1>1. PICK n : n = Len(stack)
  OBVIOUS
<1>2. /\ stack \in Seq(Activations) /\ stack # <<>> /\ n \in Nat /\ n > 1 /\ Top = stack[n]
      /\ DOMAIN stack = 1..n
  <2>1. /\ stack \in Seq(Activations) /\ stack # <<>> /\ Len(stack) \in Nat
        /\ Top = stack[Len(stack)]
    BY TopReads
  <2> QED
    BY <1>1, <2>1, LenProperties
<1>3. /\ stack' \in Seq(Activations) /\ Len(stack') = n - 1 /\ DOMAIN stack' = 1..n - 1
      /\ \A i \in 1..n - 1 : stack'[i] = stack[i]
  <2>1. /\ stack' \in Seq(Activations) /\ Len(stack') = n - 1
        /\ \A i \in 1..n - 1 : stack'[i] = stack[i]
    BY <1>1, <1>2, FrontIs
  <2> QED
    BY <2>1, LenProperties
<1>4. \A i \in 1..n : Reads(i) /\ stack[i] \in Activations
  BY <1>2, ElementOfSeq DEF Walking
<1>5. ASSUME NEW i \in 1..n - 1 PROVE Reads(i)'
  <2>1. i \in 1..n /\ stack'[i] = stack[i] /\ Reads(i) /\ stack[i] \in Activations
    BY <1>2, <1>3, <1>4
  <2>2. i # 1 => i - 1 \in 1..n - 1 /\ i - 1 \in 1..n
    BY <1>2
  <2>3. i # 1 => stack[i - 1] \in Activations /\ stack'[i - 1] = stack[i - 1]
    BY <1>3, <1>4, <2>2
  <2>4. stack[i].next \in 1..stack[i].count + 1 /\ stack[i].next <= Count(stack[i].path) + 1
    BY <2>1 DEF Reads
  <2> QED
    BY <2>1, <2>3, <2>4, ReadsStays
<1>6. n \in 1..n /\ n # 1 /\ n - 1 \in 1..n - 1 /\ n - 1 \in 1..n
  BY <1>2
<1>7. PICK g : g = stack[n - 1].path
  OBVIOUS
<1>8. PICK m : m = stack[n - 1].next - 1
  OBVIOUS
<1>9. stack[n - 1].next > 1 /\ Top.path = Kid(g, m)
  <2>1. Reads(n)
    BY <1>4, <1>6
  <2> QED
    BY <1>2, <1>6, <1>7, <1>8, <2>1 DEF Reads
<1>10. stack[n - 1].next \in Nat
  <2>1. stack[n - 1] \in Activations
    BY <1>4, <1>6
  <2> QED
    BY <2>1 DEF Activations
<1>11. Top' = stack[n - 1]
  BY <1>3, <1>6 DEF Top, Last
<1>12. Top'.path = g /\ Top'.next - 1 = m /\ Top'.next # 1
  BY <1>7, <1>8, <1>9, <1>10, <1>11
<1>13. pos' = e[Kid(g, m)']
  BY <1>9, NodesStay
<1>14. pos' = e[Kid(Top.path, Top.next - 1)']
  BY <1>12, <1>13 DEF Kid, In, Of, IsList, IsUnion, IsBody, HeadAt, Declared, Writer, CellAt
<1> QED
  BY <1>3, <1>5, <1>12, <1>14 DEF Walking, Kid, In, Of, IsList, IsUnion, IsBody, HeadAt, Declared, Writer, CellAt

LEMMA BelowRoot ==
    ASSUME TypeInv, phase = "reading", NEW e, Tree(e), Walking(e), Len(stack) > 1
    PROVE  Top.path # <<>> /\ Top.path \in DOMAIN place
<1>1. Reads(Len(stack)) /\ Top = stack[Len(stack)] /\ Len(stack) # 1 /\ Top.path \in Nodes
  BY TopReads
<1>2. /\ Top.path = Kid(stack[Len(stack) - 1].path, stack[Len(stack) - 1].next - 1)
      /\ stack[Len(stack) - 1].next > 1
  BY <1>1 DEF Reads
<1>3. Len(stack) - 1 \in DOMAIN stack /\ stack \in Seq(Activations)
  BY TopReads, LenProperties
<1>4. /\ stack[Len(stack) - 1].path \in Nodes /\ Inner(stack[Len(stack) - 1].path)
      /\ stack[Len(stack) - 1] \in Activations
  BY <1>3, ElementOfSeq DEF Walking, Reads
<1>5. stack[Len(stack) - 1].next - 1 \in Nat
  BY <1>2, <1>4 DEF Activations
<1>6. Top.path # <<>>
  BY <1>2, <1>4, <1>5, KidIs
<1> QED
  BY <1>1, <1>6 DEF Nodes

\* A reader that leaves a parcelable or a vector goes to where it ends.
LEMMA LeavesAt ==
    ASSUME TypeInv, phase = "reading", NEW e, Tree(e), Walking(e), SkipAbsent \/ EndRead
    PROVE  /\ Len(stack) > 1 /\ stack' = Front(stack) /\ pos' = e[Top.path]
           /\ UNCHANGED <<client, server, phase, message, wire, place, got>>
           /\ SkipAbsent => Top.in = "fields" /\ pos >= e[Top.path]
           /\ EndRead /\ Top.in # "fields" => pos = e[Top.path]
<1>1. /\ stack' = Front(stack)
      /\ pos' = (IF Top.size = 0 THEN pos ELSE Top.start + Top.size)
      /\ UNCHANGED <<client, server, phase, message, wire, place, got>>
  BY DEF SkipAbsent, EndRead, Leave
<1>2. ASSUME Top.in = "fields"
      PROVE  /\ Top.size \in Nat \ {0} /\ Top.start \in Nat /\ e[Top.path] \in Nat
             /\ Top.start + Top.size = e[Top.path]
  <2>1. /\ Top.path \in Nodes /\ Inner(Top.path) /\ In(Top.path) = "fields"
        /\ Top.start = place[Top.path] + 1 /\ Top.size = HeadAt(Top.path).val
    BY <1>2, TopReads
  <2>2. /\ place[Top.path] \in Nat \ {0} /\ e[Top.path] \in Nat
        /\ HeadAt(Top.path).val = e[Top.path] - place[Top.path] - 1
        /\ HeadAt(Top.path).val \in Nat \ {0}
    BY <2>1, BodySize
  <2> QED
    BY <2>1, <2>2
<1>3. CASE SkipAbsent
  <2>1. Exhausted
    BY <1>3 DEF SkipAbsent
  <2>2. Top.in = "fields"
    <3>1. Top.in # "fields" => Top.size = 0
      BY TopReads
    <3> QED
      BY <2>1, <3>1 DEF Exhausted
  <2>3. pos' = e[Top.path] /\ pos >= e[Top.path]
    <3>1. pos - Top.start >= Top.size /\ pos \in Nat
      BY <2>1 DEF Exhausted, TypeInv
    <3> QED
      BY <1>1, <1>2, <2>2, <3>1
  <2>4. Len(stack) > 1
    <3>1. Len(stack) \in Nat \ {0} /\ Top = stack[Len(stack)] /\ stack # <<>>
      BY TopReads
    <3>2. stack[1].size = 0
      BY <3>1 DEF TypeInv, Running
    <3>3. Top.size # 0
      BY <1>2, <2>2
    <3> QED
      BY <3>1, <3>2, <3>3
  <2>5. ~EndRead
    BY <1>3 DEF SkipAbsent, EndRead
  <2> QED
    BY <1>1, <2>2, <2>3, <2>4, <2>5
<1>4. CASE EndRead
  <2>1. Len(stack) > 1 /\ ~More /\ ~SkipAbsent
    BY <1>4 DEF SkipAbsent, EndRead
  <2>2. Top.in = "fields" => pos' = e[Top.path]
    BY <1>1, <1>2
  <2>3. ASSUME Top.in # "fields" PROVE pos' = e[Top.path] /\ pos = e[Top.path]
    <3>1. /\ Top.size = 0 /\ Top.count = Count(Top.path) /\ Top.next \in Nat
          /\ Top.count \in Nat /\ Top.next <= Top.count + 1
      BY <2>3, TopReads
    <3>2. Top.next = Count(Top.path) + 1
      BY <2>1, <3>1 DEF More
    <3>3. pos = End(e, Top.path)
      BY <3>2, AtEnd
    <3> QED
      BY <1>1, <2>1, <3>1, <3>3, BelowRoot DEF End
  <2> QED
    BY <1>1, <2>1, <2>2, <2>3
<1> QED
  BY <1>3, <1>4

\* Every step of the reader stays in the tree.
LEMMA ReadWalks ==
    ASSUME TypeInv, Skewed, NEW e, Tree(e),
           phase = "reading" => Walking(e), Read
    PROVE  /\ phase = "reading" /\ phase' = "reading"
           /\ UNCHANGED <<client, server, message, wire, place>>
           /\ Walking(e)'
<1>1. CASE ReadWord
  <2>1. /\ phase = "reading" /\ More /\ ~Exhausted /\ Field.shape = "word"
        /\ stack' = Stepped /\ pos' = pos + 1
        /\ UNCHANGED <<client, server, phase, message, wire, place>>
    BY <1>1 DEF ReadWord, Reading, Take
  <2>2. pos' = e[At]
    BY <2>1, FieldCells
  <2> QED
    BY <2>1, <2>2, WalkOn
<1>2. CASE ReadUnion
  <2> DEFINE b == Value(Arms[Field.of][Reader][wire[pos + 1].val], At)
  <2>1. /\ phase = "reading" /\ More /\ ~Exhausted /\ Field.shape \in {"part", "maybe"}
        /\ wire[pos].val # 0 /\ Field.of \in Unions
        /\ wire[pos + 1].val \in DOMAIN Arms[Field.of][Reader]
        /\ stack' = Append(Stepped, b) /\ pos' = pos + 2
        /\ UNCHANGED <<client, server, phase, message, wire, place>>
    BY <1>2 DEF ReadUnion, ReadingBody, Reading, Take
  <2>2. PICK a : a = At
    OBVIOUS
  <2>3. /\ a \in DOMAIN place /\ pos = place[a] /\ a # <<>> /\ a \in Paths
        /\ IsUnion(a) /\ IsBody(a) /\ ~IsList(a) /\ Inner(a)
        /\ Of(a) = Arms[Field.of][Reader][wire[pos + 1].val]
    <3>1. a \in DOMAIN place /\ pos = place[a] /\ a # <<>> /\ a \in Paths
      BY <2>1, <2>2, Standing
    <3>2. /\ IsUnion(a) /\ IsBody(a) /\ ~IsList(a)
          /\ Of(a) = Arms[Field.of][Reader][wire[pos + 1].val]
      BY <2>1, <2>2, FieldCells
    <3> QED
      BY <3>1, <3>2 DEF Inner
  <2>4. In(a) = "arm" /\ First(a) = pos + 2 /\ Count(a) = 1
    BY <2>3 DEF In, First, Count
  <2>5. /\ b.path = a /\ b.next = 1 /\ b.in = "arm" /\ b.of = Of(a)
        /\ b.count = 1 /\ b.size = 0
    BY <2>2, <2>3 DEF Value, Activation
  <2>6. b \in Activations
    <3>1. Reader \in Releases
      BY Alike
    <3>2. Arms[Field.of][Reader][wire[pos + 1].val] \in Variants
      BY <2>1, <3>1, TagArm
    <3> QED
      BY <2>2, <2>3, <3>2, ValueType
  <2> HIDE DEF b
  <2>7. /\ b.in = In(a) /\ b.of = Of(a)
        /\ b.count = IF b.in = "fields" THEN Len(Layout[b.of][Reader]) ELSE Count(a)
        /\ b.in # "fields" /\ b.size = 0
        /\ pos' = First(a)
    BY <2>1, <2>4, <2>5
  <2> QED
    BY <2>1, <2>2, <2>3, <2>5, <2>6, <2>7, WalkInto
<1>3. CASE ReadNull
  <2>1. /\ phase = "reading" /\ More /\ ~Exhausted /\ Field.shape = "maybe"
        /\ wire[pos].val = 0 /\ stack' = Stepped /\ pos' = pos + 1
        /\ UNCHANGED <<client, server, phase, message, wire, place>>
    BY <1>3 DEF ReadNull, Reading, Take
  <2>2. pos' = e[At]
    BY <2>1, FieldCells
  <2> QED
    BY <2>1, <2>2, WalkOn
<1>4. CASE ReadParcelable
  <2> DEFINE b == Body(Field.of, Reader, pos + 1, wire[pos + 1].val, At)
  <2>1. /\ phase = "reading" /\ More /\ ~Exhausted /\ Field.shape \in {"part", "maybe"}
        /\ wire[pos].val # 0 /\ Field.of \in Parcelables
        /\ stack' = Append(Stepped, b) /\ pos' = pos + 2
        /\ UNCHANGED <<client, server, phase, message, wire, place>>
    BY <1>4 DEF ReadParcelable, ReadingBody, Reading, Take
  <2>2. PICK a : a = At
    OBVIOUS
  <2>3. /\ a \in DOMAIN place /\ pos = place[a] /\ a # <<>> /\ a \in Paths
        /\ IsBody(a) /\ ~IsList(a) /\ ~IsUnion(a) /\ Inner(a) /\ Of(a) = Field.of
        /\ wire[pos + 1] = HeadAt(a) /\ wire[pos + 1].val \in Nat /\ pos \in Nat
    <3>1. a \in DOMAIN place /\ pos = place[a] /\ a # <<>> /\ a \in Paths
      BY <2>1, <2>2, Standing
    <3>2. /\ IsBody(a) /\ ~IsList(a) /\ wire[pos + 1] = HeadAt(a)
          /\ (IsUnion(a) <=> Field.of \in Unions)
          /\ Of(a) = Field.of /\ wire[pos + 1].val \in Nat
      BY <2>1, <2>2, FieldCells
    <3>3. Field.of \notin Unions
      BY <2>1, ConstantTypes
    <3>4. pos \in Nat
      BY DEF TypeInv
    <3> QED
      BY <3>1, <3>2, <3>3, <3>4 DEF Inner
  <2>4. Inner(a) /\ In(a) = "fields" /\ Of(a) = Field.of /\ First(a) = pos + 2
    BY <2>3 DEF In, First
  <2>5. /\ b.path = a /\ b.next = 1 /\ b.in = "fields" /\ b.of = Field.of
        /\ b.count = Len(Layout[Field.of][Reader]) /\ b.start = pos + 1
        /\ b.size = wire[pos + 1].val
    BY <2>2 DEF Body, Activation
  <2>6. b \in Activations
    <3>1. Reader \in Releases /\ pos + 1 \in Nat
      BY <2>3, Alike
    <3>2. Len(Layout[Field.of][Reader]) \in Nat
      BY <2>1, <3>1, Alike
    <3> QED
      BY <2>1, <2>2, <2>3, <3>1, <3>2 DEF Body, Activation, Activations, Types
  <2> HIDE DEF b
  <2>7. /\ b.in = In(a) /\ b.of = Of(a)
        /\ b.count = IF b.in = "fields" THEN Len(Layout[b.of][Reader]) ELSE Count(a)
        /\ b.in = "fields" => b.start = place[a] + 1 /\ b.size = HeadAt(a).val
        /\ (b.in # "fields" => b.size = 0)
        /\ pos' = First(a)
    BY <2>1, <2>3, <2>4, <2>5
  <2> QED
    BY <2>1, <2>2, <2>4, <2>5, <2>6, <2>7, WalkInto
<1>5. CASE ReadVector
  <2> DEFINE b == Elements(Field.of, wire[pos].val, At)
  <2>1. /\ phase = "reading" /\ More /\ ~Exhausted /\ Field.shape = "list"
        /\ stack' = Append(Stepped, b) /\ pos' = pos + 1
        /\ UNCHANGED <<client, server, phase, message, wire, place>>
    BY <1>5 DEF ReadVector, Reading, Take
  <2>2. PICK a : a = At
    OBVIOUS
  <2>3. /\ a \in DOMAIN place /\ pos = place[a] /\ a # <<>> /\ a \in Paths
        /\ Field \in FieldType /\ Of(a) = Field.of
        /\ IsList(a) /\ wire[pos].val \in Nat /\ pos \in Nat /\ wire[pos] = CellAt(a)
    BY <2>1, <2>2, Standing, SameField, FieldCells DEF TypeInv
  <2>4. /\ Inner(a) /\ In(a) = "list" /\ Of(a) = Field.of /\ First(a) = pos + 1
        /\ Count(a) = wire[pos].val
    BY <2>3 DEF Inner, In, First, Count
  <2>5. /\ b.path = a /\ b.next = 1 /\ b.in = "list" /\ b.of = Field.of
        /\ b.count = wire[pos].val /\ b.size = 0
    BY <2>2 DEF Elements, Activation
  <2>6. b \in Activations
    <3>1. Field.of \in Parcelables \cup Unions
      BY <2>1, <2>3, FieldTypes
    <3> QED
      BY <2>2, <2>3, <3>1, ElementsType
  <2> HIDE DEF b
  <2>7. /\ b.in = In(a) /\ b.of = Of(a)
        /\ b.count = IF b.in = "fields" THEN Len(Layout[b.of][Reader]) ELSE Count(a)
        /\ b.in # "fields" /\ b.size = 0
        /\ pos' = First(a)
    BY <2>1, <2>3, <2>4, <2>5
  <2> QED
    BY <2>1, <2>2, <2>4, <2>5, <2>6, <2>7, WalkInto
<1>6. CASE SkipAbsent \/ EndRead
  <2>1. phase = "reading"
    BY <1>6 DEF SkipAbsent, EndRead
  <2> QED
    BY <1>6, <2>1, LeavesAt, WalkBack
<1> QED
  BY <1>1, <1>2, <1>3, <1>4, <1>5, <1>6 DEF Read

LEMMA StartWalking ==
    ASSUME TypeInv, NEW e \in [DOMAIN place -> Nat], Tree(e), Growing(e), Transact,
           phase' = "reading"
    PROVE  Walking(e)'
<1>1. /\ phase' = "reading" /\ stack' = <<Arguments(message)>> /\ pos' = pos /\ pos = 1
      /\ UNCHANGED <<client, server, message, wire, place>>
  BY DEF Transact, Growing, Ended
<1>2. /\ DOMAIN stack' = {1} /\ stack'[1] = Arguments(message) /\ Len(stack') = 1
  BY <1>1
<1>3. /\ Arguments(message).in = "args" /\ Arguments(message).of = "none"
      /\ Arguments(message).path = <<>> /\ Arguments(message).next = 1
      /\ Arguments(message).count = Len(Fields(message)) /\ Arguments(message).size = 0
  BY DEF Arguments, Activation
<1>4. Len(Fields(message)) \in Nat
  BY ConstantTypes, LenProperties
<1>5. /\ <<>> \in Nodes' /\ Inner(<<>>)' /\ Declares(Reader', <<>>) /\ In(<<>>)' = "args"
      /\ Of(<<>>)' = "none" /\ Count(<<>>)' = Len(Fields(message)) /\ First(<<>>)' = 1
  BY <1>1 DEF Nodes, Inner, Declares, In, Of, Count, First
<1>6. /\ stack'[1].path = <<>> /\ stack'[1].in = In(<<>>)' /\ stack'[1].of = Of(<<>>)'
      /\ stack'[1].in # "fields" /\ stack'[1].size = 0 /\ stack'[1].count = Count(<<>>)'
      /\ stack'[1].next \in 1..stack'[1].count + 1 /\ stack'[1].next <= Count(<<>>)' + 1
  BY <1>2, <1>3, <1>4, <1>5
<1>7. Reads(1)'
  BY <1>5, <1>6 DEF Reads, Inner, In, Of, Count, IsBody, IsList, CellAt, Nodes
<1>8. Top' = Arguments(message)
  BY <1>2 DEF Top, Last
<1>9. pos' = First(Top.path)' /\ Top'.next = 1
  BY <1>1, <1>3, <1>5, <1>8 DEF First, IsList, CellAt
<1> QED
  BY <1>2, <1>7, <1>9 DEF Walking, First, IsList, CellAt

----------------------------------------------------------------------------
(* What is written grows as a tree, and is read in place.                  *)

Walks ==
    /\ phase = "writing" => \E e \in [DOMAIN place -> Nat] : Tree(e) /\ Growing(e)
    /\ phase = "reading" /\ Skewed =>
          \E e \in [DOMAIN place -> Nat] : Tree(e) /\ Walking(e)
    /\ phase \in {"writing", "reading", "handling"} => result = "pending"
    /\ NeverRefused

\* Whether one release appends to the other is a matter of the releases.
LEMMA SkewStays ==
    ASSUME UNCHANGED <<client, server>>
    PROVE  /\ Skewed' = Skewed /\ Appends(client, server)' = Appends(client, server)
  BY DEF Skewed, Appends

LEMMA WalksInit == Init => Walks
  BY DEF Init, Walks, NeverRefused

LEMMA WriteWalks ==
    ASSUME TypeInv, Walks, Write
    PROVE  Walks'
<1>1. phase = "writing"
  BY DEF Write, WriteWord, WriteUnion, WriteParcelable, WriteNull, WriteVector, EndWrite, Writing
<1>2. UNCHANGED <<client, server, phase, result>>
  <2>1. ASSUME NEW cells, NEW where, Put(cells, where)
        PROVE  UNCHANGED <<client, server, phase, result>>
    BY <2>1 DEF Put
  <2>2. EndWrite => UNCHANGED <<client, server, phase, result>>
    BY DEF EndWrite
  <2> QED
    BY <2>1, <2>2 DEF Write, WriteWord, WriteUnion, WriteParcelable, WriteNull, WriteVector
<1>3. PICK e \in [DOMAIN place -> Nat] : Tree(e) /\ Growing(e)
  BY <1>1 DEF Walks
<1>4. \E e2 \in [DOMAIN place' -> Nat] : Tree(e2)' /\ Growing(e2)'
  <2>1. CASE WriteWord
    BY <1>3, <2>1, WriteWordTree
  <2>2. CASE WriteUnion
    BY <1>3, <2>2, WriteUnionTree
  <2>3. CASE WriteParcelable
    BY <1>3, <2>3, WriteParcelableTree
  <2>4. CASE WriteNull
    BY <1>3, <2>4, WriteNullTree
  <2>5. CASE WriteVector
    BY <1>3, <2>5, WriteVectorTree
  <2>6. CASE EndWrite
    BY <1>3, <2>6, EndWriteTree, EndWriteGrowing
  <2> QED
    BY <2>1, <2>2, <2>3, <2>4, <2>5, <2>6 DEF Write
<1> QED
  BY <1>1, <1>2, <1>4 DEF Walks, NeverRefused

LEMMA ReadStepWalks ==
    ASSUME TypeInv, Walks, Read
    PROVE  Walks'
<1>1. UNCHANGED <<client, server, phase, result>> /\ phase = "reading"
  <2>1. ASSUME NEW n, NEW object, Take(n, object)
        PROVE  UNCHANGED <<client, server, phase, result>>
    BY <2>1 DEF Take
  <2>2. Leave => UNCHANGED <<client, server, phase, result>>
    BY DEF Leave
  <2>3. phase = "reading"
    BY DEF Read, ReadWord, ReadUnion, ReadParcelable, ReadNull, ReadVector, SkipAbsent,
           EndRead, Reading, ReadingBody
  <2> QED
    BY <2>1, <2>2, <2>3
       DEF Read, ReadWord, ReadUnion, ReadParcelable, ReadNull, ReadVector, SkipAbsent, EndRead
<1>2. ASSUME Skewed' PROVE \E e \in [DOMAIN place' -> Nat] : Tree(e)' /\ Walking(e)'
  <2>2. Skewed
    BY <1>1, <1>2, SkewStays
  <2>1. PICK e \in [DOMAIN place -> Nat] : Tree(e) /\ Walking(e)
    BY <1>1, <2>2 DEF Walks
  <2>3. /\ UNCHANGED <<client, server, message, wire, place>> /\ phase' = "reading"
        /\ Walking(e)'
    BY <2>1, <2>2, ReadWalks
  <2>4. Tree(e)'
    BY <1>1, <2>1, <2>3, TreeStays
  <2> QED
    BY <2>1, <2>3, <2>4
<1> QED
  BY <1>1, <1>2 DEF Walks, NeverRefused

LEMMA WalksNext ==
    ASSUME TypeInv, Walks, [Next]_vars
    PROVE  Walks'
<1>1. ASSUME Connect PROVE Walks'
  BY <1>1 DEF Connect, Walks, NeverRefused
<1>2. ASSUME Call PROVE Walks'
  <2>1. phase' = "writing" /\ result' = "pending" /\ StartWriting("request")
    BY <1>2 DEF Call, StartWriting
  <2>2. \E e2 \in [DOMAIN place' -> Nat] : Tree(e2)' /\ Growing(e2)'
    BY <2>1, StartTree
  <2> QED
    BY <2>1, <2>2 DEF Walks, NeverRefused
<1>3. ASSUME Transact PROVE Walks'
  <2>1. phase = "writing" /\ UNCHANGED <<client, server>> /\ result = "pending"
    BY <1>3 DEF Transact, Ended, Walks
  <2>2. CASE phase' = "reading"
    <3>1. UNCHANGED result
      BY <1>3, <2>2 DEF Transact, Ended
    <3>2. PICK e \in [DOMAIN place -> Nat] : Tree(e) /\ Growing(e)
      BY <2>1 DEF Walks
    <3>3. e \in [DOMAIN place' -> Nat] /\ Tree(e)' /\ Walking(e)'
      BY <1>3, <2>2, <3>2, TransactTree, StartWalking
    <3> QED
      BY <2>1, <2>2, <3>1, <3>3 DEF Walks, NeverRefused
  <2>3. CASE phase' # "reading"
    <3>1. phase' = "ready" /\ Descriptor[client] # Descriptor[server]
      BY <1>3, <2>3 DEF Transact, Ended
    <3>2. ~Skewed'
      BY <2>1, <3>1, Alike, SkewStays
    <3> QED
      BY <3>1, <3>2 DEF Walks, NeverRefused
  <2> QED
    BY <2>2, <2>3
<1>4. ASSUME WriteFails PROVE Walks'
  BY <1>4 DEF WriteFails, Ended, Walks, NeverRefused
<1>5. ASSUME Handle PROVE Walks'
  <2>1. phase = "handling" /\ result = "pending"
    BY <1>5 DEF Handle, Walks
  <2>2. CASE Ended("EXCEPTION")
    BY <2>2 DEF Ended, Walks, NeverRefused
  <2>3. CASE StartWriting("reply") /\ UNCHANGED <<client, server, call, got, result>>
    <3>1. \E e2 \in [DOMAIN place' -> Nat] : Tree(e2)' /\ Growing(e2)'
      BY <2>3, StartTree
    <3>2. phase' = "writing"
      BY <2>3 DEF StartWriting
    <3> QED
      BY <2>1, <2>3, <3>1, <3>2 DEF Walks, NeverRefused
  <2> QED
    BY <1>5, <2>2, <2>3 DEF Handle
<1>6. ASSUME Die PROVE Walks'
  <2>1. /\ phase' = "off" /\ UNCHANGED <<client, server, wire, pos, message>>
        /\ result' = result \/ result' = "DEAD_OBJECT"
    BY <1>6 DEF Die
  <2>2. NeverRefused'
    BY <2>1 DEF Walks, NeverRefused, UnknownArm, Skewed, Appends, Writer, Reader
  <2> QED
    BY <2>1, <2>2 DEF Walks
<1>7. ASSUME Write PROVE Walks'
  BY <1>7, WriteWalks
<1>8. ASSUME Read PROVE Walks'
  BY <1>8, ReadStepWalks
<1>9. ASSUME ReadFails PROVE Walks'
  <2>1. /\ phase' = "ready" /\ phase = "reading" /\ More /\ ~Exhausted
        /\ UNCHANGED <<client, server, message, wire, pos>>
        /\ result' = Obstacle \/ result' = "NO_MEMORY"
    BY <1>9 DEF ReadFails, Ended
  <2>2. ASSUME Skewed
        PROVE  result' \in {"none", "NO_MEMORY"} \/ (result' = "BAD_VALUE" /\ UnknownArm)
    <3>1. PICK e \in [DOMAIN place -> Nat] : Tree(e) /\ Walking(e)
      BY <2>1, <2>2 DEF Walks
    <3>2. Obstacle = "none" \/ (Obstacle = "BAD_VALUE" /\ UnknownArm)
      BY <2>1, <2>2, <3>1, NoObstacle
    <3> QED
      BY <2>1, <3>2
  <2>3. (UnknownArm => UnknownArm') /\ Skewed' = Skewed
    BY <2>1, SkewStays DEF UnknownArm, Writer, Reader
  <2> QED
    BY <2>1, <2>2, <2>3 DEF Walks, NeverRefused
<1>10. ASSUME EndArguments PROVE Walks'
  <2>1. /\ phase = "reading" /\ Len(stack) = 1 /\ ~More
        /\ UNCHANGED <<client, server>> /\ result = "pending"
        /\ \/ pos <= Len(wire) /\ phase' = "ready" /\ result' = "BAD_PARCELABLE"
           \/ phase' = "handling" /\ result' = result
    BY <1>10 DEF EndArguments, Ended, Walks
  <2>2. Skewed => ~(pos <= Len(wire))
    <3> SUFFICES ASSUME Skewed PROVE ~(pos <= Len(wire))
      OBVIOUS
    <3>1. PICK e \in [DOMAIN place -> Nat] : Tree(e) /\ Walking(e)
      BY <2>1 DEF Walks
    <3> QED
      BY <2>1, <3>1, NothingLeft
  <2>3. Skewed' = Skewed
    BY <2>1, SkewStays
  <2> QED
    BY <2>1, <2>2, <2>3 DEF Walks, NeverRefused
<1>11. ASSUME Return PROVE Walks'
  BY <1>11 DEF Return, Ended, Walks, NeverRefused
<1>12. ASSUME UNCHANGED vars PROVE Walks'
  <2>1. UNCHANGED <<client, server, phase, message, wire, pos, stack, place, result>>
    BY <1>12 DEF vars
  <2>2. ASSUME NEW e, Tree(e) PROVE Tree(e)'
    BY <2>1, <2>2, TreeStays
  <2>3. ASSUME NEW e, Growing(e) PROVE Growing(e)'
    <3>1. ASSUME NEW i, Writes(i) PROVE Writes(i)'
      <4>1. PICK g : g = stack[i].path
        OBVIOUS
      <4>2. /\ g \in Nodes /\ Len(g) = i - 1 /\ Inner(g)
            /\ stack[i].in = In(g) /\ stack[i].of = Of(g) /\ stack[i].count = Count(g)
            /\ stack[i].start = IF stack[i].in = "fields" THEN place[g] + 1 ELSE 0
            /\ stack[i].next \in 1..stack[i].count + 1
            /\ \A k \in Nat : Kid(g, k) \in DOMAIN place <=> k \in 1..stack[i].next - 1
            /\ i > 1 => g = Kid(stack[i - 1].path, stack[i - 1].next - 1)
            /\ \A j \in 1..i : Under(stack[j].path, g)
        BY <3>1, <4>1 DEF Writes
      <4>3. /\ Nodes' = Nodes /\ (Inner(g)' <=> Inner(g)) /\ In(g)' = In(g) /\ Of(g)' = Of(g)
            /\ Count(g)' = Count(g) /\ \A k : Kid(g, k)' = Kid(g, k)
        BY <2>1, NodesStay
      <4>4. i > 1 => \E h, m : /\ h = stack'[i - 1].path /\ m = stack'[i - 1].next - 1
                               /\ g = Kid(h, m)'
        <5>1. PICK h : h = stack[i - 1].path
          OBVIOUS
        <5>2. PICK m : m = stack[i - 1].next - 1
          OBVIOUS
        <5>3. Kid(h, m)' = Kid(h, m)
          BY <2>1, NodesStay
        <5> QED
          BY <2>1, <4>2, <5>1, <5>2, <5>3
      <4>5. /\ stack'[i].path = g /\ g \in Nodes' /\ Inner(g)' /\ Len(g) = i - 1
            /\ stack'[i].in = In(g)' /\ stack'[i].of = Of(g)' /\ stack'[i].count = Count(g)'
            /\ stack'[i].start = IF stack'[i].in = "fields" THEN place'[g] + 1 ELSE 0
            /\ stack'[i].next \in 1..stack'[i].count + 1
        BY <2>1, <4>1, <4>2, <4>3
      <4>6. \A k \in Nat : Kid(g, k)' \in DOMAIN place' <=> k \in 1..stack'[i].next - 1
        BY <2>1, <4>2, <4>3
      <4>7. \A j \in 1..i : Under(stack'[j].path, g)
        BY <2>1, <4>2
      <4> QED
        BY <4>4, <4>5, <4>6, <4>7
           DEF Writes, HeadAt, Kid, Inner, In, Of, Count, IsBody, IsList, CellAt, Nodes
    <3>2. Len(wire') + 1 = IF Top'.next = 1 THEN First(Top.path)'
                           ELSE e[Kid(Top.path, Top.next - 1)']
      BY <2>1, <2>3 DEF Growing, Top, First, Kid, In, Of, IsList, IsUnion, IsBody, HeadAt, CellAt, Declared, Writer
    <3> QED
      BY <2>1, <2>3, <3>1, <3>2 DEF Growing, First, Kid, In, Of, IsList, IsUnion, IsBody, HeadAt, CellAt
  <2>4. ASSUME NEW e, Walking(e) PROVE Walking(e)'
    <3>1. /\ Nodes' = Nodes /\ Reader' = Reader
          /\ \A p : /\ (Inner(p)' <=> Inner(p)) /\ In(p)' = In(p) /\ Of(p)' = Of(p)
                    /\ Count(p)' = Count(p) /\ First(p)' = First(p) /\ HeadAt(p)' = HeadAt(p)
                    /\ (\A k : Kid(p, k)' = Kid(p, k))
      BY <2>1, NodesStay
    <3>2. ASSUME NEW i, Reads(i) PROVE Reads(i)'
      BY <2>1, <3>1, <3>2 DEF Reads
    <3>3. pos' = IF Top'.next = 1 THEN First(Top.path)' ELSE e[Kid(Top.path, Top.next - 1)']
      BY <2>1, <2>4, <3>1 DEF Walking, Top
    <3> QED
      BY <2>1, <2>4, <3>2, <3>3 DEF Walking
  <2>5. NeverRefused'
    BY <2>1 DEF Walks, NeverRefused, UnknownArm, Skewed, Appends, Writer, Reader
  <2>6. Skewed' = Skewed
    BY <2>1, SkewStays
  <2> QED
    BY <2>1, <2>2, <2>3, <2>4, <2>5, <2>6 DEF Walks
<1> QED
  BY <1>1, <1>2, <1>3, <1>4, <1>5, <1>6, <1>7, <1>8, <1>9, <1>10, <1>11, <1>12 DEF Next

\* A reader that comes to a field stands where the sender wrote it.
LEMMA WalksInPlace ==
    ASSUME TypeInv, Walks
    PROVE  InPlace
<1> SUFFICES ASSUME Skewed, phase = "reading", More, ~Exhausted
             PROVE  At \in DOMAIN place /\ pos = place[At]
  BY DEF InPlace
<1>1. PICK e \in [DOMAIN place -> Nat] : Tree(e) /\ Walking(e)
  BY DEF Walks
<1> QED
  BY <1>1, Standing

----------------------------------------------------------------------------
(* The caller's object.                                                    *)

LEMMA FollowsLonger ==
    ASSUME NEW r, NEW m, NEW p \in Paths, NEW s \in Steps, Follows(r, m, p),
           Fits(r, m, Last(p), s)
    PROVE  Follows(r, m, Append(p, s))
<1>1. /\ p # <<>> /\ Len(p) \in Nat \ {0} /\ Last(p) = p[Len(p)]
  <2>1. p # <<>>
    BY DEF Follows
  <2> QED
    BY <2>1, PathIs
<1>2. /\ Append(p, s) # <<>> /\ Len(Append(p, s)) = Len(p) + 1
      /\ \A i \in 1..Len(p) : Append(p, s)[i] = p[i]
      /\ Append(p, s)[Len(p) + 1] = s
  BY Longer
<1>3. Append(p, s)[1] = p[1]
  BY <1>1, <1>2
<1>4. ASSUME NEW i \in 2..Len(p) + 1
      PROVE  Fits(r, m, Append(p, s)[i - 1], Append(p, s)[i])
  <2>1. CASE i = Len(p) + 1
    <3>1. Append(p, s)[i - 1] = Last(p) /\ Append(p, s)[i] = s
      BY <1>1, <1>2, <2>1
    <3> QED
      BY <3>1
  <2>2. CASE i # Len(p) + 1
    <3>1. i \in 2..Len(p) /\ i \in 1..Len(p) /\ i - 1 \in 1..Len(p)
      BY <1>1, <2>2
    <3> QED
      BY <1>2, <3>1 DEF Follows
  <2> QED
    BY <2>1, <2>2
<1> QED
  BY <1>2, <1>3, <1>4 DEF Follows

LEMMA FollowsFirst ==
    ASSUME NEW r, NEW m, NEW k \in 1..Len(Fields(m))
    PROVE  Follows(r, m, Append(<<>>, Step("args", "none", k)))
<1>1. Len(Fields(m)) \in Nat
  BY ConstantTypes, LenProperties
<1>2. Step("args", "none", k) \in Steps
  BY <1>1, PathTypes DEF Types
<1>3. PICK p : p = Append(<<>>, Step("args", "none", k))
  OBVIOUS
<1>4. p # <<>> /\ Len(p) = 1 /\ p[1] = Step("args", "none", k)
  <2>1. p # <<>> /\ Len(p) = Len(<<>>) + 1 /\ p[Len(<<>>) + 1] = Step("args", "none", k)
    BY <1>2, <1>3, PathTypes, Longer
  <2> QED
    BY <2>1
<1>5. p[1].in = "args" /\ p[1].of = "none" /\ p[1].nr = k
  BY <1>4 DEF Step
<1> QED
  BY <1>3, <1>4, <1>5 DEF Follows

\* What lies below a field the reader comes to is what its type can hold.
LEMMA FollowsBelow ==
    ASSUME NEW r, NEW m, NEW p \in Paths, NEW q \in Paths, q # <<>>, Follows(r, m, p),
           Under(q, p), p # q
    PROVE  /\ Len(q) + 1 \in 1..Len(p) /\ p[Len(q) + 1] \in Steps
           /\ Fits(r, m, Last(q), p[Len(q) + 1])
           /\ Under(Append(q, p[Len(q) + 1]), p)
<1>1. /\ Len(p) \in Nat /\ Len(q) \in Nat \ {0} /\ Last(q) = q[Len(q)]
      /\ \A i \in 1..Len(p) : p[i] \in Steps
  BY PathIs
<1>2. ~(Len(q) >= Len(p))
  BY UnderEqual
<1>3. Len(q) + 1 \in 2..Len(p) /\ Len(q) + 1 \in 1..Len(p) /\ Len(q) \in 1..Len(q)
  BY <1>1, <1>2
<1>4. p[Len(q)] = q[Len(q)]
  BY <1>3 DEF Under
<1>5. Fits(r, m, p[Len(q) + 1 - 1], p[Len(q) + 1])
  BY <1>3 DEF Follows
<1>6. Len(q) + 1 - 1 = Len(q)
  BY <1>1
<1>7. PICK s : s = p[Len(q) + 1]
  OBVIOUS
<1>8. /\ s \in Steps /\ Len(Append(q, s)) = Len(q) + 1
      /\ \A i \in 1..Len(q) : Append(q, s)[i] = q[i]
      /\ Append(q, s)[Len(q) + 1] = s
  BY <1>1, <1>3, <1>7, Longer
<1>9. Under(Append(q, s), p)
  <2>1. \A i \in 1..Len(q) + 1 : i \in 1..Len(q) \/ i = Len(q) + 1
    BY <1>1
  <2>2. \A i \in 1..Len(q) : q[i] = p[i]
    BY DEF Under
  <2>3. \A i \in 1..Len(q) + 1 : Append(q, s)[i] = p[i]
    BY <1>7, <1>8, <2>1, <2>2
  <2> QED
    BY <1>3, <1>8, <2>3 DEF Under
<1> QED
  BY <1>1, <1>3, <1>4, <1>5, <1>6, <1>7, <1>9

LEMMA WalksInvariance == Spec => []Walks
<1>1. TypeInv /\ Walks /\ [Next]_vars => Walks'
  BY WalksNext
<1> QED
  BY <1>1, TypeInvariance, WalksInit, PTL DEF Spec

\* When either release appends to the other, a reader that comes to a field the
\* sender wrote stands where it was written, whichever fields of whichever
\* parcelables, in whichever arms of unions, either side does not know.
THEOREM ReadsInPlace == Spec => []InPlace
<1>1. TypeInv /\ Walks => InPlace
  BY WalksInPlace
<1> QED
  BY <1>1, TypeInvariance, WalksInvariance, PTL

\* Neither side of such a pair refuses a parcel that was written completely,
\* unless it holds an arm that the reader's release does not declare.
THEOREM NothingRefused == Spec => []NeverRefused
<1>1. Walks => NeverRefused
  BY DEF Walks
<1> QED
  BY <1>1, WalksInvariance, PTL

\* What a read puts into the object: the field, and the value of a union.
LEMMA ReadPuts ==
    ASSUME TypeInv, Read
    PROVE  /\ phase = "reading" /\ UNCHANGED <<client, server, phase, message, wire, place>>
           /\ \A m \in DOMAIN got : m # message => got'[m] = got[m]
           /\ \A p \in DOMAIN got'[message] :
                 \/ p \in DOMAIN got[message]
                 \/ More /\ p = At
<1> DEFINE m  == message
           o  == got[message]
           Ok == /\ phase = "reading"
                 /\ UNCHANGED <<client, server, phase, message, wire, place>>
                 /\ \A k \in DOMAIN got : k # m => got'[k] = got[k]
<1>1. ASSUME NEW n, NEW object, Take(n, object), phase = "reading"
      PROVE  Ok /\ (message \in DOMAIN got => got'[message] = object)
  BY <1>1 DEF Take
<1>2. CASE ReadWord
  <2>1. /\ phase = "reading" /\ More /\ Take(1, Set(o, At, wire[pos])) /\ Available(1)
    BY <1>2 DEF ReadWord, Reading
  <2>2. /\ message \in DOMAIN got /\ IsFull(o) /\ At \in Paths /\ wire[pos] \in Cells
    BY <2>1, ReadsField
  <2>3. DOMAIN Set(o, At, wire[pos]) = DOMAIN o \cup {At}
    BY <2>2, SetIs
  <2> QED
    BY <1>1, <2>1, <2>2, <2>3
<1>3. CASE ReadNull
  <2> DEFINE base == Without(o, At)
  <2>1. /\ phase = "reading" /\ More /\ Take(1, Set(base, At, wire[pos])) /\ Available(1)
    BY <1>3 DEF ReadNull, Reading
  <2>2. /\ message \in DOMAIN got /\ IsFull(o) /\ At \in Paths /\ wire[pos] \in Cells
    BY <2>1, ReadsField
  <2>3. IsFull(base) /\ DOMAIN base \subseteq DOMAIN o
    BY <2>2, WithoutIs
  <2> HIDE DEF base
  <2>4. DOMAIN Set(base, At, wire[pos]) = DOMAIN base \cup {At}
    BY <2>2, <2>3, SetIs
  <2> QED
    BY <1>1, <2>1, <2>2, <2>3, <2>4
<1>4. CASE ReadUnion
  <2> DEFINE base == Without(o, At)
  <2>1. /\ phase = "reading" /\ More /\ Take(2, Set(base, At, wire[pos])) /\ Available(2)
    BY <1>4 DEF ReadUnion, ReadingBody, Reading
  <2>2. /\ message \in DOMAIN got /\ IsFull(o) /\ At \in Paths /\ wire[pos] \in Cells
    BY <2>1, ReadsField
  <2>3. IsFull(base) /\ DOMAIN base \subseteq DOMAIN o
    BY <2>2, WithoutIs
  <2> HIDE DEF base
  <2>4. DOMAIN Set(base, At, wire[pos]) = DOMAIN base \cup {At}
    BY <2>2, <2>3, SetIs
  <2> QED
    BY <1>1, <2>1, <2>2, <2>3, <2>4
<1>5. CASE ReadParcelable
  <2> DEFINE base == IF Field.shape = "maybe" THEN Without(o, At) ELSE o
  <2>1. /\ phase = "reading" /\ More /\ Take(2, Set(base, At, wire[pos])) /\ Available(2)
    BY <1>5 DEF ReadParcelable, ReadingBody, Reading
  <2>2. /\ message \in DOMAIN got /\ IsFull(o) /\ At \in Paths /\ wire[pos] \in Cells
    BY <2>1, ReadsField
  <2>3. IsFull(base) /\ DOMAIN base \subseteq DOMAIN o
    BY <2>2, WithoutIs
  <2> HIDE DEF base
  <2>4. DOMAIN Set(base, At, wire[pos]) = DOMAIN base \cup {At}
    BY <2>2, <2>3, SetIs
  <2> QED
    BY <1>1, <2>1, <2>2, <2>3, <2>4
<1>6. CASE ReadVector
  <2> DEFINE base == Resized(o, At, wire[pos].val)
  <2>1. /\ phase = "reading" /\ More /\ Take(1, Set(base, At, wire[pos])) /\ Available(1)
    BY <1>6 DEF ReadVector, Reading
  <2>2. /\ message \in DOMAIN got /\ IsFull(o) /\ At \in Paths /\ wire[pos] \in Cells
    BY <2>1, ReadsField
  <2>3. IsFull(base) /\ DOMAIN base \subseteq DOMAIN o
    BY <2>2, ResizedIs
  <2> HIDE DEF base
  <2>4. DOMAIN Set(base, At, wire[pos]) = DOMAIN base \cup {At}
    BY <2>2, <2>3, SetIs
  <2> QED
    BY <1>1, <2>1, <2>2, <2>3, <2>4
<1>7. CASE SkipAbsent \/ EndRead
  <2>1. phase = "reading" /\ Leave
    BY <1>7 DEF SkipAbsent, EndRead
  <2> QED
    BY <2>1 DEF Leave
<1> QED
  BY <1>2, <1>3, <1>4, <1>5, <1>6, <1>7 DEF Read

\* What an activation of the client's reader comes to is in its own layout.
LEMMA HereFollows ==
    ASSUME TypeInv, ObjectInv, phase = "reading", message = "reply", More
    PROVE  /\ Follows(client, "reply", At) /\ At \in Paths /\ Last(At) = Here
           /\ Field = FieldAt(client, "reply", Here)
           /\ client \in Releases /\ Field \in FieldType /\ stack # <<>>
           /\ Len(stack) \in Nat \ {0} /\ Top = stack[Len(stack)] /\ stack \in Seq(Activations)
<1>1. /\ stack # <<>> /\ At \in Paths /\ Field \in FieldType /\ client \in Releases
  BY ReadsField
<1>2. /\ Len(stack) \in Nat \ {0} /\ Top = stack[Len(stack)] /\ Top \in Activations
      /\ Runs(Top) /\ Here \in Steps /\ Here.in = Top.in
  BY <1>1, NextField
<1>3. stack \in Seq(Activations) /\ DOMAIN stack = 1..Len(stack)
  BY LenProperties DEF TypeInv, Running
<1>4. Reaches(Top, "reply")
  BY <1>2, <1>3 DEF ObjectInv
<1>5. Top.next \in 1..Top.count
  <2>1. Top.next \in Nat /\ Top.count \in Nat /\ Top.next >= 1 /\ Top.next <= Top.count
    BY <1>2 DEF Activations, Runs, RunsAs, More
  <2> QED
    BY <2>1
<1>6. Follows(client, "reply", At)
  BY <1>4, <1>5 DEF Reaches, At, Here
<1>7. Last(At) = Here
  <2>1. Top.path \in Paths
    BY <1>2 DEF Activations
  <2> QED
    BY <1>2, <2>1, Longer DEF At
<1>8. Field = FieldAt(client, "reply", Here)
  BY DEF Field, Reader
<1> QED
  BY <1>1, <1>2, <1>3, <1>6, <1>7, <1>8

LEMMA BodyReaches ==
    ASSUME TypeInv, ObjectInv, phase = "reading", message = "reply", More,
           Field.shape \in {"part", "maybe"}, Field.of \in Parcelables, NEW b,
           b.in = "fields", b.of = Field.of, b.path = At,
           b.count = Len(Layout[Field.of][client])
    PROVE  Reaches(b, "reply")
<1>1. /\ Follows(client, "reply", At) /\ At \in Paths /\ Last(At) = Here
      /\ Field = FieldAt(client, "reply", Here)
      /\ client \in Releases /\ Field \in FieldType
  BY HereFollows
<1>2. Field.of \in Parcelables /\ Len(Layout[Field.of][client]) \in Nat
  BY <1>1, ConstantTypes, LenProperties
<1>3. ASSUME NEW k \in 1..b.count
      PROVE  Follows(client, "reply", Append(b.path, Step(b.in, b.of, k)))
  <2>1. PICK s : s = Step("fields", Field.of, k)
    OBVIOUS
  <2>2. /\ s \in Steps /\ s.in = "fields" /\ s.of = Field.of /\ s.nr = k
    <3>1. k \in Nat /\ Field.of \in Types
      BY <1>2 DEF Types
    <3> QED
      BY <2>1, <3>1, PathTypes DEF Step
  <2>3. Fits(client, "reply", Last(At), s)
    BY <1>1, <2>2 DEF Fits
  <2>4. Follows(client, "reply", Append(At, s))
    BY <1>1, <2>2, <2>3, FollowsLonger
  <2> QED
    BY <2>1, <2>4
<1> QED
  BY <1>3 DEF Reaches

\* The value of an arm of its own.
LEMMA ArmReaches ==
    ASSUME TypeInv, ObjectInv, phase = "reading", message = "reply", More,
           Field.shape \in {"part", "maybe"}, Field.of \in Unions,
           NEW tag \in DOMAIN Arms[Field.of][client], NEW b,
           b.in = "arm", b.of = Arms[Field.of][client][tag], b.path = At, b.count = 1
    PROVE  Reaches(b, "reply")
<1>1. /\ Follows(client, "reply", At) /\ At \in Paths /\ Last(At) = Here
      /\ Field = FieldAt(client, "reply", Here) /\ client \in Releases
  BY HereFollows
<1>2. b.of \in Variants /\ b.of \in Range(Arms[Field.of][client])
  BY <1>1, TagArm DEF Range
<1>3. ASSUME NEW k \in 1..b.count
      PROVE  Follows(client, "reply", Append(b.path, Step(b.in, b.of, k)))
  <2>1. PICK s : s = Step("arm", b.of, k)
    OBVIOUS
  <2>2. s \in Steps /\ s.in = "arm" /\ s.of = b.of /\ s.nr = 1
    <3>1. k = 1 /\ k \in Nat /\ b.of \in Types
      BY <1>2 DEF Types
    <3> QED
      BY <2>1, <3>1, PathTypes DEF Step
  <2>3. Fits(client, "reply", Last(At), s)
    BY <1>1, <1>2, <2>2 DEF Fits
  <2>4. Follows(client, "reply", Append(At, s))
    BY <1>1, <2>2, <2>3, FollowsLonger
  <2> QED
    BY <2>1, <2>4
<1> QED
  BY <1>3 DEF Reaches

LEMMA ElementsReach ==
    ASSUME TypeInv, ObjectInv, phase = "reading", message = "reply", More,
           Field.shape = "list", NEW b,
           b.in = "list", b.of = Field.of, b.path = At, b.count \in Nat
    PROVE  Reaches(b, "reply")
<1>1. /\ Follows(client, "reply", At) /\ At \in Paths /\ Last(At) = Here
      /\ Field = FieldAt(client, "reply", Here)
      /\ client \in Releases /\ Field \in FieldType
  BY HereFollows
<1>2. Field.of \in Parcelables \cup Unions
  BY <1>1, FieldTypes
<1>3. ASSUME NEW k \in 1..b.count
      PROVE  Follows(client, "reply", Append(b.path, Step(b.in, b.of, k)))
  <2>1. PICK s : s = Step("list", Field.of, k)
    OBVIOUS
  <2>2. /\ s \in Steps /\ s.in = "list" /\ s.of = Field.of /\ s.nr # 0
    <3>1. k \in Nat /\ k # 0 /\ Field.of \in Types
      BY <1>2 DEF Types
    <3> QED
      BY <2>1, <3>1, PathTypes DEF Step
  <2>3. Fits(client, "reply", Last(At), s)
    BY <1>1, <2>2 DEF Fits
  <2>4. Follows(client, "reply", Append(At, s))
    BY <1>1, <2>2, <2>3, FollowsLonger
  <2> QED
    BY <2>1, <2>4
<1> QED
  BY <1>3 DEF Reaches

\* The activations of the client's reader go on with what they read.
LEMMA ReachesOn ==
    ASSUME TypeInv, ObjectInv, phase = "reading", message = "reply", UNCHANGED client
    PROVE  /\ stack' = Stepped => \A i \in DOMAIN stack' : Reaches(stack[i], "reply")'
           /\ \A b \in Activations :
                 stack' = Append(Stepped, b) /\ Reaches(b, "reply")
                 => \A i \in DOMAIN stack' : Reaches(stack[i], "reply")'
           /\ stack' = Front(stack) => \A i \in DOMAIN stack' : Reaches(stack[i], "reply")'
<1>1. /\ stack \in Seq(Activations) /\ stack # <<>> /\ DOMAIN stack = 1..Len(stack)
      /\ Len(stack) \in Nat \ {0} /\ Top = stack[Len(stack)] /\ Top \in Activations
  <2>1. stack \in Seq(Activations) /\ stack # <<>>
    BY DEF TypeInv, Running
  <2> QED
    BY <2>1, NextField, LenProperties
<1>2. PICK n : n = Len(stack)
  OBVIOUS
<1>3. \A i \in 1..n : Reaches(stack[i], "reply")
  BY <1>1, <1>2 DEF ObjectInv
<1>4. ASSUME NEW a, Reaches(a, "reply") PROVE Reaches(a, "reply")'
  BY <1>4 DEF Reaches
<1>5. /\ Stepped \in Seq(Activations) /\ Len(Stepped) = n /\ DOMAIN Stepped = 1..n
      /\ \A i \in 1..n - 1 : Stepped[i] = stack[i]
      /\ Stepped[n].path = Top.path /\ Stepped[n].in = Top.in /\ Stepped[n].of = Top.of
      /\ Stepped[n].count = Top.count
  <2>1. /\ Stepped \in Seq(Activations) /\ Len(Stepped) = n
        /\ \A i \in 1..n - 1 : Stepped[i] = stack[i]
        /\ Stepped[n] = [Top EXCEPT !.next = @ + 1]
    BY <1>1, <1>2, SteppedIs
  <2> QED
    BY <1>1, <2>1, LenProperties DEF Activations
<1>6. \A i \in 1..n : Reaches(Stepped[i], "reply")
  <2>1. Reaches(Stepped[n], "reply")
    <3>1. n \in 1..n /\ Top = stack[n]
      <4>1. n \in Nat \ {0}
        BY <1>1, <1>2
      <4> QED
        BY <1>1, <1>2, <4>1
    <3>2. Reaches(Top, "reply")
      BY <1>3, <3>1
    <3> QED
      BY <1>5, <3>2 DEF Reaches
  <2>2. \A i \in 1..n : i = n \/ i \in 1..n - 1
    <3>1. n \in Nat \ {0}
      BY <1>1, <1>2
    <3> QED
      BY <3>1
  <2> QED
    BY <1>3, <1>5, <2>1, <2>2
<1>7. ASSUME stack' = Stepped, NEW i \in DOMAIN stack' PROVE Reaches(stack[i], "reply")'
  <2>1. PICK a : a = Stepped[i]
    OBVIOUS
  <2>2. Reaches(a, "reply") /\ stack'[i] = a
    BY <1>5, <1>6, <1>7, <2>1
  <2>3. Reaches(a, "reply")'
    BY <1>4, <2>2
  <2> QED
    BY <2>2, <2>3 DEF Reaches
<1>8. ASSUME NEW b \in Activations, stack' = Append(Stepped, b), Reaches(b, "reply"),
             NEW i \in DOMAIN stack'
      PROVE  Reaches(stack[i], "reply")'
  <2>1. /\ Len(stack') = n + 1 /\ DOMAIN stack' = 1..n + 1 /\ stack'[n + 1] = b
        /\ \A j \in 1..n : stack'[j] = Stepped[j]
    BY <1>5, <1>8, AppendProperties, LenProperties
  <2>2. PICK a : a = stack'[i]
    OBVIOUS
  <2>3. i \in 1..n \/ i = n + 1
    BY <1>1, <1>2, <2>1
  <2>4. Reaches(a, "reply")
    BY <1>6, <1>8, <2>1, <2>2, <2>3
  <2>5. Reaches(a, "reply")'
    BY <1>4, <2>4
  <2> QED
    BY <2>2, <2>5 DEF Reaches
<1>9. ASSUME stack' = Front(stack), NEW i \in DOMAIN stack' PROVE Reaches(stack[i], "reply")'
  <2>1. /\ Len(stack') = n - 1 /\ DOMAIN stack' = 1..n - 1
        /\ \A j \in 1..n - 1 : stack'[j] = stack[j]
    BY <1>1, <1>2, <1>9, FrontIs, LenProperties
  <2>2. PICK a : a = stack[i]
    OBVIOUS
  <2>3. i \in 1..n - 1 /\ i \in 1..n
    BY <1>1, <1>2, <2>1
  <2>4. Reaches(a, "reply") /\ stack'[i] = a
    BY <1>3, <2>1, <2>2, <2>3
  <2>5. Reaches(a, "reply")'
    BY <1>4, <2>4
  <2> QED
    BY <2>4, <2>5 DEF Reaches
<1> QED
  BY <1>7, <1>8, <1>9

LEMMA ReadKeepsObject ==
    ASSUME TypeInv, ObjectInv, Read
    PROVE  ObjectInv'
<1>1. /\ phase = "reading" /\ UNCHANGED <<client, server, phase, message, wire, place>>
      /\ \A m \in DOMAIN got : m # message => got'[m] = got[m]
      /\ \A p \in DOMAIN got'[message] :
            \/ p \in DOMAIN got[message]
            \/ More /\ p = At
  BY ReadPuts
<1>2. DOMAIN got = {"request", "reply"} /\ message \in {"request", "reply"}
  BY DEF TypeInv, Objects, Scalars
<1>3. CASE message # "reply"
  <2>1. got'.reply = got.reply /\ message' # "reply"
    BY <1>1, <1>2, <1>3
  <2> QED
    BY <1>1, <2>1 DEF ObjectInv
<1>4. CASE message = "reply"
  <2>1. ASSUME NEW p \in DOMAIN got'.reply PROVE Follows(client, "reply", p)
    <3>1. CASE p \in DOMAIN got.reply
      BY <3>1 DEF ObjectInv
    <3>2. CASE More /\ p = At
      BY <1>1, <1>4, <3>2, HereFollows
    <3> QED
      BY <1>1, <1>4, <2>1, <3>1, <3>2
  <2>2. \A i \in DOMAIN stack' : Reaches(stack[i], "reply")'
    <3>1. CASE ReadWord \/ ReadNull
      <4>1. stack' = Stepped
        BY <3>1 DEF ReadWord, ReadNull
      <4> QED
        BY <1>1, <1>4, <4>1, ReachesOn
    <3>2. CASE ReadParcelable
      <4> DEFINE b == Body(Field.of, Reader, pos + 1, wire[pos + 1].val, At)
      <4>1. /\ More /\ Field.shape \in {"part", "maybe"} /\ Available(2)
            /\ Field.of \in Parcelables /\ stack' = Append(Stepped, b)
        BY <3>2 DEF ReadParcelable, ReadingBody, Reading
      <4>2. Reader = client
        BY <1>4 DEF Reader
      <4>3. /\ b.in = "fields" /\ b.of = Field.of /\ b.path = At
            /\ b.count = Len(Layout[Field.of][client])
        BY <4>2 DEF Body, Activation
      <4>4. b \in Activations
        <5>1. /\ Reader \in Releases /\ pos + 1 \in Nat
              /\ wire[pos + 1].val \in Nat /\ At \in Paths
          <6>1. /\ Reader \in Releases /\ pos \in Nat /\ At \in Paths
                /\ wire[pos + 1].val \in Nat
            BY <1>1, <4>1, ReadsField
          <6> QED
            BY <6>1
        <5>2. Len(Layout[Field.of][Reader]) \in Nat
          BY <4>1, <5>1, ConstantTypes, LenProperties
        <5> QED
          BY <4>1, <5>1, <5>2 DEF Body, Activation, Activations, Types
      <4> HIDE DEF b
      <4>5. Reaches(b, "reply")
        BY <1>1, <1>4, <4>1, <4>3, BodyReaches
      <4> QED
        BY <1>1, <1>4, <4>1, <4>4, <4>5, ReachesOn
    <3>3. CASE ReadVector
      <4> DEFINE b == Elements(Field.of, wire[pos].val, At)
      <4>1. /\ More /\ Field.shape = "list" /\ Available(1) /\ stack' = Append(Stepped, b)
        BY <3>3 DEF ReadVector, Reading
      <4>2. /\ b.in = "list" /\ b.of = Field.of /\ b.path = At /\ b.count = wire[pos].val
        BY DEF Elements, Activation
      <4>3. b \in Activations /\ b.count \in Nat
        <5>1. Field \in FieldType /\ At \in Paths /\ wire[pos].val \in Nat
          BY <1>1, <4>1, ReadsField
        <5>2. Field.of \in Parcelables \cup Unions
          BY <4>1, <5>1, FieldTypes
        <5> QED
          BY <5>1, <5>2 DEF Elements, Activation, Activations, Types
      <4> HIDE DEF b
      <4>4. Reaches(b, "reply")
        BY <1>1, <1>4, <4>1, <4>2, <4>3, ElementsReach
      <4> QED
        BY <1>1, <1>4, <4>1, <4>3, <4>4, ReachesOn
    <3>5. CASE ReadUnion
      <4> DEFINE b == Value(Arms[Field.of][Reader][wire[pos + 1].val], At)
      <4>1. /\ More /\ Field.shape \in {"part", "maybe"} /\ Field.of \in Unions
            /\ wire[pos + 1].val \in DOMAIN Arms[Field.of][Reader]
            /\ stack' = Append(Stepped, b)
        BY <3>5 DEF ReadUnion, ReadingBody, Reading
      <4>2. Reader = client /\ client \in Releases
        BY <1>4 DEF Reader, TypeInv, Scalars
      <4>3. At \in Paths
        BY <1>1, <4>1, ReadsField
      <4>4. b \in Activations
        <5>1. Arms[Field.of][Reader][wire[pos + 1].val] \in Variants
          BY <4>1, <4>2, TagArm
        <5> QED
          BY <4>3, <5>1, ValueType
      <4>5. /\ b.in = "arm" /\ b.of = Arms[Field.of][client][wire[pos + 1].val]
            /\ b.path = At /\ b.count = 1
        BY <4>2 DEF Value, Activation
      <4> HIDE DEF b
      <4>6. Reaches(b, "reply")
        BY <1>1, <1>4, <4>1, <4>2, <4>5, ArmReaches
      <4> QED
        BY <1>1, <1>4, <4>1, <4>4, <4>6, ReachesOn
    <3>4. CASE SkipAbsent \/ EndRead
      <4>1. stack' = Front(stack)
        BY <3>4 DEF SkipAbsent, EndRead, Leave
      <4> QED
        BY <1>1, <1>4, <4>1, ReachesOn
    <3> QED
      BY <3>1, <3>2, <3>3, <3>4, <3>5 DEF Read
  <2>3. \A p \in DOMAIN got'.reply : Follows(client, "reply", p)'
    BY <1>1, <2>1
  <2> QED
    BY <2>2, <2>3 DEF ObjectInv
<1> QED
  BY <1>3, <1>4

LEMMA ObjectInit == Init => ObjectInv
  BY DEF Init, ObjectInv, Empty

LEMMA ObjectNext ==
    ASSUME TypeInv, ObjectInv, [Next]_vars
    PROVE  ObjectInv'
<1>1. ASSUME UNCHANGED client, got'.reply = got.reply,
             \/ phase' # "reading" \/ message' # "reply"
      PROVE  ObjectInv'
  <2>1. \A p \in DOMAIN got'.reply : Follows(client, "reply", p)
    BY <1>1 DEF ObjectInv
  <2>2. \A p \in DOMAIN got'.reply : Follows(client, "reply", p)'
    BY <1>1, <2>1
  <2> QED
    BY <1>1, <2>2 DEF ObjectInv
<1>2. CASE Connect \/ Call \/ WriteFails \/ Handle \/ Die \/ ReadFails \/ EndArguments \/ Return
  <2>1. /\ UNCHANGED <<client, got>> /\ phase' # "reading"
    BY <1>2 DEF Connect, Call, WriteFails, Handle, Die, ReadFails, EndArguments, Return,
                Ended, StartWriting
  <2> QED
    BY <1>1, <2>1
<1>3. CASE Write
  <2>1. UNCHANGED <<client, got, phase>> /\ phase = "writing"
    <3>1. ASSUME NEW cells, NEW where, Put(cells, where)
          PROVE  UNCHANGED <<client, got, phase>>
      BY <3>1 DEF Put
    <3>2. EndWrite => UNCHANGED <<client, got, phase>>
      BY DEF EndWrite
    <3>3. phase = "writing"
      BY <1>3 DEF Write, WriteWord, WriteUnion, WriteParcelable, WriteNull, WriteVector,
                  EndWrite, Writing
    <3> QED
      BY <1>3, <3>1, <3>2, <3>3
         DEF Write, WriteWord, WriteUnion, WriteParcelable, WriteNull, WriteVector
  <2> QED
    BY <1>1, <2>1
<1>4. CASE Transact /\ phase' = "reading"
  <2>1. /\ UNCHANGED <<client, message>> /\ phase' = "reading"
        /\ stack' = <<Arguments(message)>>
        /\ message = "request" => got' = [got EXCEPT !.request = Empty]
        /\ message # "request" => got' = got
    BY <1>4 DEF Transact, Ended
  <2>2. DOMAIN got = {"request", "reply"} /\ message \in {"request", "reply"}
    BY DEF TypeInv, Objects, Scalars
  <2>3. got'.reply = got.reply
    BY <2>1, <2>2
  <2>4. CASE message = "request"
    BY <1>1, <2>1, <2>3, <2>4
  <2>5. CASE message = "reply"
    <3>1. \A p \in DOMAIN got'.reply : Follows(client, "reply", p)
      BY <2>3 DEF ObjectInv
    <3>2. \A p \in DOMAIN got'.reply : Follows(client, "reply", p)'
      BY <2>1, <3>1
    <3>3. DOMAIN stack' = {1} /\ stack'[1] = Arguments("reply")
      BY <2>1, <2>5
    <3>4. /\ Arguments("reply").in = "args" /\ Arguments("reply").of = "none"
          /\ Arguments("reply").path = <<>>
          /\ Arguments("reply").count = Len(Fields("reply"))
      BY DEF Arguments, Activation
    <3>5. Reaches(Arguments("reply"), "reply")
      BY <3>4, FollowsFirst DEF Reaches
    <3>6. Reaches(Arguments("reply"), "reply")'
      BY <2>1, <3>5 DEF Reaches, Arguments, Fields
    <3>7. \A i \in DOMAIN stack' : Reaches(stack[i], "reply")'
      BY <3>3, <3>6 DEF Reaches, Arguments, Fields
    <3> QED
      BY <3>2, <3>7 DEF ObjectInv
  <2> QED
    BY <2>2, <2>4, <2>5
<1>6. CASE Transact /\ phase' # "reading"
  <2>1. UNCHANGED <<client, got>>
    BY <1>6 DEF Transact, Ended
  <2> QED
    BY <1>1, <1>6, <2>1
<1>5. CASE UNCHANGED vars
  BY <1>5 DEF vars, ObjectInv, Reaches
<1> QED
  BY <1>2, <1>3, <1>4, <1>5, <1>6, ReadKeepsObject DEF Next

----------------------------------------------------------------------------
(* What the reader has behind it is in its object.                         *)

LEMMA PrefixIsUnder ==
    ASSUME NEW p \in Paths, NEW q \in Paths
    PROVE  /\ IsPrefix(p, q) <=> Under(p, q)
           /\ IsStrictPrefix(p, q) <=> Under(p, q) /\ p # q
<1>1. Len(p) \in Nat /\ Len(q) \in Nat /\ Len(p) \in 0..Len(p)
  BY PathIs
<1>2. SubSeq(p, 1, Len(p)) = p
  BY UnderItself, UnderPrefix
<1>3. ASSUME IsPrefix(p, q) PROVE Under(p, q)
  <2>1. Len(p) <= Len(q) /\ SubSeq(q, 1, Len(p)) = p
    BY <1>2, <1>3 DEF IsPrefix
  <2>2. Len(p) \in 0..Len(q)
    BY <1>1, <2>1
  <2>3. Under(SubSeq(q, 1, Len(p)), q)
    BY <2>2, PrefixIs
  <2> QED
    BY <2>1, <2>3
<1>4. ASSUME Under(p, q) PROVE IsPrefix(p, q)
  <2>1. Len(p) \in 0..Len(q) /\ SubSeq(q, 1, Len(p)) = p
    BY <1>4, UnderPrefix
  <2>2. Len(p) <= Len(q)
    BY <2>1
  <2> QED
    BY <1>2, <2>1, <2>2 DEF IsPrefix
<1> QED
  BY <1>3, <1>4 DEF IsStrictPrefix

\* Nodes of the parcel while it is read.
LEMMA NodeIs ==
    ASSUME TypeInv, phase = "reading", NEW e, Tree(e), NEW p \in DOMAIN place
    PROVE  /\ p \in Paths /\ p # <<>> /\ place[p] \in Nat \ {0} /\ place[p] <= Len(wire)
           /\ e[p] \in Nat /\ place[p] < e[p] /\ e[p] <= Len(wire) + 1 /\ Len(wire) \in Nat
           /\ CellAt(p).at = p /\ CellAt(p).kind \notin {"size", "tag"} /\ p \notin Open
           /\ \A q \in DOMAIN place : place[q] = place[p] => q = p
           /\ \A q \in DOMAIN place :
                 Under(p, q) <=> place[p] <= place[q] /\ place[q] < e[p]
<1>1. Extent(e, p) /\ Nested(e)
  BY DEF Tree
<1>2. Len(wire) \in Nat
  BY LenProperties DEF TypeInv, Parcel
<1>3. p \notin Open
  BY DEF Open
<1>4. ASSUME NEW q \in DOMAIN place, place[q] = place[p] PROVE q = p
  <2>1. CellAt(q).at = q /\ CellAt(p).at = p
    BY DEF Tree, Extent
  <2> QED
    BY <1>4, <2>1 DEF CellAt
<1> QED
  BY <1>1, <1>2, <1>3, <1>4 DEF Extent, Nested

\* Between an inner node and one below it is a field or element.
LEMMA ChildToward ==
    ASSUME TypeInv, phase = "reading", NEW e, Tree(e), NEW p \in DOMAIN place, Inner(p),
           NEW q \in DOMAIN place, Under(p, q), p # q
    PROVE  \E k \in 1..Count(p) : /\ Kid(p, k) \in DOMAIN place /\ Under(Kid(p, k), q)
                                  /\ q[Len(p) + 1] = Step(In(p), Of(p), k)
                                  /\ Len(p) + 1 \in 1..Len(q)
<1>1. p \in Paths /\ q \in Paths /\ Len(p) \in Nat /\ Len(q) \in Nat
  BY NodeIs, PathIs
<1>2. Len(p) < Len(q)
  <2>1. ~(Len(p) >= Len(q))
    BY <1>1, UnderEqual
  <2> QED
    BY <1>1, <2>1
<1>3. Len(p) + 1 \in 1..Len(q) /\ Len(p) + 1 \in 0..Len(q)
  BY <1>1, <1>2
<1>4. PICK c : c = SubSeq(q, 1, Len(p) + 1)
  OBVIOUS
<1>5. /\ c \in Paths /\ Len(c) = Len(p) + 1 /\ Under(c, q)
      /\ \A i \in 1..Len(p) + 1 : c[i] = q[i]
  BY <1>1, <1>3, <1>4, PrefixIs
<1>6. c \in DOMAIN place
  BY <1>3, <1>4 DEF Tree, Extent
<1>7. PICK t : t = q[Len(p) + 1]
  OBVIOUS
<1>8. t \in Steps /\ Append(p, t) \in Paths /\ Len(Append(p, t)) = Len(p) + 1
      /\ (\A i \in 1..Len(p) : Append(p, t)[i] = p[i]) /\ Append(p, t)[Len(p) + 1] = t
      /\ Front(Append(p, t)) = p /\ Last(Append(p, t)) = t
  <2>1. t \in Steps
    BY <1>1, <1>3, <1>7, PathIs
  <2> QED
    BY <1>1, <2>1, Longer
<1>9. c = Append(p, t)
  <2>1. \A i \in 1..Len(p) : p[i] = q[i]
    BY DEF Under
  <2>2. \A i \in 1..Len(p) + 1 : i \in 1..Len(p) \/ i = Len(p) + 1
    BY <1>1
  <2>3. \A i \in 1..Len(p) + 1 : c[i] = Append(p, t)[i]
    BY <1>5, <1>7, <1>8, <2>1, <2>2
  <2>4. c \in Seq(Steps) /\ Append(p, t) \in Seq(Steps)
    BY <1>5, <1>8, PathTypes
  <2> QED
    BY <1>5, <1>8, <2>3, <2>4, SeqEqual
<1>10. Front(c) = p /\ Last(c) = t /\ Placed(e, c)
  BY <1>6, <1>8, <1>9 DEF Tree
<1>12. c = Kid(p, t.nr) /\ t.nr \in 1..Count(p)
  BY <1>10 DEF Placed
<1>13. t = Step(In(p), Of(p), t.nr)
  <2>1. PICK s : s = Step(In(p), Of(p), t.nr)
    OBVIOUS
  <2>2. p \in Nodes /\ t.nr \in Nat
    BY <1>8 DEF Nodes, Steps
  <2>3. s \in Steps
    BY <2>1, <2>2, KidIs
  <2>4. Append(p, t) = Append(p, s)
    BY <1>9, <1>12, <2>1 DEF Kid
  <2> QED
    BY <1>1, <1>8, <2>1, <2>3, <2>4, LongerInjective
<1> QED
  BY <1>3, <1>5, <1>6, <1>7, <1>12, <1>13

\* A read puts these nodes into the object and leaves alone what is not below.

Puts(D) ==
    /\ At \in D
    /\ \A q \in DOMAIN place : q \in D <=> pos <= place[q] /\ place[q] < pos'
    /\ \A q \in D : /\ q \in DOMAIN place /\ Declares(Reader, q)
                    /\ q \in DOMAIN got'[message] /\ got'[message][q] = CellAt(q)
    /\ \A q \in DOMAIN got[message] :
          ~Under(At, q) => /\ q \in DOMAIN got'[message]
                           /\ got'[message][q] = got[message][q]
    /\ \A q \in DOMAIN got'[message] : q \in D \/ q \in DOMAIN got[message]

LEMMA FilledOn ==
    ASSUME TypeInv, phase = "reading", NEW e, Tree(e), Walking(e), More, ~Exhausted, Filled,
           UNCHANGED <<client, server, message, wire, place>>, pos' \in Nat, pos' >= pos,
           NEW D, Puts(D),
           1..Len(stack) \subseteq DOMAIN stack',
           \A j \in 1..Len(stack) : stack'[j] = Stepped[j],
           \A q \in DOMAIN got'[message] :
              Under(At, q) /\ q \notin D =>
                 message = "reply" /\ \E i \in DOMAIN stack' : Awaits(stack'[i], q)
    PROVE  Filled'
<1>1. Reader' = Reader /\ message' = message /\ place' = place /\ wire' = wire
  BY DEF Reader
<1>2. PICK a : a = At
  OBVIOUS
<1>3. /\ a \in DOMAIN place /\ pos = place[a] /\ pos \in Nat /\ a \in Paths
  BY <1>2, Standing DEF TypeInv
<1>4. ASSUME NEW q
      PROVE  Passed(q)' <=> q \in DOMAIN place /\ place[q] < pos' /\ Declares(Reader, q)
  BY <1>1 DEF Passed
<1>5. ASSUME NEW q, Passed(q) PROVE Passed(q)' /\ ~Under(a, q) /\ q \in DOMAIN place
  <2>1. q \in DOMAIN place /\ place[q] < pos /\ Declares(Reader, q)
    BY <1>5 DEF Passed
  <2>2. place[q] \in Nat
    BY <2>1, NodeIs
  <2>3. place[q] < pos'
    BY <1>3, <2>1, <2>2
  <2>4. ~Under(a, q)
    <3>1. Under(a, q) => place[a] <= place[q]
      BY <1>3, <2>1, NodeIs
    <3> QED
      BY <1>3, <2>1, <2>2, <3>1
  <2> QED
    BY <1>4, <2>1, <2>3, <2>4
<1>6. ASSUME NEW q \in D PROVE Passed(q)'
  <2>1. q \in DOMAIN place /\ Declares(Reader, q)
    BY DEF Puts
  <2>2. place[q] < pos'
    BY <2>1 DEF Puts
  <2> QED
    BY <1>4, <2>1, <2>2
<1>7. ASSUME NEW q, Passed(q)' PROVE Passed(q) \/ q \in D
  <2>1. q \in DOMAIN place /\ place[q] < pos' /\ Declares(Reader, q)
    BY <1>4, <1>7
  <2>2. CASE place[q] < pos
    BY <2>1, <2>2 DEF Passed
  <2>3. CASE ~(place[q] < pos)
    <3>1. place[q] \in Nat
      BY <2>1, NodeIs
    <3>2. pos <= place[q]
      BY <1>3, <2>3, <3>1
    <3> QED
      BY <2>1, <3>2 DEF Puts
  <2> QED
    BY <2>2, <2>3
<1>8. ASSUME NEW q, Passed(q)'
      PROVE  q \in DOMAIN got'[message] /\ got'[message][q] = CellAt(q)
  <2>1. CASE q \in D
    BY <2>1 DEF Puts
  <2>2. CASE Passed(q)
    <3>1. q \in DOMAIN place /\ ~Under(a, q)
      BY <1>5, <2>2
    <3>2. q \in DOMAIN got[message] /\ got[message][q] = CellAt(q)
      BY <2>2, <3>1 DEF Filled
    <3> QED
      BY <1>2, <3>1, <3>2 DEF Puts
  <2> QED
    BY <1>7, <1>8, <2>1, <2>2
<1>9. PICK n : n = Len(stack)
  OBVIOUS
<1>10. /\ n \in Nat \ {0} /\ Top = stack[n] /\ Top \in Activations /\ DOMAIN stack = 1..n
       /\ stack \in Seq(Activations) /\ stack # <<>>
  <2>1. /\ Len(stack) \in Nat \ {0} /\ Top = stack[Len(stack)] /\ Top \in Activations
        /\ stack \in Seq(Activations) /\ stack # <<>>
    BY TopReads
  <2> QED
    BY <1>9, <2>1, LenProperties
<1>11. /\ \A j \in 1..n - 1 : stack'[j] = stack[j] /\ j \in DOMAIN stack'
       /\ stack'[n] = [Top EXCEPT !.next = @ + 1] /\ n \in DOMAIN stack'
  <2>1. /\ \A i \in 1..n - 1 : Stepped[i] = stack[i]
        /\ Stepped[n] = [Top EXCEPT !.next = @ + 1]
    BY <1>9, <1>10, SteppedIs
  <2>2. n \in 1..n /\ \A i \in 1..n - 1 : i \in 1..n
    <3>1. n \in Nat \ {0}
      BY <1>10
    <3> QED
      BY <3>1
  <2> QED
    BY <1>9, <2>1, <2>2
<1>12. ASSUME NEW i \in DOMAIN stack, NEW q, Awaits(stack[i], q)
       PROVE  Under(a, q) \/ \E j \in DOMAIN stack' : Awaits(stack'[j], q)
  <2>1. CASE i # n
    <3>1. i \in 1..n - 1
      <4>1. n \in Nat \ {0} /\ i \in 1..n
        BY <1>10
      <4> QED
        BY <2>1, <4>1
    <3>2. stack'[i] = stack[i] /\ i \in DOMAIN stack'
      BY <1>11, <3>1
    <3>3. Awaits(stack'[i], q)
      BY <1>12, <3>2
    <3> QED
      BY <3>2, <3>3
  <2>2. CASE i = n
    <3>1. PICK k \in Top.next..Top.count : Under(Append(Top.path, Step(Top.in, Top.of, k)), q)
      BY <1>10, <1>12, <2>2 DEF Awaits
    <3>2. CASE k = Top.next
      BY <1>2, <3>1, <3>2 DEF At, Here
    <3>3. CASE k # Top.next
      <4>1. Top.next \in Nat /\ Top.count \in Nat
        BY <1>10 DEF Activations
      <4>2. k \in Top.next + 1..Top.count
        BY <3>1, <3>3, <4>1
      <4>3. /\ stack'[n].path = Top.path /\ stack'[n].in = Top.in /\ stack'[n].of = Top.of
            /\ stack'[n].count = Top.count /\ stack'[n].next = Top.next + 1
        BY <1>10, <1>11 DEF Activations
      <4>4. PICK b : b = stack'[n]
        OBVIOUS
      <4>5. Awaits(b, q)
        BY <3>1, <4>2, <4>3, <4>4 DEF Awaits
      <4> QED
        BY <1>11, <4>4, <4>5
    <3> QED
      BY <3>2, <3>3
  <2> QED
    BY <2>1, <2>2
<1>13. ASSUME NEW q \in DOMAIN got'[message]
       PROVE  \/ Passed(q)'
              \/ message = "reply" /\ \E i \in DOMAIN stack' : Awaits(stack'[i], q)
  <2>1. CASE q \in D
    BY <1>6, <2>1
  <2>2. CASE q \notin D /\ Under(a, q)
    BY <1>2, <1>13, <2>2
  <2>3. CASE q \notin D /\ ~Under(a, q)
    <3>1. q \in DOMAIN got[message]
      BY <1>13, <2>3 DEF Puts
    <3>2. CASE Passed(q)
      BY <1>5, <3>2
    <3>3. CASE message = "reply" /\ \E i \in DOMAIN stack : Awaits(stack[i], q)
      BY <1>12, <2>3, <3>3
    <3> QED
      BY <3>1, <3>2, <3>3 DEF Filled
  <2> QED
    BY <2>1, <2>2, <2>3
<1>14. \A q : CellAt(q)' = CellAt(q)
  BY <1>1 DEF CellAt
<1> QED
  BY <1>1, <1>8, <1>13, <1>14 DEF Filled

\* Which nodes lie where the reader stands.
LEMMA NodesHere ==
    ASSUME TypeInv, phase = "reading", Skewed,
           NEW e, Tree(e), Walking(e), More, ~Exhausted, NEW q \in DOMAIN place
    PROVE  /\ place[q] \in Nat /\ pos \in Nat
           /\ place[q] = pos <=> q = At
           /\ Field.shape \in {"part", "maybe"} /\ wire[pos].val # 0 => place[q] # pos + 1
<1>1. PICK a : a = At
  OBVIOUS
<1>2. /\ a \in DOMAIN place /\ pos = place[a] /\ pos \in Nat /\ place[q] \in Nat
      /\ Shaped(e, a)
  BY <1>1, Standing, SameField, NodeIs DEF TypeInv
<1>3. place[q] = pos <=> q = a
  BY <1>2, NodeIs
<1>5. ASSUME Field.shape \in {"part", "maybe"}, wire[pos].val # 0 PROVE place[q] # pos + 1
  <2>1. IsBody(a)
    BY <1>1, <1>5, FieldCells
  <2>2. HeadAt(a).kind \in {"size", "tag"}
    BY <1>2, <2>1 DEF Shaped
  <2>3. CellAt(q).kind \notin {"size", "tag"}
    BY NodeIs
  <2> QED
    BY <1>2, <2>2, <2>3 DEF CellAt, HeadAt
<1> QED
  BY <1>1, <1>2, <1>3, <1>5

\* What is left below a field the reader comes to was left by an earlier call,
\* and is what the field's type can hold.
LEMMA Stale ==
    ASSUME TypeInv, ObjectInv, phase = "reading", NEW e, Tree(e), Walking(e), More, ~Exhausted,
           Filled, NEW q \in DOMAIN got[message], Under(At, q), q # At
    PROVE  /\ message = "reply" /\ At \in Paths /\ q \in Paths
           /\ \E t \in Steps :
                 /\ t = q[Len(At) + 1] /\ Under(Append(At, t), q)
                 /\ \/ /\ Field.shape \in {"part", "maybe"} /\ Field.of \in Parcelables
                       /\ t.in = "fields" /\ t.of = Field.of
                       /\ t.nr \in 1..Len(Layout[Field.of][Reader])
                    \/ Field.shape = "list" /\ t.in = "list" /\ t.of = Field.of /\ t.nr # 0
                    \/ Field.shape \in {"part", "maybe"} /\ Field.of \in Unions
<1>1. PICK a : a = At
  OBVIOUS
<1>2. a \in DOMAIN place /\ pos = place[a] /\ pos \in Nat /\ a \in Paths /\ a # <<>>
  BY <1>1, Standing DEF TypeInv
<1>3. ~Passed(q)
  <2> SUFFICES ASSUME Passed(q) PROVE FALSE
    OBVIOUS
  <2>1. q \in DOMAIN place /\ place[q] < pos /\ place[q] \in Nat
    BY NodeIs DEF Passed
  <2>2. place[a] <= place[q]
    BY <1>1, <1>2, <2>1, NodeIs
  <2> QED
    BY <1>2, <2>1, <2>2
<1>4. message = "reply"
  BY <1>3 DEF Filled
<1>5. q \in Paths /\ Follows(client, "reply", q)
  <2>1. message \in DOMAIN got /\ IsFull(got[message])
    BY ReadsField
  <2>2. DOMAIN got[message] = DOMAIN got.reply
    BY <1>4
  <2> QED
    BY <2>1, <2>2 DEF IsFull, ObjectInv
<1>6. /\ Last(a) = Here /\ Field = FieldAt(client, "reply", Here) /\ Reader = client
  BY <1>1, <1>4, HereFollows DEF Reader
<1>7. PICK t : t = q[Len(a) + 1]
  OBVIOUS
<1>8. t \in Steps /\ Fits(client, "reply", Here, t) /\ Under(Append(a, t), q)
  BY <1>1, <1>2, <1>5, <1>6, <1>7, FollowsBelow
<1>9. \/ /\ Field.shape \in {"part", "maybe"} /\ Field.of \in Parcelables
         /\ t.in = "fields" /\ t.of = Field.of
         /\ t.nr \in 1..Len(Layout[Field.of][Reader])
      \/ Field.shape = "list" /\ t.in = "list" /\ t.of = Field.of /\ t.nr # 0
      \/ Field.shape \in {"part", "maybe"} /\ Field.of \in Unions
  BY <1>6, <1>8 DEF Fits
<1> QED
  BY <1>1, <1>2, <1>4, <1>5, <1>7, <1>8, <1>9

LEMMA StackOn ==
    ASSUME TypeInv, stack # <<>>
    PROVE  /\ stack' = Stepped =>
                 /\ 1..Len(stack) \subseteq DOMAIN stack'
                 /\ \A j \in 1..Len(stack) : stack'[j] = Stepped[j]
           /\ \A b \in Activations : stack' = Append(Stepped, b) =>
                 /\ 1..Len(stack) \subseteq DOMAIN stack'
                 /\ \A j \in 1..Len(stack) : stack'[j] = Stepped[j]
                 /\ Len(stack) + 1 \in DOMAIN stack' /\ stack'[Len(stack) + 1] = b
<1>1. stack \in Seq(Activations) /\ Len(stack) \in Nat
  BY LenProperties DEF TypeInv, Running
<1>2. Stepped \in Seq(Activations) /\ Len(Stepped) = Len(stack)
  BY <1>1, SteppedIs
<1>3. DOMAIN Stepped = 1..Len(stack)
  BY <1>2, LenProperties
<1>4. ASSUME NEW b \in Activations, stack' = Append(Stepped, b)
      PROVE  /\ 1..Len(stack) \subseteq DOMAIN stack'
             /\ \A j \in 1..Len(stack) : stack'[j] = Stepped[j]
             /\ Len(stack) + 1 \in DOMAIN stack' /\ stack'[Len(stack) + 1] = b
  <2>1. /\ stack' \in Seq(Activations) /\ Len(stack') = Len(stack) + 1
        /\ \A j \in 1..Len(stack) : stack'[j] = Stepped[j]
        /\ stack'[Len(stack) + 1] = b
    BY <1>2, <1>4, AppendProperties
  <2>2. DOMAIN stack' = 1..Len(stack) + 1
    BY <2>1, LenProperties
  <2>3. /\ Len(stack) + 1 \in 1..Len(stack) + 1
        /\ \A j \in 1..Len(stack) : j \in 1..Len(stack) + 1
    BY <1>1
  <2> QED
    BY <2>1, <2>2, <2>3
<1> QED
  BY <1>3, <1>4

LEMMA ReadWordFills ==
    ASSUME TypeInv, Skewed, ObjectInv, NEW e, Tree(e), Walking(e),
           Filled, ReadWord
    PROVE  Filled'
<1> DEFINE o == got[message]
           o2 == Set(o, At, wire[pos])
<1>1. /\ phase = "reading" /\ More /\ ~Exhausted /\ Field.shape = "word" /\ Available(1)
      /\ stack' = Stepped /\ Take(1, o2)
  BY DEF ReadWord, Reading
<1>2. /\ UNCHANGED <<client, server, message, wire, place>> /\ pos' = pos + 1
      /\ got' = [got EXCEPT ![message] = o2]
  BY <1>1 DEF Take
<1>3. /\ message \in DOMAIN got /\ IsFull(o) /\ At \in Paths /\ wire[pos] \in Cells
      /\ stack # <<>>
  BY <1>1, ReadsField
<1>4. /\ DOMAIN o2 = DOMAIN o \cup {At} /\ o2[At] = wire[pos]
      /\ \A q \in DOMAIN o : q # At => o2[q] = o[q]
  <2>1. IsFull(o) /\ At \in Paths /\ wire[pos] \in Cells
    BY <1>3
  <2> HIDE DEF o
  <2>2. DOMAIN o2 = DOMAIN o \cup {At}
    BY <2>1, SetIs
  <2>3. o2[At] = wire[pos]
    BY DEF Set
  <2>4. \A q \in DOMAIN o : q # At => o2[q] = o[q]
    BY DEF Set
  <2> QED
    BY <2>2, <2>3, <2>4
<1>5. /\ At \in DOMAIN place /\ Declares(Reader, At) /\ wire[pos] = CellAt(At) /\ pos \in Nat
  BY <1>1, Standing, FieldCells DEF TypeInv
<1> HIDE DEF o2
<1>6. got'[message] = o2
  BY <1>2, <1>3
<1>7. \A q \in DOMAIN o : ~Under(At, q) => q # At
  BY <1>3, UnderItself
<1>8. \A q \in DOMAIN place : q \in {At} <=> pos <= place[q] /\ place[q] < pos'
  <2> TAKE q \in DOMAIN place
  <2>1. place[q] \in Nat /\ pos \in Nat /\ (place[q] = pos <=> q = At)
    BY <1>1, NodesHere
  <2>2. pos <= place[q] /\ place[q] < pos' <=> place[q] = pos
    BY <1>2, <2>1
  <2> QED
    BY <2>1, <2>2
<1>9. Puts({At})
  BY <1>4, <1>5, <1>6, <1>7, <1>8 DEF Puts
<1>10. ASSUME NEW q \in DOMAIN got'[message], Under(At, q), q \notin {At}
       PROVE  message = "reply" /\ \E i \in DOMAIN stack' : Awaits(stack'[i], q)
  <2>1. q \in DOMAIN o /\ q # At
    BY <1>4, <1>6, <1>10
  <2>2. Field.shape \in {"part", "maybe", "list"}
    BY <1>1, <1>10, <2>1, Stale
  <2> QED
    BY <1>1, <2>2
<1>11. pos' \in Nat /\ pos' >= pos
  BY <1>2, <1>5
<1>12. /\ 1..Len(stack) \subseteq DOMAIN stack'
       /\ \A j \in 1..Len(stack) : stack'[j] = Stepped[j]
  BY <1>1, <1>3, StackOn
<1> QED
  BY <1>1, <1>2, <1>9, <1>10, <1>11, <1>12, FilledOn

LEMMA ReadNullFills ==
    ASSUME TypeInv, Skewed, ObjectInv, NEW e, Tree(e), Walking(e),
           Filled, ReadNull
    PROVE  Filled'
<1> DEFINE o == got[message]
           base == Without(o, At)
           o2 == Set(base, At, wire[pos])
<1>1. /\ phase = "reading" /\ More /\ ~Exhausted /\ Field.shape = "maybe" /\ Available(1)
      /\ stack' = Stepped /\ Take(1, o2)
  BY DEF ReadNull, Reading
<1>2. /\ UNCHANGED <<client, server, message, wire, place>> /\ pos' = pos + 1
      /\ got' = [got EXCEPT ![message] = o2]
  BY <1>1 DEF Take
<1>3. /\ message \in DOMAIN got /\ IsFull(o) /\ At \in Paths /\ wire[pos] \in Cells
      /\ stack # <<>>
  BY <1>1, ReadsField
<1>4. /\ IsFull(base) /\ DOMAIN base \subseteq DOMAIN o
      /\ \A q \in DOMAIN o : q \in DOMAIN base <=> ~Under(At, q)
      /\ \A q \in DOMAIN base : base[q] = o[q]
  <2>1. /\ IsFull(base) /\ DOMAIN base \subseteq DOMAIN o
        /\ \A q \in DOMAIN o : q \in DOMAIN base <=> ~IsPrefix(At, q)
        /\ \A q \in DOMAIN base : base[q] = o[q]
    BY <1>3, WithoutIs
  <2>2. \A q \in DOMAIN o : IsPrefix(At, q) <=> Under(At, q)
    BY <1>3, PrefixIsUnder DEF IsFull
  <2> HIDE DEF base
  <2> QED
    BY <2>1, <2>2
<1> HIDE DEF base
<1>5. /\ DOMAIN o2 = DOMAIN base \cup {At} /\ o2[At] = wire[pos]
      /\ \A q \in DOMAIN base : q # At => o2[q] = base[q]
  BY <1>3, <1>4, SetIs
<1>6. /\ At \in DOMAIN place /\ Declares(Reader, At) /\ wire[pos] = CellAt(At) /\ pos \in Nat
  BY <1>1, Standing, FieldCells DEF TypeInv
<1> HIDE DEF o2
<1>7. got'[message] = o2
  BY <1>2, <1>3
<1>8. \A q \in DOMAIN o : ~Under(At, q) => q # At
  BY <1>3, UnderItself
<1>9. \A q \in DOMAIN place : q \in {At} <=> pos <= place[q] /\ place[q] < pos'
  <2> TAKE q \in DOMAIN place
  <2>1. place[q] \in Nat /\ pos \in Nat /\ (place[q] = pos <=> q = At)
    BY <1>1, NodesHere
  <2>2. pos <= place[q] /\ place[q] < pos' <=> place[q] = pos
    BY <1>2, <2>1
  <2> QED
    BY <2>1, <2>2
<1>10. Puts({At})
  BY <1>4, <1>5, <1>6, <1>7, <1>8, <1>9 DEF Puts
<1>11. ASSUME NEW q \in DOMAIN got'[message], Under(At, q), q \notin {At} PROVE FALSE
  BY <1>4, <1>5, <1>7, <1>11
<1>12. pos' \in Nat /\ pos' >= pos
  BY <1>2, <1>6
<1>13. /\ 1..Len(stack) \subseteq DOMAIN stack'
       /\ \A j \in 1..Len(stack) : stack'[j] = Stepped[j]
  BY <1>1, <1>3, StackOn
<1> QED
  BY <1>1, <1>2, <1>10, <1>11, <1>12, <1>13, FilledOn

LEMMA ReadUnionFills ==
    ASSUME TypeInv, Skewed, ObjectInv, NEW e, Tree(e), Walking(e),
           Filled, ReadUnion
    PROVE  Filled'
<1> DEFINE o == got[message]
           base == Without(o, At)
           o2 == Set(base, At, wire[pos])
           b == Value(Arms[Field.of][Reader][wire[pos + 1].val], At)
<1>1. /\ phase = "reading" /\ More /\ ~Exhausted /\ Field.shape \in {"part", "maybe"}
      /\ Available(2) /\ wire[pos].val # 0 /\ stack' = Append(Stepped, b) /\ Take(2, o2)
      /\ Field.of \in Unions /\ wire[pos + 1].val \in DOMAIN Arms[Field.of][Reader]
  BY DEF ReadUnion, ReadingBody, Reading
<1>2. /\ UNCHANGED <<client, server, message, wire, place>> /\ pos' = pos + 2
      /\ got' = [got EXCEPT ![message] = o2]
  BY <1>1 DEF Take
<1>3. /\ message \in DOMAIN got /\ IsFull(o) /\ At \in Paths /\ wire[pos] \in Cells
      /\ wire[pos + 1].val \in Nat /\ stack # <<>> /\ Field \in FieldType /\ Reader \in Releases
  BY <1>1, ReadsField
<1>4. /\ IsFull(base) /\ DOMAIN base \subseteq DOMAIN o
      /\ \A q \in DOMAIN o : q \in DOMAIN base <=> ~Under(At, q)
      /\ \A q \in DOMAIN base : base[q] = o[q]
  <2>1. /\ IsFull(base) /\ DOMAIN base \subseteq DOMAIN o
        /\ \A q \in DOMAIN o : q \in DOMAIN base <=> ~IsPrefix(At, q)
        /\ \A q \in DOMAIN base : base[q] = o[q]
    BY <1>3, WithoutIs
  <2>2. \A q \in DOMAIN o : IsPrefix(At, q) <=> Under(At, q)
    BY <1>3, PrefixIsUnder DEF IsFull
  <2> HIDE DEF base
  <2> QED
    BY <2>1, <2>2
<1> HIDE DEF base
<1>5. /\ DOMAIN o2 = DOMAIN base \cup {At} /\ o2[At] = wire[pos]
      /\ \A q \in DOMAIN base : q # At => o2[q] = base[q]
  BY <1>3, <1>4, SetIs
<1>6. /\ At \in DOMAIN place /\ Declares(Reader, At) /\ wire[pos] = CellAt(At) /\ pos \in Nat
  BY <1>1, Standing, FieldCells DEF TypeInv
<1> HIDE DEF o2
<1>7. got'[message] = o2
  BY <1>2, <1>3
<1>8. \A q \in DOMAIN o : ~Under(At, q) => q # At
  BY <1>3, UnderItself
<1>9. \A q \in DOMAIN place : q \in {At} <=> pos <= place[q] /\ place[q] < pos'
  <2> TAKE q \in DOMAIN place
  <2>1. /\ place[q] \in Nat /\ pos \in Nat /\ (place[q] = pos <=> q = At)
        /\ place[q] # pos + 1
    BY <1>1, NodesHere
  <2>2. pos <= place[q] /\ place[q] < pos' <=> place[q] = pos
    BY <1>2, <2>1
  <2> QED
    BY <2>1, <2>2
<1>10. Puts({At})
  BY <1>4, <1>5, <1>6, <1>7, <1>8, <1>9 DEF Puts
<1>11. b \in Activations
  <2>1. Arms[Field.of][Reader][wire[pos + 1].val] \in Variants
    BY <1>1, <1>3, TagArm
  <2> QED
    BY <1>3, <2>1, ValueType
<1> HIDE DEF b
<1>12. /\ 1..Len(stack) \subseteq DOMAIN stack'
       /\ \A j \in 1..Len(stack) : stack'[j] = Stepped[j]
       /\ Len(stack) + 1 \in DOMAIN stack' /\ stack'[Len(stack) + 1] = b
  BY <1>1, <1>3, <1>11, StackOn
<1>13. ASSUME NEW q \in DOMAIN got'[message], Under(At, q), q \notin {At} PROVE FALSE
  BY <1>4, <1>5, <1>7, <1>13
<1>14. pos' \in Nat /\ pos' >= pos
  BY <1>2, <1>6
<1> QED
  BY <1>1, <1>2, <1>10, <1>12, <1>13, <1>14, FilledOn

LEMMA ReadParcelableFills ==
    ASSUME TypeInv, Skewed, ObjectInv, NEW e, Tree(e), Walking(e),
           Filled, ReadParcelable
    PROVE  Filled'
<1> DEFINE o == got[message]
           base == IF Field.shape = "maybe" THEN Without(o, At) ELSE o
           o2 == Set(base, At, wire[pos])
           b == Body(Field.of, Reader, pos + 1, wire[pos + 1].val, At)
<1>1. /\ phase = "reading" /\ More /\ ~Exhausted /\ Field.shape \in {"part", "maybe"}
      /\ Available(2) /\ wire[pos].val # 0 /\ stack' = Append(Stepped, b) /\ Take(2, o2)
      /\ Field.of \in Parcelables
  BY DEF ReadParcelable, ReadingBody, Reading
<1>2. /\ UNCHANGED <<client, server, message, wire, place>> /\ pos' = pos + 2
      /\ got' = [got EXCEPT ![message] = o2]
  BY <1>1 DEF Take
<1>3. /\ message \in DOMAIN got /\ IsFull(o) /\ At \in Paths /\ wire[pos] \in Cells
      /\ wire[pos + 1].val \in Nat /\ stack # <<>> /\ Field \in FieldType /\ Reader \in Releases
  BY <1>1, ReadsField
<1>4. /\ IsFull(base) /\ DOMAIN base \subseteq DOMAIN o
      /\ \A q \in DOMAIN o : ~Under(At, q) => q \in DOMAIN base
      /\ Field.shape = "maybe" => \A q \in DOMAIN base : ~Under(At, q)
      /\ \A q \in DOMAIN base : base[q] = o[q]
  <2>1. CASE Field.shape = "maybe"
    <3> DEFINE w == Without(o, At)
    <3>1. /\ IsFull(w) /\ DOMAIN w \subseteq DOMAIN o
          /\ \A q \in DOMAIN o : q \in DOMAIN w <=> ~IsPrefix(At, q)
          /\ \A q \in DOMAIN w : w[q] = o[q]
      BY <1>3, WithoutIs
    <3>2. \A q \in DOMAIN o : IsPrefix(At, q) <=> Under(At, q)
      BY <1>3, PrefixIsUnder DEF IsFull
    <3>3. base = w
      BY <2>1
    <3> HIDE DEF w, base
    <3> QED
      BY <3>1, <3>2, <3>3
  <2>2. CASE Field.shape # "maybe"
    <3>1. base = o
      BY <2>2
    <3> HIDE DEF base
    <3> QED
      BY <1>3, <2>2, <3>1
  <2> QED
    BY <2>1, <2>2
<1> HIDE DEF base
<1>5. /\ DOMAIN o2 = DOMAIN base \cup {At} /\ o2[At] = wire[pos]
      /\ \A q \in DOMAIN base : q # At => o2[q] = base[q]
  BY <1>3, <1>4, SetIs
<1>6. /\ At \in DOMAIN place /\ Declares(Reader, At) /\ wire[pos] = CellAt(At) /\ pos \in Nat
  BY <1>1, Standing, FieldCells DEF TypeInv
<1> HIDE DEF o2
<1>7. got'[message] = o2
  BY <1>2, <1>3
<1>8. \A q \in DOMAIN o : ~Under(At, q) => q # At
  BY <1>3, UnderItself
<1>9. \A q \in DOMAIN place : q \in {At} <=> pos <= place[q] /\ place[q] < pos'
  <2> TAKE q \in DOMAIN place
  <2>1. /\ place[q] \in Nat /\ pos \in Nat /\ (place[q] = pos <=> q = At)
        /\ place[q] # pos + 1
    BY <1>1, NodesHere
  <2>2. pos <= place[q] /\ place[q] < pos' <=> place[q] = pos
    BY <1>2, <2>1
  <2> QED
    BY <2>1, <2>2
<1>10. Puts({At})
  BY <1>4, <1>5, <1>6, <1>7, <1>8, <1>9 DEF Puts
<1>11. /\ b \in Activations /\ b.path = At /\ b.in = "fields" /\ b.of = Field.of
       /\ b.count = Len(Layout[Field.of][Reader]) /\ b.next = 1
  <2>1. Field.of \in Parcelables /\ pos + 1 \in Nat
    BY <1>1, <1>6
  <2>2. b \in Activations
    <3>1. Len(Layout[Field.of][Reader]) \in Nat /\ 1 \in Nat /\ Field.of \in Types
      BY <1>3, <2>1, ConstantTypes, LenProperties DEF Types
    <3> QED
      BY <1>3, <2>1, <3>1 DEF Body, Activation, Activations
  <2> QED
    BY <2>2 DEF Body, Activation
<1> HIDE DEF b
<1>12. /\ 1..Len(stack) \subseteq DOMAIN stack'
       /\ \A j \in 1..Len(stack) : stack'[j] = Stepped[j]
       /\ Len(stack) + 1 \in DOMAIN stack' /\ stack'[Len(stack) + 1] = b
  BY <1>1, <1>3, <1>11, StackOn
<1>13. ASSUME NEW q \in DOMAIN got'[message], Under(At, q), q \notin {At}
       PROVE  message = "reply" /\ \E i \in DOMAIN stack' : Awaits(stack'[i], q)
  <2>1. q \in DOMAIN base /\ q \in DOMAIN o /\ q # At /\ Field.shape # "maybe"
    BY <1>4, <1>5, <1>7, <1>13
  <2>2. /\ message = "reply"
        /\ \E t \in Steps :
              /\ Under(Append(At, t), q) /\ t.in = "fields" /\ t.of = Field.of
              /\ t.nr \in 1..Len(Layout[Field.of][Reader])
    <3>1. Field.of \notin Unions
      BY <1>1, ConstantTypes
    <3> QED
      BY <1>1, <1>13, <2>1, <3>1, Stale
  <2>3. PICK t \in Steps : /\ Under(Append(At, t), q) /\ t.in = "fields" /\ t.of = Field.of
                           /\ t.nr \in 1..Len(Layout[Field.of][Reader])
    BY <2>2
  <2>4. t = Step("fields", Field.of, t.nr)
    BY <2>3 DEF Steps, Step
  <2>5. Awaits(b, q)
    BY <1>11, <2>3, <2>4 DEF Awaits
  <2> QED
    BY <1>12, <2>2, <2>5
<1>14. pos' \in Nat /\ pos' >= pos
  BY <1>2, <1>6
<1> QED
  BY <1>1, <1>2, <1>10, <1>12, <1>13, <1>14, FilledOn

LEMMA ReadVectorFills ==
    ASSUME TypeInv, Skewed, ObjectInv, NEW e, Tree(e), Walking(e),
           Filled, ReadVector
    PROVE  Filled'
<1> DEFINE o == got[message]
           n == wire[pos].val
           base == Resized(o, At, n)
           o2 == Set(base, At, wire[pos])
           b == Elements(Field.of, n, At)
<1>1. /\ phase = "reading" /\ More /\ ~Exhausted /\ Field.shape = "list" /\ Available(1)
      /\ stack' = Append(Stepped, b) /\ Take(1, o2)
  BY DEF ReadVector, Reading
<1>2. /\ UNCHANGED <<client, server, message, wire, place>> /\ pos' = pos + 1
      /\ got' = [got EXCEPT ![message] = o2]
  BY <1>1 DEF Take
<1>3. /\ message \in DOMAIN got /\ IsFull(o) /\ At \in Paths /\ wire[pos] \in Cells
      /\ n \in Nat /\ stack # <<>> /\ Field \in FieldType
  BY <1>1, ReadsField
<1>4. /\ IsFull(base) /\ DOMAIN base \subseteq DOMAIN o
      /\ \A q \in DOMAIN o : q \in DOMAIN base
                             <=> ~(Under(At, q) /\ At # q /\ q[Len(At) + 1].nr > n)
      /\ \A q \in DOMAIN base : base[q] = o[q]
  <2> HIDE DEF n
  <2>1. /\ IsFull(base) /\ DOMAIN base \subseteq DOMAIN o
        /\ \A q \in DOMAIN o : q \in DOMAIN base
                               <=> ~(IsStrictPrefix(At, q) /\ q[Len(At) + 1].nr > n)
        /\ \A q \in DOMAIN base : base[q] = o[q]
    BY <1>3, ResizedIs
  <2>2. \A q \in DOMAIN o : IsStrictPrefix(At, q) <=> Under(At, q) /\ At # q
    BY <1>3, PrefixIsUnder DEF IsFull
  <2> HIDE DEF base
  <2> QED
    BY <2>1, <2>2
<1> HIDE DEF base
<1>5. /\ DOMAIN o2 = DOMAIN base \cup {At} /\ o2[At] = wire[pos]
      /\ \A q \in DOMAIN base : q # At => o2[q] = base[q]
  BY <1>3, <1>4, SetIs
<1>6. /\ At \in DOMAIN place /\ Declares(Reader, At) /\ wire[pos] = CellAt(At) /\ pos \in Nat
  BY <1>1, Standing, FieldCells DEF TypeInv
<1> HIDE DEF o2
<1>7. got'[message] = o2
  BY <1>2, <1>3
<1>8. \A q \in DOMAIN o : ~Under(At, q) => q # At
  BY <1>3, UnderItself
<1>9. \A q \in DOMAIN place : q \in {At} <=> pos <= place[q] /\ place[q] < pos'
  <2> TAKE q \in DOMAIN place
  <2>1. place[q] \in Nat /\ pos \in Nat /\ (place[q] = pos <=> q = At)
    BY <1>1, NodesHere
  <2>2. pos <= place[q] /\ place[q] < pos' <=> place[q] = pos
    BY <1>2, <2>1
  <2> QED
    BY <2>1, <2>2
<1>10. Puts({At})
  BY <1>4, <1>5, <1>6, <1>7, <1>8, <1>9 DEF Puts
<1>11. /\ b \in Activations /\ b.path = At /\ b.in = "list" /\ b.of = Field.of
       /\ b.count = n /\ b.next = 1
  <2>1. Field.of \in Types /\ 0 \in Nat /\ 1 \in Nat
    BY <1>1, <1>3, FieldTypes DEF Types
  <2> HIDE DEF n
  <2> QED
    BY <1>3, <2>1 DEF Elements, Activation, Activations
<1> HIDE DEF b
<1>12. /\ 1..Len(stack) \subseteq DOMAIN stack'
       /\ \A j \in 1..Len(stack) : stack'[j] = Stepped[j]
       /\ Len(stack) + 1 \in DOMAIN stack' /\ stack'[Len(stack) + 1] = b
  BY <1>1, <1>3, <1>11, StackOn
<1> HIDE DEF n
<1>13. ASSUME NEW q \in DOMAIN got'[message], Under(At, q), q \notin {At}
       PROVE  message = "reply" /\ \E i \in DOMAIN stack' : Awaits(stack'[i], q)
  <2>1. /\ q \in DOMAIN base /\ q \in DOMAIN o /\ q # At
        /\ ~(q[Len(At) + 1].nr > n)
    BY <1>4, <1>5, <1>7, <1>13
  <2>2. /\ message = "reply"
        /\ \E t \in Steps :
              /\ t = q[Len(At) + 1] /\ Under(Append(At, t), q)
              /\ t.in = "list" /\ t.of = Field.of /\ t.nr # 0
    BY <1>1, <1>13, <2>1, Stale
  <2>3. PICK t \in Steps : /\ t = q[Len(At) + 1] /\ Under(Append(At, t), q)
                           /\ t.in = "list" /\ t.of = Field.of /\ t.nr # 0
    BY <2>2
  <2>4. t = Step("list", Field.of, t.nr) /\ t.nr \in Nat
    BY <2>3 DEF Steps, Step
  <2>5. t.nr \in 1..n
    BY <1>3, <2>1, <2>3, <2>4
  <2>6. Awaits(b, q)
    BY <1>11, <2>3, <2>4, <2>5 DEF Awaits
  <2> QED
    BY <1>12, <2>2, <2>6
<1>14. pos' \in Nat /\ pos' >= pos
  BY <1>2, <1>6
<1> QED
  BY <1>1, <1>2, <1>10, <1>12, <1>13, <1>14, FilledOn

\* Where the reader is before it leaves, all that it declares is behind it.
LEMMA LeavesWhole ==
    ASSUME TypeInv, phase = "reading", NEW e, Tree(e), Walking(e), SkipAbsent \/ EndRead,
           NEW q \in DOMAIN place, place[q] < e[Top.path], Declares(Reader, q)
    PROVE  place[q] < pos
<1>1. PICK t : t = Top.path
  OBVIOUS
<1>2. /\ Len(stack) > 1 /\ t # <<>> /\ t \in DOMAIN place /\ t \in Paths /\ t \in Nodes
      /\ Inner(t) /\ Top.in = In(t) /\ Top.of = Of(t) /\ Top.next \in Nat \ {0}
      /\ Top.count \in Nat /\ Count(t) \in Nat
      /\ Top.next <= Top.count + 1 /\ Top.next <= Count(t) + 1
      /\ Top.count = IF Top.in = "fields" THEN Len(Layout[Top.of][Reader]) ELSE Count(t)
      /\ pos = IF Top.next = 1 THEN First(t) ELSE e[Kid(t, Top.next - 1)]
  BY <1>1, LeavesAt, BelowRoot, TopReads
<1>3. /\ place[q] \in Nat /\ e[t] \in Nat /\ place[t] \in Nat /\ pos \in Nat
  BY <1>2, NodeIs DEF TypeInv
<1>4. CASE pos >= e[t]
  BY <1>1, <1>3, <1>4
<1>5. CASE ~(pos >= e[t])
  <2>1. EndRead /\ Top.in = "fields"
    BY <1>1, <1>5, <1>2, <1>3, LeavesAt
  <2>2. Top.next = Len(Layout[Top.of][Reader]) + 1
    <3>1. ~(Top.next <= Top.count)
      BY <2>1 DEF EndRead, More
    <3> QED
      BY <1>2, <2>1, <3>1
  <2>3. Top.next # Count(t) + 1
    <3>1. Top.next = Count(t) + 1 => pos = End(e, t)
      BY <1>1, AtEnd
    <3> QED
      BY <1>2, <1>3, <1>5, <3>1 DEF End
  <2>4. Top.next \in 1..Count(t)
    BY <1>2, <2>3
  <2>5. PICK n : n = Kid(t, Top.next)
    OBVIOUS
  <2>6. n \in DOMAIN place /\ Placed(e, n) /\ n \in Paths
    <3>1. Open = {}
      BY DEF Open
    <3>2. n \in DOMAIN place
      BY <1>2, <2>4, <2>5, <3>1 DEF Tree, Complete
    <3> QED
      BY <3>2, NodeIs DEF Tree
  <2>7. /\ Front(n) = t /\ Last(n).nr = Top.next
    BY <1>2, <2>5, KidIs
  <2>8. /\ Top.next = 1 => place[n] = First(t)
        /\ \A j \in 1..Top.next - 1 : /\ Kid(t, j) \in DOMAIN place \ Open
                                      /\ e[Kid(t, j)] <= place[n]
        /\ Top.next > 1 => place[n] = e[Kid(t, Top.next - 1)]
    BY <2>6, <2>7 DEF Placed
  <2>9. pos = place[n]
    <3>1. Top.next = 1 \/ (Top.next # 1 /\ Top.next > 1)
      BY <1>2
    <3> QED
      BY <1>2, <2>8, <3>1
  <2>10. place[t] < pos
    <3>1. First(t) > place[t]
      BY <1>2, <1>3 DEF First
    <3>2. \A j \in 1..Top.next - 1 : place[t] < e[Kid(t, j)]
      <4> TAKE j \in 1..Top.next - 1
      <4>1. j \in Nat /\ Kid(t, j) \in DOMAIN place
        BY <1>2, <2>8
      <4>2. Under(t, Kid(t, j))
        <5>1. Step(In(t), Of(t), j) \in Steps
          BY <1>2, <4>1, KidIs
        <5> QED
          BY <1>2, <5>1, UnderLonger DEF Kid
      <4>3. place[t] <= place[Kid(t, j)]
        BY <1>2, <4>1, <4>2, NodeIs
      <4>4. place[Kid(t, j)] < e[Kid(t, j)] /\ place[Kid(t, j)] \in Nat
            /\ e[Kid(t, j)] \in Nat
        BY <4>1, NodeIs
      <4> QED
        BY <1>3, <4>3, <4>4
    <3>3. Top.next = 1 \/ (Top.next # 1 /\ Top.next - 1 \in 1..Top.next - 1)
      BY <1>2
    <3> QED
      BY <1>2, <1>3, <3>1, <3>2, <3>3
  <2> SUFFICES ASSUME ~(place[q] < pos) PROVE FALSE
    OBVIOUS
  <2>11. place[t] <= place[q] /\ q # t
    BY <1>3, <2>10
  <2>12. Under(t, q)
    BY <1>1, <1>2, <2>11, NodeIs
  <2>13. PICK k \in 1..Count(t) : /\ Kid(t, k) \in DOMAIN place /\ Under(Kid(t, k), q)
                                  /\ q[Len(t) + 1] = Step(In(t), Of(t), k)
                                  /\ Len(t) + 1 \in 1..Len(q)
    BY <1>2, <2>11, <2>12, ChildToward
  <2>14. k <= Len(Layout[Of(t)][Reader])
    <3>1. DOMAIN q = 1..Len(q)
      BY NodeIs, PathIs
    <3>2. q[Len(t) + 1].in = "fields" /\ q[Len(t) + 1].of = Of(t) /\ q[Len(t) + 1].nr = k
      <4>1. PICK s : s = Step(In(t), Of(t), k)
        OBVIOUS
      <4>2. s.in = In(t) /\ s.of = Of(t) /\ s.nr = k
        BY <4>1 DEF Step
      <4> QED
        BY <1>2, <2>1, <2>13, <4>1, <4>2
    <3> QED
      BY <2>13, <3>1, <3>2 DEF Declares
  <2>15. k \in 1..Top.next - 1
    BY <1>2, <2>2, <2>13, <2>14
  <2>16. e[Kid(t, k)] <= pos
    BY <2>8, <2>9, <2>15
  <2>17. place[q] < e[Kid(t, k)] /\ e[Kid(t, k)] \in Nat
    BY <2>13, NodeIs
  <2> QED
    BY <1>3, <2>16, <2>17
<1> QED
  BY <1>4, <1>5

\* A release the client accepts has at least the fields the client declares, so
\* no reply is short of any.
LEMMA NothingAbsent ==
    ASSUME TypeInv, Appends(client, server), phase = "reading", message = "reply",
           NEW e, Tree(e), Walking(e), SkipAbsent
    PROVE  FALSE
<1>1. PICK t : t = Top.path
  OBVIOUS
<1>2. /\ Len(stack) > 1 /\ t # <<>> /\ t \in DOMAIN place /\ t \in Paths /\ t \in Nodes
      /\ Inner(t) /\ Top.in = In(t) /\ Top.of = Of(t) /\ Top.next \in Nat \ {0}
      /\ Top.in = "fields" /\ Count(t) \in Nat /\ Top.count \in Nat
      /\ Top.count = Len(Layout[Top.of][Reader])
      /\ pos = IF Top.next = 1 THEN First(t) ELSE e[Kid(t, Top.next - 1)]
      /\ pos >= e[t]
  BY <1>1, LeavesAt, BelowRoot, TopReads
<1>3. Of(t) \in Parcelables /\ Count(t) = Len(Layout[Of(t)][server])
  <2>1. ~IsList(t) /\ ~IsUnion(t) /\ Of(t) \in Parcelables
    BY <1>2, InnerIs DEF In
  <2> QED
    BY <1>2, <2>1 DEF Count, Writer
<1>4. Len(Layout[Of(t)][client]) <= Len(Layout[Of(t)][server])
  <2>1. client \in Releases /\ server \in Releases
    BY DEF TypeInv, Scalars
  <2>2. IsPrefix(Layout[Of(t)][client], Layout[Of(t)][server])
    BY <1>3 DEF Appends
  <2> QED
    BY <2>2 DEF IsPrefix
<1>5. Top.next \in 1..Count(t)
  <2>1. Top.next <= Top.count
    BY DEF SkipAbsent, More
  <2>2. Top.count = Len(Layout[Of(t)][client])
    BY <1>2 DEF Reader
  <2> QED
    BY <1>2, <1>3, <1>4, <2>1, <2>2
<1>6. PICK n : n = Kid(t, Top.next)
  OBVIOUS
<1>7. n \in DOMAIN place /\ Placed(e, n)
  <2>1. Open = {}
    BY DEF Open
  <2>2. n \in DOMAIN place
    BY <1>2, <1>5, <1>6, <2>1 DEF Tree, Complete
  <2> QED
    BY <2>2 DEF Tree
<1>8. /\ Front(n) = t /\ Last(n).nr = Top.next
  BY <1>2, <1>6, KidIs
<1>9. /\ Top.next = 1 => place[n] = First(t)
      /\ Top.next > 1 => place[n] = e[Kid(t, Top.next - 1)]
      /\ e[n] <= End(e, t)
  BY <1>7, <1>8 DEF Placed
<1>10. pos = place[n]
  <2>1. Top.next = 1 \/ (Top.next # 1 /\ Top.next > 1)
    BY <1>2
  <2> QED
    BY <1>2, <1>9, <2>1
<1>11. place[n] < e[n] /\ place[n] \in Nat /\ e[n] \in Nat /\ e[t] \in Nat
  BY <1>2, <1>7, NodeIs
<1> QED
  BY <1>2, <1>9, <1>10, <1>11 DEF End

LEMMA LeaveFills ==
    ASSUME TypeInv, Appends(client, server), NEW e, Tree(e), Walking(e),
           phase = "reading", Filled, SkipAbsent \/ EndRead
    PROVE  Filled'
<1>1. /\ Len(stack) > 1 /\ stack' = Front(stack) /\ pos' = e[Top.path]
      /\ UNCHANGED <<client, server, message, wire, place, got>>
      /\ Top.path \in DOMAIN place
  BY LeavesAt, BelowRoot
<1>2. /\ Len(stack) \in Nat \ {0} /\ Top = stack[Len(stack)] /\ stack \in Seq(Activations)
      /\ stack # <<>> /\ Top.next \in Nat /\ Top.count \in Nat
  BY TopReads
<1>3. Reader' = Reader /\ pos \in Nat /\ e[Top.path] \in Nat
  BY <1>1, NodeIs DEF Reader, TypeInv
<1>4. ASSUME NEW q
      PROVE  Passed(q)' <=> q \in DOMAIN place /\ place[q] < e[Top.path] /\ Declares(Reader, q)
  BY <1>1, <1>3 DEF Passed
<1>5. ASSUME NEW q, Passed(q)' PROVE Passed(q)
  BY <1>4, <1>5, LeavesWhole DEF Passed
<1>6. ASSUME NEW q \in DOMAIN place, place[q] < pos PROVE place[q] < e[Top.path]
  <2>1. PICK t : t = Top.path
    OBVIOUS
  <2>2. /\ t \in DOMAIN place /\ t # <<>> /\ t \in Nodes /\ Inner(t) /\ Top.next \in Nat \ {0}
        /\ Count(t) \in Nat /\ Top.next <= Count(t) + 1
        /\ Top.in = In(t)
        /\ pos = IF Top.next = 1 THEN First(t) ELSE e[Kid(t, Top.next - 1)]
    BY <1>1, <2>1, TopReads, BelowRoot
  <2>3. /\ place[q] \in Nat /\ e[t] \in Nat /\ place[t] \in Nat /\ Open = {}
    BY <1>3, <2>1, <2>2, NodeIs DEF Open
  <2>4. CASE Top.next # 1
    <3>1. Top.next - 1 \in 1..Count(t)
      BY <2>2, <2>4
    <3>2. PICK k : k = Kid(t, Top.next - 1)
      OBVIOUS
    <3>3. k \in DOMAIN place /\ Placed(e, k)
      BY <2>2, <2>3, <3>1, <3>2 DEF Tree, Complete
    <3>4. Front(k) = t
      BY <2>2, <3>1, <3>2, KidIs
    <3>5. e[k] <= End(e, t)
      BY <3>3, <3>4 DEF Placed
    <3>6. e[k] <= e[t] /\ e[k] = pos
      BY <2>2, <2>4, <3>2, <3>5 DEF End
    <3> QED
      BY <1>3, <1>6, <2>1, <2>3, <3>6
  <2>5. CASE Top.next = 1
    <3>1. Complete(e, t)
      BY <2>2, <2>3 DEF Tree
    <3>2. CASE Count(t) = 0
      <4>1. First(t) = e[t]
        BY <2>2, <3>1, <3>2 DEF Complete, End
      <4> QED
        BY <1>6, <2>1, <2>2, <2>5, <4>1
    <3>3. CASE Count(t) # 0
      <4>1. 1 \in 1..Count(t)
        BY <2>2, <3>3
      <4>2. PICK k : k = Kid(t, 1)
        OBVIOUS
      <4>3. k \in DOMAIN place /\ Placed(e, k)
        BY <3>1, <4>1, <4>2 DEF Tree, Complete
      <4>4. Front(k) = t /\ Last(k).nr = 1
        BY <2>2, <4>2, KidIs
      <4>5. e[k] <= e[t] /\ place[k] = First(t) /\ place[k] < e[k]
            /\ place[k] \in Nat /\ e[k] \in Nat
        BY <2>2, <4>3, <4>4, NodeIs DEF Placed, End
      <4> QED
        BY <1>6, <2>1, <2>2, <2>3, <2>5, <4>5
    <3> QED
      BY <3>2, <3>3
  <2> QED
    BY <2>4, <2>5
<1>7. ASSUME NEW q, Passed(q) PROVE Passed(q)'
  BY <1>4, <1>6, <1>7 DEF Passed
<1>8. ASSUME NEW q, message = "reply", NEW i \in DOMAIN stack, Awaits(stack[i], q)
      PROVE  \E j \in DOMAIN stack' : Awaits(stack'[j], q)
  <2>1. EndRead
    BY <1>8, NothingAbsent
  <2>2. i # Len(stack)
    <3>1. ~(Top.next <= Top.count)
      BY <2>1 DEF EndRead, More
    <3>2. Top.next..Top.count = {}
      BY <1>2, <3>1
    <3>3. ~Awaits(Top, q)
      BY <3>2 DEF Awaits
    <3> QED
      BY <1>2, <1>8, <3>3
  <2>3. PICK n : n = Len(stack)
    OBVIOUS
  <2>4. i \in 1..n - 1
    <3>1. n \in Nat \ {0} /\ i \in 1..n
      BY <1>2, <2>3, LenProperties
    <3> QED
      BY <2>2, <2>3, <3>1
  <2>5. i \in DOMAIN stack' /\ stack'[i] = stack[i]
    <3>1. /\ stack' \in Seq(Activations) /\ Len(stack') = n - 1
          /\ \A j \in 1..n - 1 : stack'[j] = stack[j]
      BY <1>1, <1>2, <2>3, FrontIs
    <3>2. DOMAIN stack' = 1..n - 1
      BY <3>1, LenProperties
    <3> QED
      BY <2>4, <3>1, <3>2
  <2>6. Awaits(stack'[i], q)
    BY <1>8, <2>5
  <2> QED
    BY <2>5, <2>6
<1>9. \A q : CellAt(q)' = CellAt(q)
  BY <1>1 DEF CellAt
<1>10. \A q : Passed(q)' <=> Passed(q)
  BY <1>5, <1>7
<1>11. message' = message /\ place' = place /\ got' = got
  BY <1>1
<1>12. \A q \in DOMAIN place : Passed(q)' => q \in DOMAIN got[message]
                                             /\ got[message][q] = CellAt(q)
  BY <1>10 DEF Filled
<1>13. \A q \in DOMAIN got[message] :
          Passed(q)' \/ (message = "reply" /\ \E j \in DOMAIN stack' : Awaits(stack'[j], q))
  BY <1>8, <1>10 DEF Filled
<1> QED
  BY <1>9, <1>11, <1>12, <1>13 DEF Filled

LEMMA ReadFills ==
    ASSUME TypeInv, Appends(client, server), ObjectInv, NEW e, Tree(e), Walking(e),
           phase = "reading", Filled, Read
    PROVE  Filled'
<1>1. Skewed
  BY DEF Skewed
<1> QED
  BY <1>1, ReadWordFills, ReadUnionFills, ReadParcelableFills, ReadNullFills,
     ReadVectorFills, LeaveFills DEF Read

LEMMA TransactFills ==
    ASSUME TypeInv, ObjectInv, Transact, phase' = "reading", pos = 1
    PROVE  Filled'
<1>1. /\ UNCHANGED <<client, server, message, wire, place>> /\ pos' = 1
      /\ stack' = <<Arguments(message)>>
      /\ message = "request" => got' = [got EXCEPT !.request = Empty]
      /\ message # "request" => got' = got
  BY DEF Transact, Ended
<1>2. DOMAIN got = {"request", "reply"} /\ message \in {"request", "reply"}
  BY DEF TypeInv, Objects, Scalars
<1>3. ASSUME NEW q PROVE ~Passed(q)'
  <2>1. q \in DOMAIN place => place[q] \in Nat \ {0}
    <3>1. wire \in Seq(Cells)
      BY DEF TypeInv, Parcel
    <3>2. DOMAIN wire = 1..Len(wire) /\ Len(wire) \in Nat
      BY <3>1, LenProperties
    <3>3. q \in DOMAIN place => place[q] \in 1..Len(wire)
      BY <3>2 DEF TypeInv, Parcel
    <3> QED
      BY <3>2, <3>3
  <2>2. q \in DOMAIN place => ~(place[q] < 1)
    BY <2>1
  <2> QED
    BY <1>1, <2>2 DEF Passed
<1>4. CASE message = "request"
  <2>1. DOMAIN got'[message'] = {}
    BY <1>1, <1>2, <1>4, EmptyIsFull
  <2> QED
    BY <1>1, <1>3, <2>1 DEF Filled
<1>5. CASE message = "reply"
  <2>1. got' = got /\ DOMAIN stack' = {1} /\ stack'[1] = Arguments("reply")
    BY <1>1, <1>5
  <2>2. ASSUME NEW q \in DOMAIN got.reply PROVE Awaits(Arguments("reply"), q)
    <3>1. Follows(client, "reply", q) /\ q \in Paths
      BY DEF ObjectInv, TypeInv, Objects, IsFull
    <3>2. q # <<>> /\ q[1].in = "args" /\ q[1].of = "none" /\ q[1].nr \in 1..Len(Fields("reply"))
      BY <3>1 DEF Follows
    <3>3. Len(q) \in Nat \ {0} /\ q[1] \in Steps
      <4>1. Len(q) \in Nat \ {0}
        BY <3>1, <3>2, PathIs
      <4> QED
        BY <3>1, <4>1, PathIs
    <3>4. q[1] = Step("args", "none", q[1].nr)
      BY <3>2, <3>3 DEF Steps, Step
    <3>5. PICK p : p = Append(<<>>, q[1])
      OBVIOUS
    <3>6. Len(p) = 1 /\ p[1] = q[1]
      BY <3>5
    <3>7. Under(p, q)
      BY <3>3, <3>6 DEF Under
    <3>8. /\ Arguments("reply").in = "args" /\ Arguments("reply").of = "none"
          /\ Arguments("reply").path = <<>> /\ Arguments("reply").next = 1
          /\ Arguments("reply").count = Len(Fields("reply"))
      BY DEF Arguments, Activation
    <3> QED
      BY <3>2, <3>4, <3>5, <3>7, <3>8 DEF Awaits
  <2>3. \A q \in DOMAIN got'[message'] :
           message' = "reply" /\ \E i \in DOMAIN stack' : Awaits(stack'[i], q)
    BY <1>1, <1>5, <2>1, <2>2
  <2> QED
    BY <1>1, <1>3, <2>3 DEF Filled
<1> QED
  BY <1>2, <1>4, <1>5

\* At the end of a message the object is what was sent and is declared.
LEMMA FilledIsUnderstood ==
    ASSUME TypeInv, phase = "reading", NEW e, Tree(e), Walking(e), Filled,
           Len(stack) = 1, ~More
    PROVE  got[message] = Understood
<1>1. /\ DOMAIN stack = {1} /\ Top = stack[1] /\ Top.next \in Nat /\ Top.count \in Nat
  <2>1. /\ stack \in Seq(Activations) /\ Top = stack[1] /\ Top.next \in Nat /\ Top.count \in Nat
    BY TopReads
  <2>2. DOMAIN stack = 1..1
    BY <2>1, LenProperties
  <2> QED
    BY <2>1, <2>2
<1>2. \A q : ~Awaits(stack[1], q)
  <2>1. Top.next..Top.count = {}
    BY <1>1 DEF More
  <2> QED
    BY <1>1, <2>1 DEF Awaits
<1>3. \A q : Passed(q) <=> q \in DOMAIN place /\ Declares(Reader, q)
  <2> TAKE q
  <2>1. pos = Len(wire) + 1
    BY NothingLeft
  <2>2. q \in DOMAIN place => place[q] \in Nat /\ place[q] <= Len(wire) /\ Len(wire) \in Nat
    BY NodeIs
  <2>3. q \in DOMAIN place => place[q] < pos
    BY <2>1, <2>2
  <2> QED
    BY <2>3 DEF Passed
<1>4. DOMAIN got[message] = {q \in DOMAIN place : Declares(Reader, q)}
  <2>1. \A q \in DOMAIN got[message] : Passed(q)
    BY <1>1, <1>2 DEF Filled
  <2>2. \A q \in DOMAIN place : Passed(q) => q \in DOMAIN got[message]
    BY DEF Filled
  <2> QED
    BY <1>3, <2>1, <2>2
<1>5. \A q \in DOMAIN got[message] : got[message][q] = wire[place[q]]
  BY <1>3, <1>4 DEF Filled, CellAt
<1>6. got[message] = [q \in DOMAIN got[message] |-> got[message][q]]
  <2>1. IsFull(got[message])
    BY DEF TypeInv, Objects, Scalars
  <2> QED
    BY <2>1 DEF IsFull
<1>7. Understood = [q \in {p \in DOMAIN place : Declares(Reader, p)} |-> wire[place[q]]]
  BY DEF Understood, Sent, Restrict
<1> QED
  BY <1>4, <1>5, <1>6, <1>7

Agrees == (phase = "reading" /\ Appends(client, server) => Filled) /\ SidesAgree

LEMMA AgreesNext ==
    ASSUME TypeInv, ObjectInv, Walks, Agrees, [Next]_vars
    PROVE  Agrees'
<1>1. CASE Connect
  BY <1>1 DEF Connect, Agrees, SidesAgree, Delivered
<1>2. CASE Call \/ Handle
  BY <1>2 DEF Call, Handle, StartWriting, Ended, Agrees, SidesAgree, Delivered
<1>3. CASE Die
  BY <1>3 DEF Die, Agrees, SidesAgree, Delivered
<1>4. CASE WriteFails
  BY <1>4 DEF WriteFails, Ended, Agrees, SidesAgree, Delivered
<1>5. CASE Transact
  <2>1. phase = "writing" /\ (phase' = "reading" \/ (phase' = "ready" /\ result' = "BAD_TYPE"))
    BY <1>5 DEF Transact, Ended
  <2>2. pos = 1
    BY <2>1 DEF Walks, Growing
  <2>3. phase' = "reading" => Filled'
    BY <1>5, <2>2, TransactFills
  <2> QED
    BY <2>1, <2>3 DEF Agrees, SidesAgree, Delivered
<1>6. CASE Write
  <2>1. phase' = "writing"
    <3>1. ASSUME NEW cells, NEW where, Put(cells, where) PROVE phase' = phase
      BY <3>1 DEF Put
    <3>2. EndWrite => phase' = phase
      BY DEF EndWrite
    <3>3. phase = "writing"
      BY <1>6 DEF Write, WriteWord, WriteUnion, WriteParcelable, WriteNull, WriteVector,
                  EndWrite, Writing
    <3> QED
      BY <1>6, <3>1, <3>2, <3>3
         DEF Write, WriteWord, WriteUnion, WriteParcelable, WriteNull, WriteVector
  <2> QED
    BY <2>1 DEF Agrees, SidesAgree, Delivered
<1>7. CASE Read
  <2>1. phase = "reading" /\ UNCHANGED <<client, server, phase>>
    BY <1>7, ReadPuts
  <2>2. ASSUME Appends(client, server)' PROVE Filled'
    <3>1. Appends(client, server)
      BY <2>1, <2>2, SkewStays
    <3>2. PICK e \in [DOMAIN place -> Nat] : Tree(e) /\ Walking(e)
      BY <2>1, <3>1 DEF Walks, Skewed
    <3>3. Filled
      BY <2>1, <3>1 DEF Agrees
    <3> QED
      BY <1>7, <2>1, <3>1, <3>2, <3>3, ReadFills
  <2> QED
    BY <2>1, <2>2 DEF Agrees, SidesAgree, Delivered
<1>8. CASE ReadFails
  <2>1. phase' = "ready" /\ (result' = Obstacle \/ result' = "NO_MEMORY")
    BY <1>8 DEF ReadFails, Ended
  <2>2. Obstacle # "OK"
    BY DEF Obstacle
  <2> QED
    BY <2>1, <2>2 DEF Agrees, SidesAgree, Delivered
<1>9. CASE EndArguments \/ Return
  <2>1. /\ phase = "reading" /\ Len(stack) = 1 /\ ~More /\ phase' # "reading"
        /\ UNCHANGED <<client, server, message, wire, place, got>>
    BY <1>9 DEF EndArguments, Return, Ended
  <2>2. ASSUME Appends(client, server) PROVE got[message] = Understood
    <3>1. PICK e \in [DOMAIN place -> Nat] : Tree(e) /\ Walking(e)
      BY <2>1, <2>2 DEF Walks, Skewed
    <3>2. Filled
      BY <2>1, <2>2 DEF Agrees
    <3> QED
      BY <2>1, <3>1, <3>2, FilledIsUnderstood
  <2>3. Understood' = Understood
    BY <2>1 DEF Understood, Sent, Reader
  <2>4. Appends(client, server)' = Appends(client, server)
    BY <2>1, SkewStays
  <2> QED
    BY <2>1, <2>2, <2>3, <2>4 DEF Agrees, SidesAgree
<1>10. CASE UNCHANGED vars
  <2>1. UNCHANGED <<client, server, phase, message, wire, pos, stack, place, got, result>>
    BY <1>10 DEF vars
  <2>2. Reader' = Reader /\ Understood' = Understood
    BY <2>1 DEF Understood, Sent, Reader
  <2>3. (\A q : Passed(q)' <=> Passed(q)) /\ (\A q : CellAt(q)' = CellAt(q))
    BY <2>1, <2>2 DEF Passed, CellAt
  <2>4. Filled => Filled'
    BY <2>1, <2>3 DEF Filled
  <2>5. Appends(client, server)' = Appends(client, server)
    BY <2>1, SkewStays
  <2> QED
    BY <2>1, <2>2, <2>4, <2>5 DEF Agrees, SidesAgree, Delivered
<1> QED
  BY <1>1, <1>2, <1>3, <1>4, <1>5, <1>6, <1>7, <1>8, <1>9, <1>10 DEF Next

\* When the server's release appends to the client's, the server's method runs
\* with, and a call that succeeds returns with, exactly what the other side wrote
\* into the fields the reading side declares: no field is taken from another's
\* place, none is missing, and a reused reply object keeps nothing of an earlier
\* call, whichever server answered that and however it ended.
THEOREM BothSidesAgree == Spec => []SidesAgree
<1>1. Init => Agrees
  BY DEF Init, Agrees, SidesAgree, Delivered
<1>2. TypeInv /\ ObjectInv /\ Walks /\ Agrees /\ [Next]_vars => ObjectInv' /\ Agrees'
  BY ObjectNext, AgreesNext
<1>3. Agrees => SidesAgree
  BY DEF Agrees
<1> QED
  BY <1>1, <1>2, <1>3, ObjectInit, TypeInvariance, WalksInvariance, PTL DEF Spec
============================================================================
