----------------------------- MODULE ParcelSkew -----------------------------
(***************************************************************************)
(* Calls between a client and a server built against different releases    *)
(* of one interface, down to the parcel: the generated writeToParcel and   *)
(* readFromParcel of parcelables (a presence flag, a size header, then the *)
(* fields that release declares) and of unions (a presence flag, a tag,    *)
(* then the value of that arm), and the argument code of the generated     *)
(* proxy (Bp) and stub (Bn).  The stack holds the activations of the       *)
(* recursive writers or readers.                                           *)
(*                                                                         *)
(* One cell stands for each word the code writes.  A field's value is      *)
(* where it was written and in which call, so that a value that is stale   *)
(* or comes from another field can be told from the right one.  The head   *)
(* of a parcel, the interface token of a request and the binder::Status of *)
(* a reply, has no cell: every release writes and reads it alike.          *)
(***************************************************************************)
EXTENDS HalCompat, SequencesExt

CONSTANTS Releases,     \* getInterfaceVersion() values of the releases
          Descriptor,   \* the descriptor of the interface each implements
          Parcelables,  \* the structured parcelable types
          Layout,       \* the fields of each parcelable in each release
          Unions,       \* the union types
          Arms,         \* the arms of each union in each release, by tag
          Variants,     \* the names of arms; one of another type has another
          Holds,        \* the type of the value of each arm
          Request,      \* the arguments of the method
          Reply,        \* its return value and out arguments
          MaxList,      \* bound: elements of a written vector
          MaxCalls      \* bound: calls made in a behaviour

FieldType == [shape : {"word"}, of : {"none"}]
             \cup [shape : {"part", "maybe", "list"}, of : Parcelables \cup Unions]

LayoutAssumption ==
    /\ Releases \subseteq Int
    /\ Layout \in [Parcelables -> [Releases -> Seq(FieldType)]]
    /\ Arms \in [Unions -> [Releases -> Seq(Variants)]]
    /\ Holds \in [Variants -> FieldType]
    /\ Parcelables \cap Unions = {}
    /\ Request \in Seq(FieldType) /\ Reply \in Seq(FieldType)

BoundsAssumption == MaxList \in Nat /\ MaxCalls \in Nat

ASSUME LayoutAssumption
ASSUME BoundsAssumption

VARIABLES client,   \* the release the client was built against
          server,   \* the release of the server it is connected to
          phase,    \* what the two are doing
          message,  \* the message being written, read or just read
          call,     \* the number of calls made
          wire,     \* the parcel
          pos,      \* the reader's data position
          stack,    \* activations of writeToParcel or readFromParcel
          place,    \* where in the parcel each field was written
          got,      \* the stub's arguments and the client's reply object
          result    \* the status of the last call

vars == <<client, server, phase, message, call, wire, pos, stack, place, got,
          result>>

Empty == [p \in {} |-> p]

Fields(m) == IF m = "request" THEN Request ELSE Reply

Writer == IF message = "request" THEN client ELSE server
Reader == IF message = "request" THEN server ELSE client

\* Release new is release old with fields and arms appended: the additive
\* change of the interface and of all types it imports.
Appends(old, new) ==
    /\ Descriptor[old] = Descriptor[new]
    /\ \A t \in Parcelables : IsPrefix(Layout[t][old], Layout[t][new])
    /\ \A u \in Unions : IsPrefix(Arms[u][old], Arms[u][new])

----------------------------------------------------------------------------
(* Activations, cells and objects.                                         *)

\* A position in an object: argument, field or element nr, or the value of
\* the arm named by of.
Step(in, of, nr) == [in |-> in, of |-> of, nr |-> nr]

\* The field release r declares there.
FieldAt(r, m, step) ==
    CASE step.in = "args"   -> Fields(m)[step.nr]
      [] step.in = "fields" -> Layout[step.of][r][step.nr]
      [] step.in = "arm"    -> Holds[step.of]
      [] OTHER              -> [shape |-> "part", of |-> step.of]

\* Release r declares all that leads to path p.
Declares(r, p) ==
    \A i \in DOMAIN p :
        p[i].in = "fields" => p[i].nr <= Len(Layout[p[i].of][r])

Activation(in, of, count, start, size, path) ==
    [in |-> in, of |-> of, count |-> count, next |-> 1, start |-> start,
     size |-> size, path |-> path]

Arguments(m) == Activation("args", "none", Len(Fields(m)), 0, 0, <<>>)

Elements(t, n, path) == Activation("list", t, n, 0, 0, path)

Value(arm, path) == Activation("arm", arm, 1, 0, 0, path)

Body(t, r, start, size, path) ==
    Activation("fields", t, Len(Layout[t][r]), start, size, path)

\* The next field of the running activation, and where it is.
Top   == Last(stack)
More  == Top.next <= Top.count
Here  == Step(Top.in, Top.of, Top.next)
At    == Append(Top.path, Here)
Field == FieldAt(IF phase = "writing" THEN Writer ELSE Reader, message, Here)

Stepped == [stack EXCEPT ![Len(stack)].next = @ + 1]

Cell(kind, path, val) == [kind |-> kind, at |-> path, val |-> val]

Set(f, p, c) == [q \in DOMAIN f \cup {p} |-> IF q = p THEN c ELSE f[q]]

\* The object without the field p and all it holds.
Without(f, p) == [q \in {r \in DOMAIN f : ~IsPrefix(p, r)} |-> f[q]]

\* vector::resize: elements beyond the first n go, the others stay.
Resized(f, p, n) ==
    [q \in {r \in DOMAIN f : ~(IsStrictPrefix(p, r) /\ r[Len(p) + 1].nr > n)}
        |-> f[q]]


\* What was written into the parcel, by field.
Sent == [p \in DOMAIN place |-> wire[place[p]]]

----------------------------------------------------------------------------
(* A proxy, its calls, and how they end.                                   *)

\* The client gets the proxy of a server of any release.
Connect ==
    /\ phase = "off"
    /\ server' \in Releases
    /\ phase' = "ready"
    /\ result' = "none"
    /\ UNCHANGED <<client, message, call, wire, pos, stack, place, got>>

\* Either side turns to writing a message into a new parcel.
StartWriting(m) ==
    /\ phase' = "writing"
    /\ message' = m
    /\ wire' = <<>>
    /\ pos' = 1
    /\ place' = Empty
    /\ stack' = <<Arguments(m)>>

\* The generated proxy method.
Call ==
    /\ phase = "ready"
    /\ call < MaxCalls
    /\ call' = call + 1
    /\ StartWriting("request")
    /\ result' = "pending"
    /\ UNCHANGED <<client, server, got>>

\* mutant: an error leaves the method without leaving its activations.
EndedInside(status) ==
    /\ phase' = "ready"
    /\ result' = status
    /\ UNCHANGED <<client, server, message, call, wire, pos, stack, place, got>>

Ended(status) ==
    /\ phase' = "ready"
    /\ stack' = <<>>
    /\ result' = status
    /\ UNCHANGED <<client, server, message, call, wire, pos, place, got>>

\* transact(), or its return: the other side starts to read.  The stub checks
\* the token, and its arguments are new locals; the reply, whose status is OK,
\* goes into the caller's own object.
Transact ==
    /\ phase = "writing" /\ Len(stack) = 1 /\ ~More
    /\ IF message = "request" /\ Descriptor[client] # Descriptor[server]
       THEN Ended("BAD_TYPE")
       ELSE /\ phase' = "reading"
            /\ stack' = <<Arguments(message)>>
            /\ got' = IF message = "request" THEN [got EXCEPT !.request = Empty]
                      ELSE got
            /\ UNCHANGED <<client, server, message, call, wire, pos, place,
                           result>>

\* A write into the parcel fails, of its head or of a field: the method stops
\* and nothing is sent.
WriteFails ==
    phase = "writing" /\ (More \/ wire = <<>>) /\ Ended("NO_MEMORY")

\* The method of the server has run with its arguments.  A status other than OK
\* is all the reply holds, and the proxy returns it without reading on.
Handle ==
    /\ phase = "handling"
    /\ \/ /\ StartWriting("reply")
          /\ UNCHANGED <<client, server, call, got, result>>
       \/ Ended("EXCEPTION")

\* The server process dies in a call or between calls.
Die ==
    /\ \/ phase \in {"ready", "writing", "handling"}
       \/ phase = "reading" /\ message = "request"
    /\ phase' = "off"
    /\ stack' = <<>>
    /\ result' = IF phase = "ready" THEN result ELSE "DEAD_OBJECT"
    /\ UNCHANGED <<client, server, message, call, wire, pos, place, got>>

----------------------------------------------------------------------------
(* Writing.                                                                *)

\* The running writer puts these cells at the end of the parcel; a field is
\* found by the place of the cell that says what it holds.
Put(cells, where) ==
    /\ wire' = wire \o cells
    /\ place' = [p \in DOMAIN place \cup DOMAIN where |->
                   IF p \in DOMAIN where THEN where[p] ELSE place[p]]
    /\ UNCHANGED <<client, server, phase, message, call, pos, got, result>>

Behind(k) == Len(wire) + k

Writing(shape) == phase = "writing" /\ More /\ Field.shape = shape

WriteWord ==
    /\ Writing("word")
    /\ Put(<<Cell("word", At, call)>>, [p \in {At} |-> Behind(1)])
    /\ stack' = Stepped

\* A parcelable: it is there, its size is patched in when it is complete.
WriteParcelable ==
    /\ \/ Writing("part")
       \/ Writing("maybe")
    /\ Field.of \in Parcelables
    /\ Put(<<Cell("flag", At, 1), Cell("size", At, 0)>>,
           [p \in {At} |-> Behind(1)])
    /\ stack' = Append(Stepped, Body(Field.of, Writer, Behind(2), 0, At))

\* A union: it is there, the tag of its arm, then that arm's value.
WriteUnion ==
    /\ \/ Writing("part")
       \/ Writing("maybe")
    /\ Field.of \in Unions
    /\ \E tag \in DOMAIN Arms[Field.of][Writer] :
          /\ Put(<<Cell("flag", At, 1), Cell("tag", At, tag)>>,
                 [p \in {At} |-> Behind(1)])
          /\ stack' = Append(Stepped, Value(Arms[Field.of][Writer][tag], At))

WriteNull ==
    /\ Writing("maybe")
    /\ Put(<<Cell("flag", At, 0)>>, [p \in {At} |-> Behind(1)])
    /\ stack' = Stepped

WriteVector ==
    /\ Writing("list")
    /\ \E n \in 0..MaxList :
          /\ Put(<<Cell("count", At, n)>>, [p \in {At} |-> Behind(1)])
          /\ stack' = Append(Stepped, Elements(Field.of, n, At))

\* mutant: the size header does not count itself.
EndWriteShort ==
    /\ phase = "writing" /\ Len(stack) > 1 /\ ~More
    /\ wire' = IF Top.start = 0 THEN wire
               ELSE [wire EXCEPT ![Top.start].val = Len(wire) - Top.start]
    /\ stack' = Front(stack)
    /\ UNCHANGED <<client, server, phase, message, call, pos, place, got,
                   result>>

\* The last field is written: back to the size header to patch it.
EndWrite ==
    /\ phase = "writing" /\ Len(stack) > 1 /\ ~More
    /\ wire' = IF Top.start = 0 THEN wire
               ELSE [wire EXCEPT ![Top.start].val = Behind(1) - Top.start]
    /\ stack' = Front(stack)
    /\ UNCHANGED <<client, server, phase, message, call, pos, place, got, result>>

----------------------------------------------------------------------------
(* Reading.                                                                *)

\* mutant: one field too many is read of a shorter parcelable.
ExhaustedLate == Top.size > 0 /\ pos - Top.start > Top.size

\* All that was sent of the parcelable being read has been read.
Exhausted == Top.size > 0 /\ pos - Top.start >= Top.size

Reading(shape) ==
    phase = "reading" /\ More /\ ~Exhausted /\ Field.shape = shape

Available(n) == pos + n - 1 <= Len(wire)

\* The reader takes n cells and leaves this in its object.
Take(n, object) ==
    /\ pos' = pos + n
    /\ got' = [got EXCEPT ![message] = object]
    /\ UNCHANGED <<client, server, phase, message, call, wire, place, result>>

ReadWord ==
    /\ Reading("word") /\ Available(1)
    /\ Take(1, Set(got[message], At, wire[pos]))
    /\ stack' = Stepped

\* Both shapes of a field that may be there: its flag, then its head.
ReadingBody ==
    /\ \/ Reading("part")
       \/ Reading("maybe")
    /\ Available(2) /\ wire[pos].val # 0

\* Into readFromParcel; an optional parcelable is replaced by a new one.
ReadParcelable ==
    /\ ReadingBody /\ Field.of \in Parcelables /\ wire[pos + 1].val >= 1
    /\ LET object == IF Field.shape = "maybe" THEN Without(got[message], At)
                     ELSE got[message]
       IN  Take(2, Set(object, At, wire[pos]))
    /\ stack' = Append(Stepped,
          Body(Field.of, Reader, pos + 1, wire[pos + 1].val, At))

\* Into the switch on the tag.  set<arm>() replaces the arm the union held;
\* here it goes before the new value is read.
ReadUnion ==
    /\ ReadingBody /\ Field.of \in Unions
    /\ wire[pos + 1].val \in DOMAIN Arms[Field.of][Reader]
    /\ Take(2, Set(Without(got[message], At), At, wire[pos]))
    /\ stack' = Append(Stepped,
          Value(Arms[Field.of][Reader][wire[pos + 1].val], At))

ReadNull ==
    /\ Reading("maybe") /\ Available(1) /\ wire[pos].val = 0
    /\ Take(1, Set(Without(got[message], At), At, wire[pos]))
    /\ stack' = Stepped

ReadVector ==
    /\ Reading("list") /\ Available(1)
    /\ LET n == wire[pos].val
       IN  /\ Take(1, Set(Resized(got[message], At, n), At, wire[pos]))
           /\ stack' = Append(Stepped, Elements(Field.of, n, At))

\* setDataPosition(start + size), then back to the caller.
Leave ==
    /\ pos' = IF Top.size = 0 THEN pos ELSE Top.start + Top.size
    /\ stack' = Front(stack)
    /\ UNCHANGED <<client, server, phase, message, call, wire, place, got, result>>

\* The sender had no more fields: the rest of the object stays as it was.
SkipAbsent == phase = "reading" /\ More /\ Exhausted /\ Leave

\* mutant: the position stays behind the last field this release knows.
EndReadHere ==
    /\ phase = "reading" /\ Len(stack) > 1 /\ ~More
    /\ stack' = Front(stack)
    /\ UNCHANGED <<client, server, phase, message, call, wire, pos, place, got,
                   result>>

\* The last field this release declares is read, whatever follows it.
EndRead == phase = "reading" /\ Len(stack) > 1 /\ ~More /\ Leave

\* The status that stops the reader at the next field, if one does.
Obstacle ==
    LET body == Field.shape \in {"part", "maybe"}
    IN  CASE ~Available(1) -> "NOT_ENOUGH_DATA"
          [] Field.shape = "part" /\ wire[pos].val = 0 -> "UNEXPECTED_NULL"
          [] body /\ wire[pos].val # 0 /\ ~Available(2) -> "NOT_ENOUGH_DATA"
          [] body /\ wire[pos].val # 0 /\ Field.of \in Parcelables
             /\ wire[pos + 1].val < 1 -> "BAD_VALUE"
          [] body /\ wire[pos].val # 0 /\ Field.of \in Unions
             /\ wire[pos + 1].val \notin DOMAIN Arms[Field.of][Reader] ->
                "BAD_VALUE"
          [] OTHER -> "none"

\* The reader stops: what it finds is refused, or there is no memory for a
\* vector, a string or the out vector whose length this is.
ReadFails ==
    /\ phase = "reading" /\ More /\ ~Exhausted
    /\ \/ Obstacle # "none" /\ Ended(Obstacle)
       \/ /\ Obstacle = "none" /\ Field.shape \in {"word", "list"}
          /\ Ended("NO_MEMORY")

\* The stub has its arguments; enforceNoDataAvail() refuses what is left.
EndArguments ==
    /\ phase = "reading" /\ message = "request" /\ Len(stack) = 1 /\ ~More
    /\ IF pos <= Len(wire) THEN Ended("BAD_PARCELABLE")
       ELSE /\ phase' = "handling"
            /\ stack' = <<>>
            /\ UNCHANGED <<client, server, message, call, wire, pos, place, got,
                           result>>

\* The proxy has its results; nothing looks at what is left.
Return ==
    /\ phase = "reading" /\ message = "reply" /\ Len(stack) = 1 /\ ~More
    /\ Ended("OK")

----------------------------------------------------------------------------
Init ==
    /\ client \in Releases /\ server = client
    /\ phase = "off" /\ message = "request" /\ call = 0
    /\ wire = <<>> /\ pos = 1 /\ stack = <<>> /\ place = Empty
    /\ got = [request |-> Empty, reply |-> Empty]
    /\ result = "none"

Write == \/ WriteWord \/ WriteUnion \/ WriteParcelable \/ WriteNull
         \/ WriteVector \/ EndWrite

Read == \/ ReadWord \/ ReadUnion \/ ReadParcelable \/ ReadNull \/ ReadVector
        \/ SkipAbsent \/ EndRead

Next == \/ Connect \/ Call \/ Transact \/ WriteFails \/ Handle \/ Die
        \/ Write \/ Read \/ ReadFails \/ EndArguments \/ Return

Spec == Init /\ [][Next]_vars


----------------------------------------------------------------------------
(* Properties.                                                             *)

Statuses == {"none", "pending", "OK", "NO_MEMORY", "DEAD_OBJECT", "BAD_VALUE",
             "NOT_ENOUGH_DATA", "UNEXPECTED_NULL", "BAD_PARCELABLE", "BAD_TYPE",
             "EXCEPTION"}

Types == Parcelables \cup Unions \cup Variants \cup {"none"}

Paths == Seq([in : {"args", "fields", "list", "arm"}, of : Types, nr : Nat])

Cells == [kind : {"word", "tag", "flag", "size", "count"}, at : Paths, val : Int]

IsObject(f) == \A p \in DOMAIN f : p \in Paths /\ f[p] \in Cells

\* The parcel's cells, the running activations and both objects are what the
\* generated code could hold.
TypeOK ==
    /\ client \in Releases /\ server \in Releases
    /\ phase \in {"off", "ready", "writing", "reading", "handling"}
    /\ message \in {"request", "reply"}
    /\ call \in 0..MaxCalls
    /\ wire \in Seq(Cells)
    /\ pos \in Nat \ {0}
    /\ stack \in Seq([in : {"args", "fields", "list", "arm"}, of : Types, count : Nat,
                      next : Nat, start : Nat, size : Nat, path : Paths])
    /\ (phase \in {"writing", "reading"}) = (stack # <<>>)
    /\ \A p \in DOMAIN place : p \in Paths /\ place[p] \in DOMAIN wire
    /\ DOMAIN got = {"request", "reply"}
    /\ IsObject(got.request) /\ IsObject(got.reply)
    /\ result \in Statuses

\* What one side was sent and declares.
Understood == Restrict(Sent, {p \in DOMAIN Sent : Declares(Reader, p)})

\* One release is the other with fields and arms appended.
Skewed == Appends(client, server) \/ Appends(server, client)

\* Between releases of which either appends to the other, a reader that comes
\* to a field the sender wrote stands where the sender wrote it, whichever
\* fields of other parcelables, in whichever arms, either side does not know.
InPlace ==
    Skewed /\ phase = "reading" /\ More /\ ~Exhausted =>
        At \in DOMAIN place /\ pos = place[At]

\* The method of the server runs with its arguments, or the call returned.
Delivered == phase = "handling" \/ (phase = "ready" /\ result = "OK")

\* When the server's release appends to the client's, the method of the server
\* runs with, and a call that succeeds returns with, exactly what the other
\* side wrote into the fields the reading side declares: none read from
\* another field's place, none missing, and none left in a reused object by
\* an earlier call, failed, refused or served by a server of any release.
SidesAgree ==
    Appends(client, server) /\ Delivered => got[message] = Understood

\* The reader stands before the tag of an arm its release does not declare.
UnknownArm ==
    \E u \in Unions : /\ pos + 1 \in DOMAIN wire
                      /\ wire[pos + 1].kind = "tag"
                      /\ wire[pos + 1].val \in DOMAIN Arms[u][Writer]
                                               \ DOMAIN Arms[u][Reader]

\* Between releases of which either appends to the other, a parcel that was
\* written completely is refused for one reason only, an arm of a union that
\* the reader does not know yet: never in the size header, at the end of the
\* parcel, at a null or by enforceNoDataAvail.
NeverRefused ==
    Skewed =>
        /\ result \notin {"NOT_ENOUGH_DATA", "UNEXPECTED_NULL", "BAD_PARCELABLE",
                          "BAD_TYPE"}
        /\ result = "BAD_VALUE" => UnknownArm

\* halcompat.h 37-40 and 78-79: a client may use any server that isCompatible()
\* accepts, within an era-0 major or, in later eras, by plain ordering.  The
\* audit keeps such a server's own fields in order, but it compares imported
\* parcelables as sets of declarations, and an arm appended is an addition.
AcceptedIsServed ==
    IsCompatible(client, server) =>
        result \notin {"BAD_VALUE", "NOT_ENOUGH_DATA", "UNEXPECTED_NULL",
                       "BAD_PARCELABLE", "BAD_TYPE"}

============================================================================
