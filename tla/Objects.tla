--------------------------------- MODULE Objects ---------------------------------
(***************************************************************************)
(* Requests of a server for resources: ReadCb, WriteCb and ExecuteCb of    *)
(* objects.c, which serve a request resource by resource over the tables   *)
(* and handlers of ObjectsTable.tla, and the conversions between a number  *)
(* of the platform, the octets of a buffer and the value of a message      *)
(* (utils.c, objects.c).                                                   *)
(*                                                                         *)
(* An octet has Octet values, so that all the boundaries between the       *)
(* sizes of 1, 2, 4 and 8 octets may be small numbers.  A buffer is a length  *)
(* and its octets as one number, the first octet being the highest.        *)
(***************************************************************************)
EXTENDS ObjectsTable, FiniteSets, SequencesExt, FiniteSetsExt

CONSTANTS
  Octet,      \* values of an octet: 256 in the code
  Room,       \* LWM2MCORE_BUFFER_MAX_LEN: size of the buffer of a request
  Numbers,    \* the numbers that the platform has and the server sends
  TextLengths \* the lengths of their texts and octets

Sizes == {1, 2, 4, 8}
ASSUME ObjectsAssumption ==
  /\ Octet \in Nat /\ Octet > 3 /\ Octet % 2 = 0
  /\ Room \in Nat \ Sizes /\ Room > 3
  /\ Numbers \subseteq Int /\ TextLengths \subseteq Nat

VARIABLES
  pc,         \* "idle", "read", "write", "execute", "answered"
  request,    \* what the server asks for
  held,       \* what the platform has for each resource that is read
  data,       \* dataArrayPtr: the resources of the request and what was read
  pos, child, \* the resource that is served next, and which of its values
  room,       \* asyncBufLen while the values of a resource are written
  result,     \* the CoAP code
  calls,      \* what the platform was told to set or execute
  charSigned  \* whether char has a sign in this build

vars == <<pc, request, held, data, pos, child, room, result, calls, charSigned>>

-----------------------------------------------------------------------------
(* Conversions *)

\* The numbers that some octets hold: the size of the type in Sizes
Span(n) ==
  LET two == Octet * Octet
      four == two * two
  IN  CASE n = 1 -> Octet
        [] n = 2 -> two
        [] n = 4 -> four
        [] n = 8 -> four * four
\* The greatest signed number of n octets: 0x7F, 0x7FFF...
Top(n) == (Span(n) \div 2) - 1
Wrap(v, n) == ((v + Top(n) + 1) % Span(n)) - Top(n) - 1

\* (size_t)-1
NoLength == 0 - 1
Buffer(len, value) == [len |-> len, value |-> value]
\* A buffer that a handler leaves as it is: zeros, and its whole size as length
Untouched == Buffer(Room, 0)

\* Mutant: a number that fills its highest bit is not widened
FormatValueToBytes_Narrow(v, size, signed) ==
  LET raw == v % Span(size)
  IN  IF signed THEN Buffer(size, raw)
      ELSE Buffer(Min({n \in Sizes : n <= size /\ raw < Span(n)}), raw)

\* An unsigned number takes the fewest octets that leave its sign bit clear.
FormatValueToBytes(v, size, signed) ==
  LET raw == v % Span(size)
      fits == {n \in Sizes : n <= 2 * size /\ raw <= Top(n)}
  IN  IF signed THEN Buffer(size, raw)
      ELSE IF fits = {} THEN Buffer(NoLength, 0) ELSE Buffer(Min(fits), raw)

BytesToInt(b) ==
  IF b.len \notin Sizes THEN 0 - 1
  ELSE IF b.len = 1 /\ ~charSigned THEN b.value ELSE Wrap(b.value, b.len)

\* What a message carries
Number(v) == [as |-> "number", len |-> 0, value |-> v]
Truth(b) == [as |-> "truth", len |-> 0, value |-> IF b THEN 1 ELSE 0]
Bytes(b) == [as |-> "octets", len |-> b.len, value |-> b.value]

EncodeData(type, b) ==
  CASE type \in {"int", "time"} -> Number(BytesToInt(b))
    [] type = "bool" -> Truth(b.value # 0)
    [] OTHER -> Bytes(b)

\* base64_decode of the text of some octets: of a text that ends with a single
\* padding character nothing is left.
base64_decode(octets) ==
  IF octets.len % 3 = 2 THEN Buffer(0, octets.value) ELSE octets

IsNumber(type) == type \in {"int", "bool", "time"}

\* The data of a message: a text (of a number, of octets in base64 or of a string),
\* a text that is no number, octets, an integer or a boolean.  len and value are
\* what the text stands for, except for the length of the text of a number.
FormatDataWriteExecute(type, d, space) ==
  LET length == IF d.form = "text" /\ type = "opaque"
                THEN 4 * ((d.len + 2) \div 3) ELSE d.len
      buffer == CASE d.form = "integer" -> FormatValueToBytes(d.value, 8, FALSE)
                  [] d.form = "text" /\ IsNumber(type) /\ d.len > 0 ->
                       FormatValueToBytes(d.value, 8, FALSE)
                  [] d.form = "text" /\ type = "opaque" -> base64_decode(Buffer(d.len, d.value))
                  [] OTHER -> Buffer(d.len, d.value)
  IN  IF d.form = "boolean" THEN [ok |-> FALSE, buffer |-> Buffer(0, 0)]
      ELSE IF length > space \/ (d.form = "junk" /\ IsNumber(type))
           THEN [ok |-> FALSE, buffer |-> Buffer(space, 0)]
      ELSE [ok |-> TRUE, buffer |-> buffer]

SetCoapError(sid, op) ==
  CASE sid = "OK" -> IF op = "read" THEN "CONTENT" ELSE "CHANGED"
    [] sid = "INVALID_ARG" -> "BAD_REQUEST"
    [] sid \in {"INVALID_STATE", "OP_NOT_SUPPORTED", "NOT_YET_IMPLEMENTED"} -> "NOT_FOUND"
    [] OTHER -> "INTERNAL_ERROR"

-----------------------------------------------------------------------------
(* What the platform has and answers                                       *)

PlatformSids == {"OK", "INVALID_STATE", "INVALID_ARG", "GENERAL_ERROR"}
Given(list) == [sid |-> "OK", list |-> list]
Failed(sid) == [sid |-> sid, list |-> <<>>]

\* The numbers of a type of n octets
UnsignedOf(n) == {v \in Numbers : v \in 0 .. Span(n) - 1}
SignedOf(n) == {v \in Numbers : v \in -Top(n) - 1 .. Top(n)}

Values(kind) ==
  CASE kind.value = "unsigned" -> UnsignedOf(kind.size)
    [] kind.value \in {"signed", "misread"} -> SignedOf(kind.size)
    [] kind.value = "bool" -> {0, 1}
    [] OTHER -> {Buffer(n, 1) : n \in {l \in TextLengths : l <= Room /\ (kind.fill = "list" => l > 0)}}
Usual(kind) ==
  IF kind.value \in {"unsigned", "signed", "misread", "bool"} THEN 1 ELSE Buffer(3, 1)

\* The velocity needs a direction, taken as 0 when there is none, and a horizontal
\* speed; the vertical speed may be missing.
BuildVelocity(direction, horizontal, vertical) ==
  IF direction \notin {"OK", "INVALID_STATE"} THEN Failed("GENERAL_ERROR")
  ELSE IF horizontal = "INVALID_STATE" THEN Failed("INVALID_STATE")
  ELSE IF horizontal # "OK" THEN Failed("GENERAL_ERROR")
  ELSE Given(<<Buffer(IF vertical = "OK" THEN 5 ELSE 4, 1)>>)

Lengths(fill, instances) ==
  CASE fill \in {"list", "openList"} -> 0 .. instances
    [] fill = "all" -> {instances}
    [] fill = "battery" -> {0, 1}
    [] OTHER -> {1}

\* All that a handler may meet, and, in the read of a whole object, whether there is a
\* value: none, an error or one.
Outcomes(row, kind) ==
  IF kind.fill = "never" THEN {Failed(kind.value)}
  ELSE IF kind.value = "velocity" THEN {BuildVelocity(d, h, v) : d, h, v \in PlatformSids}
  ELSE {Failed(sid) : sid \in PlatformSids \ {"OK"}} \cup
       {Given([i \in 1 .. k |-> IF i = k THEN v ELSE Usual(kind)]) :
          k \in Lengths(kind.fill, row.instances), v \in Values(kind)}
Summary(row, kind) ==
  IF kind.fill = "never" THEN {Failed(kind.value)}
  ELSE {Failed("INVALID_STATE"), Failed("GENERAL_ERROR"), Given(<<Usual(kind)>>)}

-----------------------------------------------------------------------------
(* Requests.  found: the server names an instance that is registered.      *)
(* busy: the clock is being set.                                           *)

Item(id, children) == [id |-> id, children |-> children]
Datum(form, len, value) == [form |-> form, len |-> len, value |-> value]

\* All readable resources in the order of the table.  An object that has none is
\* read all the same: the first resource is then what the memory holds.
WholeObject(object) ==
  LET rows == ObjArray[object]
      readable == Selected(rows, {k \in DOMAIN rows : "read" \in rows[k].ops})
  IN  IF readable = <<>> THEN {<<Item(id, <<>>)>> : id \in Ids(object) \cup {"other"}}
      ELSE {[k \in DOMAIN readable |-> Item(readable[k].id, <<>>)]}

Reads(object) ==
  WholeObject(object) \cup {<<Item(id, <<>>)>> : id \in Ids(object) \cup {"other"}}

Data(type) ==
  CASE IsNumber(type) ->
         {Datum(form, 1, v) : form \in {"text", "integer"}, v \in SignedOf(8)}
         \cup {Datum("text", 0, 0), Datum("junk", 1, 0), Datum("boolean", 0, 1)}
         \cup {Datum("opaque", n, 0) : n \in TextLengths \ Sizes}
         \cup UNION {{Datum("opaque", n, v) : v \in UnsignedOf(n)} : n \in Sizes}
    [] type = "opaque" ->
         {Datum("text", n, 1) : n \in TextLengths \ {0}} \cup {Datum("opaque", n, 1) : n \in TextLengths}
    [] OTHER ->
         {Datum(form, n, 1) : form \in {"text", "opaque"}, n \in TextLengths}
Plain == {<<Datum("text", 1, 1)>>, <<Datum("boolean", 0, 1)>>}

\* One resource with any data, and maybe another behind it.  A resource of several
\* instances may be given several values.
Writes(object) ==
  LET rows == Range(ObjArray[object])
      taken == {row \in rows : row.id \in DOMAIN Writers[object]}
      others == {Item(row.id, <<Datum("text", 1, 1)>>) : row \in {r \in rows : "write" \notin r.ops}}
                \cup {Item("other", <<Datum("text", 1, 1)>>)}
      first == others \cup
        UNION {{Item(row.id, d) : d \in TupleOf(Data(row.type), 1) \cup
                  (IF row.instances > 1 THEN TupleOf(Data(row.type), 2) ELSE {})} : row \in taken}
      second == others \cup {Item(row.id, d) : row \in taken, d \in Plain}
  IN  {<<a>> : a \in first} \cup {<<a, b>> : a \in first, b \in second}

Executions(object) ==
  LET arguments == {<<Datum("text", n, 1)>> : n \in TextLengths} \cup {<<Datum("junk", 1, 0)>>}
      first == {Item(id, d) : id \in Ids(object) \cup {"other"}, d \in arguments}
  IN  {<<a>> : a \in first}

Request(op, object, items, found, busy) ==
  /\ request' = [op |-> op, object |-> object, items |-> items, found |-> found, busy |-> busy]
  /\ \/ ~found /\ pc' = "answered" /\ result' = "NOT_FOUND" /\ data' = data
     \/ found /\ busy /\ pc' = "answered" /\ result' = "INTERNAL_ERROR" /\ data' = data
     \/ /\ found /\ ~busy
        /\ pc' = op
        /\ data' = IF op # "read" THEN data
                   ELSE [k \in DOMAIN items |-> [id |-> items[k].id, values |-> <<>>]]
        /\ result' = result
  /\ UNCHANGED <<held, pos, child, room, calls, charSigned>>

BusyOf(object) == IF object = "clock" THEN BOOLEAN ELSE {FALSE}
RequestRead ==
  /\ pc = "idle"
  /\ \E object \in DOMAIN ObjArray :
       \E items \in Reads(object), found \in BOOLEAN, busy \in BusyOf(object) :
         Request("read", object, items, found, busy)
RequestWrite ==
  /\ pc = "idle"
  /\ \E object \in DOMAIN Writers :
       \E items \in Writes(object), found \in BOOLEAN, busy \in BusyOf(object) :
         Request("write", object, items, found, busy)
RequestExecute ==
  /\ pc = "idle"
  /\ \E object \in DOMAIN Executors :
       \E items \in Executions(object), found \in BOOLEAN, busy \in BusyOf(object) :
         Request("execute", object, items, found, busy)

-----------------------------------------------------------------------------
(* ReadCb *)

\* What a handler leaves in the buffer for the instance riid
ReadBuffer(kind, list, riid) ==
  LET at == IF kind.fill \in {"list", "openList", "all"} THEN riid + 1 ELSE 1
  IN  IF kind.fill = "untouched" \/ (at > Len(list) /\ kind.fill # "list") THEN Untouched
      ELSE IF at > Len(list) THEN Buffer(0, 0)
      ELSE IF kind.fill = "padded" /\ list[at].len = 0 THEN Buffer(1, 0)
      ELSE IF kind.value \in {"text", "octets", "velocity"} THEN list[at]
      ELSE FormatValueToBytes(list[at], kind.size, kind.value = "signed")

\* The instances up to the first empty one; of as many as the table has, all but
\* the last.
ReadResourceInstances(row, kind, list) ==
  LET buffers == [i \in 1 .. row.instances |-> ReadBuffer(kind, list, i - 1)]
      empty == {i \in DOMAIN buffers : buffers[i].len = 0}
      riid == IF empty = {} THEN row.instances - 1 ELSE Min(empty) - 1
  IN  IF riid = 0 THEN [code |-> "NOT_FOUND", values |-> <<>>]
      ELSE [code |-> "CONTENT",
            values |-> [i \in 1 .. riid |-> EncodeData(row.type, buffers[i])]]

ReadResource(row, kind, o) ==
  IF o.sid # "OK" THEN [code |-> SetCoapError(o.sid, "read"), values |-> <<>>]
  ELSE IF row.instances > 1 THEN ReadResourceInstances(row, kind, o.list)
  ELSE [code |-> "CONTENT",
        values |-> <<EncodeData(row.type, ReadBuffer(kind, o.list, 0))>>]

\* Mutant: the loop goes on behind the entry that was removed
AfterRead_Skips(answer) ==
  \/ /\ answer.code = "NOT_FOUND" /\ Len(data) > 1
     /\ data' = RemoveAt(data, pos) /\ pos' = pos + 1 /\ result' = "CONTENT"
  \/ /\ answer.code # "NOT_FOUND" \/ Len(data) = 1
     /\ data' = [data EXCEPT ![pos].values = answer.values]
     /\ pos' = pos + 1 /\ result' = answer.code

\* Mutant: the entry of a resource without value stays, and is read again
AfterRead_Again(answer) ==
  /\ data' = [data EXCEPT ![pos].values = answer.values]
  /\ IF answer.code = "NOT_FOUND" /\ Len(data) > 1
     THEN pos' = pos /\ result' = "CONTENT"
     ELSE pos' = pos + 1 /\ result' = answer.code

\* The entry of a resource without value is removed, unless it is the last one.
AfterRead(answer) ==
  \/ /\ answer.code = "NOT_FOUND" /\ Len(data) > 1
     /\ data' = RemoveAt(data, pos) /\ pos' = pos /\ result' = "CONTENT"
  \/ /\ answer.code # "NOT_FOUND" \/ Len(data) = 1
     /\ data' = [data EXCEPT ![pos].values = answer.values]
     /\ pos' = pos + 1 /\ result' = answer.code

GoOn ==
  pc' = IF pos' <= Len(data') /\ result' = "CONTENT" THEN "read" ELSE "answered"

Answer(code) == pc' = "answered" /\ result' = code

ReadUnknown ==
  /\ pc = "read"
  /\ data[pos].id \notin Ids(request.object)
  /\ Answer("NOT_FOUND")
  /\ UNCHANGED <<request, held, data, pos, child, room, calls, charSigned>>

ReadNotAllowed ==
  /\ pc = "read"
  /\ data[pos].id \in Ids(request.object)
  /\ "read" \notin RowOf(request.object, data[pos].id).ops
  /\ Answer("NOT_ALLOWED")
  /\ UNCHANGED <<request, held, data, pos, child, room, calls, charSigned>>

ReadRegistered ==
  LET id == data[pos].id
      row == RowOf(request.object, id)
      kind == Readers[request.object][id]
      outcomes == IF Len(request.items) > 1 THEN Summary(row, kind) ELSE Outcomes(row, kind)
  IN  /\ pc = "read"
      /\ id \in Ids(request.object) /\ "read" \in row.ops
      /\ \E o \in outcomes : held' = Joined(held, [x \in {id} |-> o]) /\ AfterRead(ReadResource(row, kind, o))
      /\ GoOn
      /\ UNCHANGED <<request, child, room, calls, charSigned>>

-----------------------------------------------------------------------------
(* WriteCb and ExecuteCb *)

\* What a handler makes of the buffer
Value(kind, b) ==
  CASE kind.value = "unsigned" -> Number(BytesToInt(b) % Span(kind.size))
    [] kind.value = "signed" -> Number(Wrap(BytesToInt(b), kind.size))
    [] kind.value = "bool" -> Truth(BytesToInt(b) # 0)
    [] OTHER -> Bytes(b)

\* The outcomes of a handler: what it returns and the value it hands over, if any
Refused(sid) == [sid |-> sid, value |-> <<>>]
WriteResource(kind, b) ==
  IF kind.fill = "never" THEN {Refused(kind.value)}
  ELSE IF kind.fill = "given" /\ b.len = 0 THEN {Refused("INVALID_ARG")}
  ELSE {[sid |-> sid, value |-> <<Value(kind, b)>>] : sid \in PlatformSids}

Called(w) ==
  calls' = IF w.value = <<>> THEN calls
           ELSE Append(calls, [pos |-> pos, child |-> child, value |-> w.value[1], sid |-> w.sid])

item == request.items[pos]

WriteRefused ==
  /\ pc = "write"
  /\ \/ item.id \notin Ids(request.object) /\ Answer("NOT_FOUND")
     \/ /\ item.id \in Ids(request.object)
        /\ "write" \notin RowOf(request.object, item.id).ops
        /\ Answer("NOT_ALLOWED")
  /\ UNCHANGED <<request, held, data, pos, child, room, calls, charSigned>>

\* Mutant: the next resource is served although this one was not taken
Advance_GoesOn(code, left) ==
  /\ result' = code
  /\ \/ /\ child < Len(item.children)
        /\ child' = child + 1 /\ room' = left
        /\ UNCHANGED <<pc, pos>>
     \/ /\ child = Len(item.children) /\ pos < Len(request.items)
        /\ pos' = pos + 1 /\ child' = 1 /\ room' = Room
        /\ UNCHANGED pc
     \/ /\ child = Len(item.children) /\ pos = Len(request.items)
        /\ pc' = "answered"
        /\ UNCHANGED <<pos, child, room>>

\* The next value of the resource, with the room that the last one left; then, if
\* this one was taken, the next resource.
Advance(code, left) ==
  /\ result' = code
  /\ \/ /\ child < Len(item.children)
        /\ child' = child + 1 /\ room' = left
        /\ UNCHANGED <<pc, pos>>
     \/ /\ child = Len(item.children) /\ pos < Len(request.items) /\ code = "CHANGED"
        /\ pos' = pos + 1 /\ child' = 1 /\ room' = Room
        /\ UNCHANGED pc
     \/ /\ child = Len(item.children) /\ (pos = Len(request.items) \/ code # "CHANGED")
        /\ pc' = "answered"
        /\ UNCHANGED <<pos, child, room>>

WriteValue ==
  /\ pc = "write"
  /\ item.id \in DOMAIN Writers[request.object]
  /\ LET row == RowOf(request.object, item.id)
         f == FormatDataWriteExecute(row.type, item.children[child], room)
         outcomes == IF f.ok THEN WriteResource(Writers[request.object][item.id], f.buffer)
                     ELSE {Refused("INVALID_ARG")}
     IN  \E w \in outcomes :
           Called(w) /\ Advance(SetCoapError(w.sid, "write"), f.buffer.len)
  /\ UNCHANGED <<request, held, data, charSigned>>

ExecuteRefused ==
  /\ pc = "execute"
  /\ \/ item.id \notin Ids(request.object) /\ Answer("NOT_FOUND")
     \/ /\ item.id \in Ids(request.object) /\ item.id \notin Executors[request.object]
        /\ Answer("NOT_ALLOWED")
  /\ UNCHANGED <<request, held, data, pos, child, room, calls, charSigned>>

Execute ==
  /\ pc = "execute"
  /\ item.id \in Executors[request.object]
  /\ LET row == RowOf(request.object, item.id)
         f == FormatDataWriteExecute(row.type, item.children[1], Room)
     IN  \/ f.ok /\ \E sid \in PlatformSids :
                      /\ Called([sid |-> sid, value |-> <<Bytes(f.buffer)>>])
                      /\ Answer(SetCoapError(sid, "execute"))
         \/ ~f.ok /\ Answer("BAD_REQUEST") /\ calls' = calls
  /\ UNCHANGED <<request, held, data, pos, child, room, charSigned>>

-----------------------------------------------------------------------------
Init ==
  /\ pc = "idle" /\ result = "NO_ERROR"
  /\ request = [op |-> "none", object |-> "none", items |-> <<>>, found |-> FALSE, busy |-> FALSE]
  /\ held = <<>> /\ data = <<>> /\ calls = <<>>
  /\ pos = 1 /\ child = 1 /\ room = Room
  /\ charSigned \in BOOLEAN

Serve ==
  \/ ReadUnknown \/ ReadNotAllowed \/ ReadRegistered
  \/ WriteRefused \/ WriteValue
  \/ ExecuteRefused \/ Execute

Next == RequestRead \/ RequestWrite \/ RequestExecute \/ Serve

\* Once it has begun, a request is served: the platform calls return.
Spec == Init /\ [][Next]_vars /\ WF_vars(Serve)

-----------------------------------------------------------------------------
(* Properties *)

Answered(op) == pc = "answered" /\ request.op = op
Asked == [k \in DOMAIN request.items |-> request.items[k].id]

\* The platform has a value of the resource, or says that it fails.
Has(id) ==
  /\ held[id].sid = "OK"
  /\ Readers[request.object][id].fill = "list" => held[id].list # <<>>
Fails(id) == SetCoapError(held[id].sid, "read") \notin {"CONTENT", "NOT_FOUND"}

\* The answer to a read is the one that the resources alone determine: the code of
\* the first failure, or the resources that have a value, in their order, or "not
\* found" when none has.  The loop of ReadCb changes the array that it goes through.
AnswerIsComplete ==
  Answered("read") =>
    LET failing == {k \in DOMAIN Asked : Asked[k] \in DOMAIN held /\ Fails(Asked[k])}
        having == {k \in DOMAIN Asked : Asked[k] \in DOMAIN held /\ Has(Asked[k])}
    IN  IF ~request.found THEN result = "NOT_FOUND"
        ELSE IF request.busy THEN result = "INTERNAL_ERROR"
        ELSE IF Asked[1] \notin Ids(request.object) THEN result = "NOT_FOUND"
        ELSE IF "read" \notin RowOf(request.object, Asked[1]).ops THEN result = "NOT_ALLOWED"
        ELSE IF failing # {}
             THEN result = SetCoapError(held[Asked[Min(failing)]].sid, "read")
        ELSE /\ DOMAIN held = Range(Asked)
             /\ IF having = {} THEN result = "NOT_FOUND"
                ELSE /\ result = "CONTENT"
                     /\ [k \in DOMAIN data |-> data[k].id] = Selected(Asked, having)

\* Values that the code does not answer as the platform has them: a list as long as
\* the table allows loses its last element, currents are followed by -1, a missing
\* battery is -1, the server key is the empty buffer, negative numbers of the clock
\* are read as unsigned, an empty configuration is a zero, a time past 2^63 has no
\* length and an eDRX value takes two octets when its highest bit is set.
Misread(row, kind, list) ==
  \/ kind.fill \in {"list", "all"} /\ Len(list) = row.instances
  \/ kind.fill = "openList" /\ Len(list) # row.instances - 1
  \/ kind.fill = "battery" /\ list = <<>>
  \/ kind.fill = "untouched"
  \/ kind.value = "misread" /\ list[1] < 0
  \/ kind.fill = "padded" /\ list[1].len = 0
  \/ kind.value = "unsigned" /\ kind.size = 8 /\ list[1] > Top(8)
  \/ kind.value = "unsigned" /\ row.type = "opaque" /\ list[1] > Top(1)

\* The value of the platform as a message carries it
Carried(row, kind, v) ==
  CASE row.type = "bool" -> Truth(v = 1)
    [] row.type \in {"int", "time"} -> Number(v)
    [] OTHER -> IF kind.value = "unsigned" THEN Bytes(Buffer(1, v)) ELSE Bytes(v)

\* A value that is read is the one of the platform: through the sizes of the C types,
\* of the buffer and of the message no number changes, at any boundary, and no list
\* gains or loses an element, but for the cases of Misread.
ReadIsFaithful ==
  Answered("read") /\ result = "CONTENT" =>
    \A k \in DOMAIN data :
      LET row == RowOf(request.object, data[k].id)
          kind == Readers[request.object][data[k].id]
          list == held[data[k].id].list
      IN  Misread(row, kind, list)
          \/ data[k].values = [i \in DOMAIN list |-> Carried(row, kind, list[i])]

\* What the server means with a value, and the values that do not reach the platform
\* as they are meant: a number that is empty, negative in a text or an integer, out of
\* the range of the C type or of an odd number of octets, and a base64 text that ends
\* with a single padding character.
AsOctets(type, d) == d.form = "opaque" \/ (d.form = "text" /\ type = "opaque")
MeantNumber(type, d) == IF AsOctets(type, d) THEN Wrap(d.value, d.len) ELSE d.value
Meant(type, kind, d) ==
  CASE kind.value \in {"unsigned", "signed"} -> Number(MeantNumber(type, d))
    [] kind.value = "bool" -> Truth(MeantNumber(type, d) # 0)
    [] OTHER -> Bytes(Buffer(d.len, d.value))
Lossy(type, kind, d) ==
  LET n == MeantNumber(type, d)
  IN  \/ d.form = "text" /\ type = "opaque" /\ d.len % 3 = 2
      \/ /\ kind.value \in {"unsigned", "signed", "bool"}
         /\ \/ d.len = 0 /\ d.form # "integer"
            \/ AsOctets(type, d) /\ d.len \notin Sizes
            \/ n < 0 /\ (~AsOctets(type, d) \/ d.len = 1)
            \/ kind.value = "unsigned" /\ n \notin 0 .. Span(kind.size) - 1
            \/ kind.value = "signed" /\ n \notin -Top(kind.size) - 1 .. Top(kind.size)

\* "Changed" is a promise: the platform took every resource of the write with the
\* value that was meant (the last of several), or executed the resource.
ChangedMeansTaken ==
  pc = "answered" /\ result = "CHANGED" =>
    \A k \in DOMAIN request.items :
      LET it == request.items[k]
          d == Last(it.children)
      IN  \E c \in Range(calls) :
            /\ c.pos = k /\ c.child = Len(it.children) /\ c.sid = "OK"
            /\ request.op = "write" =>
                 LET row == RowOf(request.object, it.id)
                     kind == Writers[request.object][it.id]
                 IN  Lossy(row.type, kind, d) \/ c.value = Meant(row.type, kind, d)

\* Every request is answered, although a read goes on over an array that it shrinks.
Answers == pc \in {"read", "write", "execute"} ~> pc = "answered"
=============================================================================
