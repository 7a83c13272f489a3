--------------------------- MODULE ObjectsProofs ---------------------------
(***************************************************************************)
(* Proofs about Objects: a read is answered as the resources alone         *)
(* determine (AnswerCorrect), with the values of the platform              *)
(* (FaithfulCorrect), and "changed" means that the platform took what was  *)
(* meant (TakenCorrect), for every number of values of an octet, every     *)
(* size of the buffer that ObjectsAssumption allows and all numbers.       *)
(*                                                                         *)
(* None of the three is inductive: they speak of the answer, and the loop  *)
(* of ReadCb removes entries from the array that it goes through.  The     *)
(* invariant IInv says what the loop keeps: there is an order g in which   *)
(* the entries left follow the resources asked (Kept), the entries before  *)
(* pos are read, and a resource asked without an entry was found without a *)
(* value.  The conversions are lemmas of their own, by the kind of handler *)
(* (ElementRead, ValueMeant).                                              *)
(***************************************************************************)
EXTENDS Objects, FiniteSetTheorems, TLAPS

-----------------------------------------------------------------------------
(* Numbers *)

\* The spans of the sizes, each much larger than the one before
LEMMA SpanFacts ==
  /\ \A n \in Sizes : Span(n) \in Nat /\ Top(n) \in Nat /\ Span(n) = 2 * Top(n) + 2
  /\ Top(1) >= 1
  /\ \A m, n \in Sizes : m < n => Span(m) <= Top(n)
<1> DEFINE two == Octet * Octet
           four == two * two
           eight == four * four
<1>1. Octet \in Nat /\ Octet >= 4 /\ Octet % 2 = 0
  BY ObjectsAssumption DEF ObjectsAssumption
<1>2. \A a \in Nat : a >= 4 => a * a \in Nat /\ a * a >= 4 * a
  OBVIOUS
<1>3. \A a \in Nat : a % 2 = 0 => (a * a) % 2 = 0
  <2> SUFFICES ASSUME NEW a \in Nat, a % 2 = 0 PROVE (a * a) % 2 = 0
    OBVIOUS
  <2>1. a = 2 * (a \div 2) /\ a \div 2 \in Nat
    OBVIOUS
  <2> DEFINE h == a \div 2
  <2>2. a * a = 2 * (h * a) /\ h * a \in Nat
    BY <2>1
  <2> HIDE DEF h
  <2>3. \A x \in Nat : (2 * x) % 2 = 0
    OBVIOUS
  <2> QED
    BY <2>2, <2>3
<1>4. two \in Nat /\ two >= 4 * Octet /\ two % 2 = 0
  BY <1>1, <1>2, <1>3
<1> HIDE DEF two
<1>5. four \in Nat /\ four >= 4 * two /\ four % 2 = 0
  BY <1>1, <1>4, <1>2, <1>3
<1> HIDE DEF four
<1>6. eight \in Nat /\ eight >= 4 * four /\ eight % 2 = 0
  BY <1>1, <1>4, <1>5, <1>2, <1>3
<1> HIDE DEF eight
<1>7. Span(1) = Octet /\ Span(2) = two /\ Span(4) = four /\ Span(8) = eight
  BY DEF Span, two, four, eight
<1>8. \A s \in Nat : s >= 4 /\ s % 2 = 0 =>
        (s \div 2) - 1 \in Nat /\ s = 2 * ((s \div 2) - 1) + 2
  OBVIOUS
<1>9. \A n \in Sizes : Span(n) \in Nat /\ Span(n) >= 4 /\ Span(n) % 2 = 0
  BY <1>1, <1>4, <1>5, <1>6, <1>7 DEF Sizes
<1>10. \A n \in Sizes : Span(n) \in Nat /\ Top(n) \in Nat /\ Span(n) = 2 * Top(n) + 2
  BY <1>8, <1>9 DEF Top
<1>11. Span(2) >= 4 * Span(1) /\ Span(4) >= 4 * Span(2) /\ Span(8) >= 4 * Span(4)
  BY <1>4, <1>5, <1>6, <1>7
<1> HIDE DEF Top, Span
<1>12. Top(1) >= 1
  BY <1>1, <1>7, <1>10 DEF Sizes
<1>13. \A m, n \in Sizes : m < n => Span(m) <= Top(n)
  BY <1>10, <1>11 DEF Sizes
<1> QED
  BY <1>10, <1>12, <1>13

\* A remainder at most one span away
LEMMA ModFacts ==
  ASSUME NEW s \in Nat, NEW v \in Int
  PROVE  /\ 0 <= v /\ v < s => v % s = v
         /\ v < 0 /\ 0 <= v + s => v % s = v + s
         /\ s <= v /\ v < s + s => v % s = v - s
  OBVIOUS

\* The number of some octets read as a signed one, and back
LEMMA WrapFacts ==
  ASSUME NEW n \in Sizes, NEW v \in Int
  PROVE  /\ 0 <= v /\ v <= Top(n) => Wrap(v, n) = v
         /\ Top(n) < v /\ v < Span(n) => Wrap(v, n) = v - Span(n) /\ Wrap(v, n) < 0
         /\ v \in -Top(n) - 1 .. Top(n) =>
              Wrap(v, n) = v /\ v % Span(n) \in 0..Span(n) - 1 /\ Wrap(v % Span(n), n) = v
<1> DEFINE s == Span(n)
           t == Top(n)
<1>1. s \in Nat /\ t \in Nat /\ s = 2 * t + 2
  BY SpanFacts
<1>2. \A w : Wrap(w, n) = ((w + t + 1) % s) - t - 1
  BY DEF Wrap
<1> HIDE DEF s, t
<1>3. 0 <= v /\ v <= t => Wrap(v, n) = v
  BY <1>1, <1>2, ModFacts
<1>4. t < v /\ v < s => Wrap(v, n) = v - s /\ Wrap(v, n) < 0
  <2> HAVE t < v /\ v < s
  <2> DEFINE w == v + t + 1
  <2>1. w \in Int /\ s <= w /\ w < s + s
    BY <1>1
  <2> HIDE DEF w
  <2>2. w % s = w - s
    BY <1>1, <2>1, ModFacts
  <2> QED
    BY <1>1, <1>2, <2>2 DEF w
<1>5. v \in -t - 1 .. t => Wrap(v, n) = v /\ v % s \in 0..s - 1 /\ Wrap(v % s, n) = v
  <2> SUFFICES ASSUME v \in -t - 1 .. t
               PROVE  Wrap(v, n) = v /\ v % s \in 0..s - 1 /\ Wrap(v % s, n) = v
    OBVIOUS
  <2>1. Wrap(v, n) = v
    BY <1>1, <1>2, ModFacts
  <2>2. CASE 0 <= v
    <3>1. v % s = v
      BY <1>1, <2>2, ModFacts
    <3> QED
      BY <1>1, <2>1, <2>2, <3>1
  <2>3. CASE v < 0
    <3>1. v % s = v + s
      <4>1. v < 0 /\ 0 <= v + s
        BY <1>1, <2>3
      <4> QED
        BY <1>1, <4>1, ModFacts
    <3> DEFINE w == v + s + t + 1
    <3>2. w \in Int /\ s <= w /\ w < s + s
      BY <1>1, <2>3
    <3> HIDE DEF w
    <3>3. w % s = w - s
      BY <1>1, <3>2, ModFacts
    <3>4. (v + s + t + 1) % s = v + t + 1
      BY <1>1, <3>3 DEF w
    <3> QED
      BY <1>1, <1>2, <2>1, <2>3, <3>1, <3>4
  <2> QED
    BY <1>1, <2>2, <2>3
<1> QED
  BY <1>3, <1>4, <1>5 DEF s, t

\* The fewest octets of a set of sizes are in that set, and no other of them is fewer.
LEMMA LeastSize ==
  ASSUME NEW sizes \in SUBSET Sizes, sizes # {}
  PROVE  Min(sizes) \in sizes /\ \A m \in sizes : Min(sizes) <= m
<1>1. sizes \subseteq {1, 2, 4, 8}
  BY DEF Sizes
<1>2. \E n \in sizes : \A m \in sizes : n <= m
  <2>1. CASE 1 \in sizes
    BY <1>1, <2>1
  <2>2. CASE 1 \notin sizes /\ 2 \in sizes
    BY <1>1, <2>2
  <2>3. CASE 1 \notin sizes /\ 2 \notin sizes /\ 4 \in sizes
    BY <1>1, <2>3
  <2>4. CASE 1 \notin sizes /\ 2 \notin sizes /\ 4 \notin sizes
    <3>1. sizes = {8}
      BY <1>1, <2>4
    <3> QED
      BY <3>1
  <2> QED
    BY <2>1, <2>2, <2>3, <2>4
<1> QED
  BY <1>2 DEF Min

\* An unsigned number takes the fewest octets that leave its sign bit clear.
LEMMA FormatUnsigned ==
  ASSUME NEW size \in Sizes, NEW v \in 0..Span(size) - 1, size = 8 => v <= Top(8)
  PROVE  \E n \in Sizes : /\ FormatValueToBytes(v, size, FALSE) = Buffer(n, v)
                          /\ v <= Top(n)
                          /\ v <= Top(1) => n = 1
<1> DEFINE fits == {n \in Sizes : n <= 2 * size /\ v <= Top(n)}
<1>1. Span(size) \in Nat /\ v \in Int /\ 0 <= v /\ v < Span(size)
  BY SpanFacts
<1>2. v % Span(size) = v
  BY <1>1, ModFacts
<1>3. fits # {}
  <2>1. CASE size = 8
    <3>1. 8 \in fits
      BY <2>1 DEF Sizes
    <3> QED
      BY <3>1
  <2>2. CASE size # 8
    <3>1. 2 * size \in Sizes /\ size < 2 * size
      BY <2>2 DEF Sizes
    <3>2. Span(size) <= Top(2 * size) /\ Top(2 * size) \in Nat
      BY <3>1, SpanFacts
    <3>3. 2 * size \in fits
      BY <1>1, <3>1, <3>2 DEF Sizes
    <3> QED
      BY <3>3
  <2> QED
    BY <2>1, <2>2
<1>5. fits \subseteq Sizes
  OBVIOUS
<1>6. Min(fits) \in fits /\ \A m \in fits : Min(fits) <= m
  BY <1>3, <1>5, LeastSize
<1>7. v <= Top(1) => Min(fits) = 1
  <2> HAVE v <= Top(1)
  <2>1. 1 \in fits
    BY DEF Sizes
  <2> QED
    BY <2>1, <1>6 DEF Sizes
<1>8. FormatValueToBytes(v, size, FALSE) = Buffer(Min(fits), v)
  BY <1>2, <1>3 DEF FormatValueToBytes
<1> QED
  BY <1>6, <1>7, <1>8

\* A number that does not fit has no length, which is not 0.
LEMMA FormatLength ==
  ASSUME NEW v, NEW size \in Sizes, NEW signed \in BOOLEAN
  PROVE  FormatValueToBytes(v, size, signed).len # 0
<1> DEFINE fits == {n \in Sizes : n <= 2 * size /\ v % Span(size) <= Top(n)}
<1>1. CASE signed
  BY <1>1 DEF FormatValueToBytes, Buffer, Sizes
<1>2. CASE ~signed /\ fits = {}
  BY <1>2 DEF FormatValueToBytes, Buffer, NoLength
<1>3. CASE ~signed /\ fits # {}
  <2>1. Min(fits) \in Sizes
    BY <1>3, LeastSize
  <2>2. FormatValueToBytes(v, size, signed) = Buffer(Min(fits), v % Span(size))
    BY <1>3 DEF FormatValueToBytes
  <2> HIDE DEF fits
  <2> QED
    BY <2>1, <2>2 DEF Buffer, Sizes
<1> QED
  BY <1>1, <1>2, <1>3
(* The table and the handlers fit *)

\* A handler fills as many instances as its resource has, with what can be encoded
\* as the type of the resource.
FitsNumber(row, kind) ==
  /\ kind.value \in {"unsigned", "signed", "misread", "bool"} /\ kind.size \in Sizes
  /\ kind.fill \notin {"untouched", "padded"}
  /\ kind.fill = "one" \/ (kind.size # 8 /\ kind.value # "misread")
  /\ kind.value = "signed" => kind.size # 1
  /\ row.type = "bool" => kind.value = "bool"
  /\ \/ IsNumber(row.type)
     \/ row.type = "opaque" /\ kind.value = "unsigned" /\ kind.size = 1 /\ kind.fill = "one"
FitsOctets(row, kind) ==
  /\ kind.value \in {"text", "octets", "velocity"} /\ ~IsNumber(row.type)
  /\ kind.fill \in {"one", "list", "padded", "untouched"}
  /\ kind.value = "velocity" => kind.fill = "one"
Fits(row, kind) ==
  /\ \/ row.instances = 1 /\ kind.fill \in {"one", "battery", "untouched", "never"}
     \/ row.instances = Many /\ kind.fill \in {"list", "openList"}
     \/ row.instances = 2 /\ kind.fill \in {"all", "padded"}
  /\ \/ kind.fill = "never" /\ kind.value \in {"NOT_YET_IMPLEMENTED", "INVALID_STATE"}
     \/ kind.fill # "never" /\ (FitsNumber(row, kind) \/ FitsOctets(row, kind))

FittingAt(rows, k, readers) == "read" \in rows[k].ops => Fits(rows[k], readers[rows[k].id])
Fitting(rows, readers) == \A k \in DOMAIN rows : FittingAt(rows, k, readers)
Unique(rows) == \A k, l \in DOMAIN rows : rows[k].id = rows[l].id => k = l

\* Two functions joined: where both have a value, the first one counts.
LEMMA JoinedAt ==
  ASSUME NEW f, NEW g, NEW x
  PROVE  /\ x \in DOMAIN f => Joined(f, g)[x] = f[x]
         /\ x \in DOMAIN g /\ x \notin DOMAIN f => Joined(f, g)[x] = g[x]
  BY DEF Joined

\* Two functions joined have a value wherever one of them has.
LEMMA JoinedDomain ==
  ASSUME NEW f, NEW g
  PROVE  DOMAIN Joined(f, g) = DOMAIN f \cup DOMAIN g
  BY DEF Joined

\* Every resource of the table that can be read has a handler that fits its row.
LEMMA TableFits ==
  /\ \A object \in DOMAIN ObjArray : Fitting(ObjArray[object], Readers[object])
  /\ \A object \in DOMAIN ObjArray : Unique(ObjArray[object])
<1>1. Fitting(SecurityResources, ReadSecurity) /\ Unique(SecurityResources)
  <2> DEFINE rows == SecurityResources
         readers == ReadSecurity
  <2>1. /\ DOMAIN rows = 1..13
        /\ rows[1] = Settable("serverUri", "string")
        /\ rows[2] = Settable("bootstrapServer", "bool")
        /\ rows[3] = Settable("securityMode", "int") /\ rows[4] = Settable("publicKey", "opaque")
        /\ rows[5] = Settable("serverKey", "opaque") /\ rows[6] = Settable("secretKey", "opaque")
        /\ rows[7] = Writable("smsSecurityMode", "int")
        /\ rows[8] = Writable("smsKeyParameters", "opaque")
        /\ rows[9] = Writable("smsSecretKey", "opaque")
        /\ rows[10] = Writable("smsNumber", "string")
        /\ rows[11] = Settable("shortServerId", "int")
        /\ rows[12] = Settable("holdOffTime", "int")
        /\ rows[13] = Settable("accountTimeout", "int")
    BY DEF SecurityResources
  <2>2. /\ readers.serverUri = Text /\ readers.bootstrapServer = Bool
        /\ readers.securityMode = Enum /\ readers.publicKey = Octets
        /\ readers.serverKey = Kind("octets", 0, "untouched") /\ readers.secretKey = Octets
        /\ readers.shortServerId = Unsigned(2) /\ readers.holdOffTime = Unsigned(2)
        /\ readers.accountTimeout = Never("NOT_YET_IMPLEMENTED")
    BY DEF ReadSecurity
  <2> HIDE DEF rows, readers
  <2>3. /\ FittingAt(rows, 1, readers) /\ FittingAt(rows, 2, readers)
        /\ FittingAt(rows, 3, readers) /\ FittingAt(rows, 4, readers)
    BY <2>1, <2>2 DEF FittingAt, Fits, FitsNumber, FitsOctets, IsNumber, Sizes, Row, Readable,
       Listed, Writable, Settable, Executable, Kind, Text, Octets,
       Unsigned, Signed, Enum, Bool, ListOf, Never
  <2>4. /\ FittingAt(rows, 5, readers) /\ FittingAt(rows, 6, readers)
        /\ FittingAt(rows, 7, readers) /\ FittingAt(rows, 8, readers)
    BY <2>1, <2>2 DEF FittingAt, Fits, FitsNumber, FitsOctets, IsNumber, Sizes, Row, Readable,
       Listed, Writable, Settable, Executable, Kind, Text, Octets,
       Unsigned, Signed, Enum, Bool, ListOf, Never
  <2>5. /\ FittingAt(rows, 9, readers) /\ FittingAt(rows, 10, readers)
        /\ FittingAt(rows, 11, readers) /\ FittingAt(rows, 12, readers)
    BY <2>1, <2>2 DEF FittingAt, Fits, FitsNumber, FitsOctets, IsNumber, Sizes, Row, Readable,
       Listed, Writable, Settable, Executable, Kind, Text, Octets,
       Unsigned, Signed, Enum, Bool, ListOf, Never
  <2>6. FittingAt(rows, 13, readers)
    BY <2>1, <2>2 DEF FittingAt, Fits, FitsNumber, FitsOctets, IsNumber, Sizes, Row, Readable,
       Listed, Writable, Settable, Executable, Kind, Text, Octets,
       Unsigned, Signed, Enum, Bool, ListOf, Never
  <2>7. Fitting(rows, readers)
    BY <2>1, <2>3, <2>4, <2>5, <2>6 DEF Fitting
  <2>8. Unique(rows)
    BY <2>1 DEF Unique, Row, Readable, Listed, Writable, Settable, Executable
  <2> QED
    BY <2>7, <2>8 DEF rows, readers
<1>2. Fitting(ServerResources, ReadServer) /\ Unique(ServerResources)
  <2> DEFINE rows == ServerResources
         readers == ReadServer
  <2>1. /\ DOMAIN rows = 1..7
        /\ rows[1] = Settable("shortServerId", "int") /\ rows[2] = Settable("lifetime", "int")
        /\ rows[3] = Settable("minPeriod", "int") /\ rows[4] = Settable("maxPeriod", "int")
        /\ rows[5] = Settable("disableTimeout", "int")
        /\ rows[6] = Settable("storesNotifications", "bool")
        /\ rows[7] = Settable("bindingMode", "string")
    BY DEF ServerResources
  <2>2. /\ readers.shortServerId = Unsigned(2) /\ readers.lifetime = Unsigned(4)
        /\ readers.minPeriod = Unsigned(2) /\ readers.maxPeriod = Unsigned(2)
        /\ readers.disableTimeout = Unsigned(4) /\ readers.storesNotifications = Bool
        /\ readers.bindingMode = Text
    BY DEF ReadServer
  <2> HIDE DEF rows, readers
  <2>3. /\ FittingAt(rows, 1, readers) /\ FittingAt(rows, 2, readers)
        /\ FittingAt(rows, 3, readers) /\ FittingAt(rows, 4, readers)
    BY <2>1, <2>2 DEF FittingAt, Fits, FitsNumber, FitsOctets, IsNumber, Sizes, Row, Readable,
       Listed, Writable, Settable, Executable, Kind, Text, Octets,
       Unsigned, Signed, Enum, Bool, ListOf, Never
  <2>4. /\ FittingAt(rows, 5, readers) /\ FittingAt(rows, 6, readers)
        /\ FittingAt(rows, 7, readers)
    BY <2>1, <2>2 DEF FittingAt, Fits, FitsNumber, FitsOctets, IsNumber, Sizes, Row, Readable,
       Listed, Writable, Settable, Executable, Kind, Text, Octets,
       Unsigned, Signed, Enum, Bool, ListOf, Never
  <2>5. Fitting(rows, readers)
    BY <2>1, <2>3, <2>4 DEF Fitting
  <2>6. Unique(rows)
    BY <2>1 DEF Unique, Row, Readable, Listed, Writable, Settable, Executable
  <2> QED
    BY <2>5, <2>6 DEF rows, readers
<1>3. Fitting(DeviceResources, Joined(ReadDevice, Joined(ReadPower, ReadBattery))) /\ Unique(DeviceResources)
  <2> DEFINE rows == DeviceResources
         readers == Joined(ReadDevice, Joined(ReadPower, ReadBattery))
  <2>1. /\ DOMAIN rows = 1..12
        /\ rows[1] = Readable("manufacturer", "string")
        /\ rows[2] = Readable("modelNumber", "string")
        /\ rows[3] = Readable("serialNumber", "string")
        /\ rows[4] = Readable("firmwareVersion", "string")
        /\ rows[5] = Executable("reboot", "unknown") /\ rows[6] = Listed("powerSources", "int")
        /\ rows[7] = Listed("powerVoltages", "int") /\ rows[8] = Listed("powerCurrents", "int")
        /\ rows[9] = Readable("batteryLevel", "int") /\ rows[10] = Settable("currentTime", "time")
        /\ rows[11] = Settable("bindingMode", "string")
        /\ rows[12] = Readable("batteryStatus", "int")
    BY DEF DeviceResources
  <2>2. /\ DOMAIN ReadDevice = {"manufacturer", "modelNumber", "serialNumber", "firmwareVersion", "currentTime", "bindingMode"}
        /\ ReadDevice.manufacturer = Text /\ ReadDevice.modelNumber = Text
        /\ ReadDevice.serialNumber = Text /\ ReadDevice.firmwareVersion = Text
        /\ ReadDevice.currentTime = Unsigned(8) /\ ReadDevice.bindingMode = Text
    BY DEF ReadDevice
  <2>3. /\ DOMAIN ReadPower = {"powerSources", "powerVoltages", "powerCurrents"}
        /\ ReadPower.powerSources = ListOf(Enum) /\ ReadPower.powerVoltages = ListOf(Unsigned(4))
        /\ ReadPower.powerCurrents = Kind("unsigned", 2, "openList")
    BY DEF ReadPower
  <2>4. /\ DOMAIN ReadBattery = {"batteryLevel", "batteryStatus"}
        /\ ReadBattery.batteryLevel = Kind("unsigned", 1, "battery")
        /\ ReadBattery.batteryStatus = Kind("unsigned", 4, "battery")
    BY DEF ReadBattery
  <2>5. /\ readers.manufacturer = Text /\ readers.modelNumber = Text
        /\ readers.serialNumber = Text /\ readers.firmwareVersion = Text
        /\ readers.currentTime = Unsigned(8) /\ readers.bindingMode = Text
        /\ readers.powerSources = ListOf(Enum) /\ readers.powerVoltages = ListOf(Unsigned(4))
        /\ readers.powerCurrents = Kind("unsigned", 2, "openList")
        /\ readers.batteryLevel = Kind("unsigned", 1, "battery")
        /\ readers.batteryStatus = Kind("unsigned", 4, "battery")
    <3> DEFINE power == Joined(ReadPower, ReadBattery)
    <3>1. DOMAIN power = DOMAIN ReadPower \cup DOMAIN ReadBattery
      BY JoinedDomain
    <3>2. /\ power.powerSources = ListOf(Enum) /\ power.powerVoltages = ListOf(Unsigned(4))
          /\ power.powerCurrents = Kind("unsigned", 2, "openList")
          /\ power.batteryLevel = Kind("unsigned", 1, "battery")
          /\ power.batteryStatus = Kind("unsigned", 4, "battery")
      BY <2>3, <2>4, JoinedAt
    <3>3. readers = Joined(ReadDevice, power)
      OBVIOUS
    <3> HIDE DEF power, readers
    <3>4. /\ readers.manufacturer = Text /\ readers.modelNumber = Text
          /\ readers.serialNumber = Text /\ readers.firmwareVersion = Text
          /\ readers.currentTime = Unsigned(8) /\ readers.bindingMode = Text
      BY <2>2, <3>3, JoinedAt
    <3>5. \A id \in DOMAIN power : readers[id] = power[id]
      <4>1. DOMAIN power \cap DOMAIN ReadDevice = {}
        BY <2>2, <2>3, <2>4, <3>1
      <4> QED
        BY <3>3, <4>1, JoinedAt
    <3> QED
      BY <2>3, <2>4, <3>1, <3>2, <3>4, <3>5
  <2> HIDE DEF rows, readers
  <2>6. /\ FittingAt(rows, 1, readers) /\ FittingAt(rows, 2, readers)
        /\ FittingAt(rows, 3, readers) /\ FittingAt(rows, 4, readers)
    BY <2>1, <2>5 DEF FittingAt, Fits, FitsNumber, FitsOctets, IsNumber, Sizes, Row, Readable,
       Listed, Writable, Settable, Executable, Kind, Text, Octets,
       Unsigned, Signed, Enum, Bool, ListOf, Never
  <2>7. /\ FittingAt(rows, 5, readers) /\ FittingAt(rows, 6, readers)
        /\ FittingAt(rows, 7, readers) /\ FittingAt(rows, 8, readers)
    BY <2>1, <2>5 DEF FittingAt, Fits, FitsNumber, FitsOctets, IsNumber, Sizes, Row, Readable,
       Listed, Writable, Settable, Executable, Kind, Text, Octets,
       Unsigned, Signed, Enum, Bool, ListOf, Never
  <2>8. /\ FittingAt(rows, 9, readers) /\ FittingAt(rows, 10, readers)
        /\ FittingAt(rows, 11, readers) /\ FittingAt(rows, 12, readers)
    BY <2>1, <2>5 DEF FittingAt, Fits, FitsNumber, FitsOctets, IsNumber, Sizes, Row, Readable,
       Listed, Writable, Settable, Executable, Kind, Text, Octets,
       Unsigned, Signed, Enum, Bool, ListOf, Never
  <2>9. Fitting(rows, readers)
    BY <2>1, <2>6, <2>7, <2>8 DEF Fitting
  <2>10. Unique(rows)
    BY <2>1 DEF Unique, Row, Readable, Listed, Writable, Settable, Executable
  <2> QED
    BY <2>9, <2>10 DEF rows, readers
<1>4. Fitting(ConnectivityMonitoringResources, Joined(ReadMonitoring, ReadAddresses)) /\ Unique(ConnectivityMonitoringResources)
  <2> DEFINE rows == ConnectivityMonitoringResources
         readers == Joined(ReadMonitoring, ReadAddresses)
  <2>1. /\ DOMAIN rows = 1..11
        /\ rows[1] = Readable("networkBearer", "int")
        /\ rows[2] = Listed("availableBearers", "int")
        /\ rows[3] = Readable("signalStrength", "int") /\ rows[4] = Readable("linkQuality", "int")
        /\ rows[5] = Listed("ipAddresses", "string")
        /\ rows[6] = Listed("routerAddresses", "string")
        /\ rows[7] = Readable("linkUtilization", "int") /\ rows[8] = Listed("apn", "string")
        /\ rows[9] = Readable("cellId", "int") /\ rows[10] = Readable("smnc", "int")
        /\ rows[11] = Readable("smcc", "int")
    BY DEF ConnectivityMonitoringResources
  <2>2. /\ DOMAIN ReadMonitoring = {"networkBearer", "availableBearers", "signalStrength", "linkQuality"}
        /\ ReadMonitoring.networkBearer = Enum /\ ReadMonitoring.availableBearers = ListOf(Enum)
        /\ ReadMonitoring.signalStrength = Signed(4) /\ ReadMonitoring.linkQuality = Signed(4)
    BY DEF ReadMonitoring
  <2>3. /\ DOMAIN ReadAddresses = {"ipAddresses", "routerAddresses", "linkUtilization", "apn", "cellId", "smnc", "smcc"}
        /\ ReadAddresses.ipAddresses = ListOf(Text)
        /\ ReadAddresses.routerAddresses = ListOf(Text)
        /\ ReadAddresses.linkUtilization = Unsigned(1) /\ ReadAddresses.apn = ListOf(Text)
        /\ ReadAddresses.cellId = Unsigned(4) /\ ReadAddresses.smnc = Unsigned(2)
        /\ ReadAddresses.smcc = Unsigned(2)
    BY DEF ReadAddresses
  <2>4. /\ readers.networkBearer = Enum /\ readers.availableBearers = ListOf(Enum)
        /\ readers.signalStrength = Signed(4) /\ readers.linkQuality = Signed(4)
        /\ readers.ipAddresses = ListOf(Text) /\ readers.routerAddresses = ListOf(Text)
        /\ readers.linkUtilization = Unsigned(1) /\ readers.apn = ListOf(Text)
        /\ readers.cellId = Unsigned(4) /\ readers.smnc = Unsigned(2)
        /\ readers.smcc = Unsigned(2)
    BY <2>2, <2>3, JoinedAt, JoinedDomain
  <2> HIDE DEF rows, readers
  <2>5. /\ FittingAt(rows, 1, readers) /\ FittingAt(rows, 2, readers)
        /\ FittingAt(rows, 3, readers) /\ FittingAt(rows, 4, readers)
    BY <2>1, <2>4 DEF FittingAt, Fits, FitsNumber, FitsOctets, IsNumber, Sizes, Row, Readable,
       Listed, Writable, Settable, Executable, Kind, Text, Octets,
       Unsigned, Signed, Enum, Bool, ListOf, Never
  <2>6. /\ FittingAt(rows, 5, readers) /\ FittingAt(rows, 6, readers)
        /\ FittingAt(rows, 7, readers) /\ FittingAt(rows, 8, readers)
    BY <2>1, <2>4 DEF FittingAt, Fits, FitsNumber, FitsOctets, IsNumber, Sizes, Row, Readable,
       Listed, Writable, Settable, Executable, Kind, Text, Octets,
       Unsigned, Signed, Enum, Bool, ListOf, Never
  <2>7. /\ FittingAt(rows, 9, readers) /\ FittingAt(rows, 10, readers)
        /\ FittingAt(rows, 11, readers)
    BY <2>1, <2>4 DEF FittingAt, Fits, FitsNumber, FitsOctets, IsNumber, Sizes, Row, Readable,
       Listed, Writable, Settable, Executable, Kind, Text, Octets,
       Unsigned, Signed, Enum, Bool, ListOf, Never
  <2>8. Fitting(rows, readers)
    BY <2>1, <2>5, <2>6, <2>7 DEF Fitting
  <2>9. Unique(rows)
    BY <2>1 DEF Unique, Row, Readable, Listed, Writable, Settable, Executable
  <2> QED
    BY <2>8, <2>9 DEF rows, readers
<1>5. Fitting(FirmwareUpdateResources, ReadFirmware) /\ Unique(FirmwareUpdateResources)
  <2> DEFINE rows == FirmwareUpdateResources
         readers == ReadFirmware
  <2>1. /\ DOMAIN rows = 1..7
        /\ rows[1] = Writable("package", "opaque") /\ rows[2] = Settable("packageUri", "string")
        /\ rows[3] = Executable("update", "unknown") /\ rows[4] = Readable("updateState", "int")
        /\ rows[5] = Readable("updateResult", "int")
        /\ rows[6] = Row("protocolSupport", "int", 2, {"read"})
        /\ rows[7] = Readable("deliveryMethod", "int")
    BY DEF FirmwareUpdateResources
  <2>2. /\ readers.packageUri = Text /\ readers.updateState = Enum /\ readers.updateResult = Enum
        /\ readers.protocolSupport = Kind("unsigned", 4, "all") /\ readers.deliveryMethod = Enum
    BY DEF ReadFirmware
  <2> HIDE DEF rows, readers
  <2>3. /\ FittingAt(rows, 1, readers) /\ FittingAt(rows, 2, readers)
        /\ FittingAt(rows, 3, readers) /\ FittingAt(rows, 4, readers)
    BY <2>1, <2>2 DEF FittingAt, Fits, FitsNumber, FitsOctets, IsNumber, Sizes, Row, Readable,
       Listed, Writable, Settable, Executable, Kind, Text, Octets,
       Unsigned, Signed, Enum, Bool, ListOf, Never
  <2>4. /\ FittingAt(rows, 5, readers) /\ FittingAt(rows, 6, readers)
        /\ FittingAt(rows, 7, readers)
    BY <2>1, <2>2 DEF FittingAt, Fits, FitsNumber, FitsOctets, IsNumber, Sizes, Row, Readable,
       Listed, Writable, Settable, Executable, Kind, Text, Octets,
       Unsigned, Signed, Enum, Bool, ListOf, Never
  <2>5. Fitting(rows, readers)
    BY <2>1, <2>3, <2>4 DEF Fitting
  <2>6. Unique(rows)
    BY <2>1 DEF Unique, Row, Readable, Listed, Writable, Settable, Executable
  <2> QED
    BY <2>5, <2>6 DEF rows, readers
<1>6. Fitting(LocationResources, ReadLocation) /\ Unique(LocationResources)
  <2> DEFINE rows == LocationResources
         readers == ReadLocation
  <2>1. /\ DOMAIN rows = 1..5
        /\ rows[1] = Readable("latitude", "string") /\ rows[2] = Readable("longitude", "string")
        /\ rows[3] = Readable("altitude", "string") /\ rows[4] = Readable("velocity", "opaque")
        /\ rows[5] = Readable("timestamp", "time")
    BY DEF LocationResources
  <2>2. /\ readers.latitude = Text /\ readers.longitude = Text /\ readers.altitude = Text
        /\ readers.velocity = Kind("velocity", 0, "one") /\ readers.timestamp = Unsigned(8)
    BY DEF ReadLocation
  <2> HIDE DEF rows, readers
  <2>3. /\ FittingAt(rows, 1, readers) /\ FittingAt(rows, 2, readers)
        /\ FittingAt(rows, 3, readers) /\ FittingAt(rows, 4, readers)
    BY <2>1, <2>2 DEF FittingAt, Fits, FitsNumber, FitsOctets, IsNumber, Sizes, Row, Readable,
       Listed, Writable, Settable, Executable, Kind, Text, Octets,
       Unsigned, Signed, Enum, Bool, ListOf, Never
  <2>4. FittingAt(rows, 5, readers)
    BY <2>1, <2>2 DEF FittingAt, Fits, FitsNumber, FitsOctets, IsNumber, Sizes, Row, Readable,
       Listed, Writable, Settable, Executable, Kind, Text, Octets,
       Unsigned, Signed, Enum, Bool, ListOf, Never
  <2>5. Fitting(rows, readers)
    BY <2>1, <2>3, <2>4 DEF Fitting
  <2>6. Unique(rows)
    BY <2>1 DEF Unique, Row, Readable, Listed, Writable, Settable, Executable
  <2> QED
    BY <2>5, <2>6 DEF rows, readers
<1>7. Fitting(ConnectivityStatisticsResources, ReadStatistics) /\ Unique(ConnectivityStatisticsResources)
  <2> DEFINE rows == ConnectivityStatisticsResources
         readers == ReadStatistics
  <2>1. /\ DOMAIN rows = 1..6
        /\ rows[1] = Readable("txSms", "int") /\ rows[2] = Readable("rxSms", "int")
        /\ rows[3] = Readable("txData", "int") /\ rows[4] = Readable("rxData", "int")
        /\ rows[5] = Executable("start", "unknown") /\ rows[6] = Executable("stop", "unknown")
    BY DEF ConnectivityStatisticsResources
  <2>2. /\ readers.txSms = Unsigned(8) /\ readers.rxSms = Unsigned(8)
        /\ readers.txData = Unsigned(8) /\ readers.rxData = Unsigned(8)
    BY DEF ReadStatistics
  <2> HIDE DEF rows, readers
  <2>3. /\ FittingAt(rows, 1, readers) /\ FittingAt(rows, 2, readers)
        /\ FittingAt(rows, 3, readers) /\ FittingAt(rows, 4, readers)
    BY <2>1, <2>2 DEF FittingAt, Fits, FitsNumber, FitsOctets, IsNumber, Sizes, Row, Readable,
       Listed, Writable, Settable, Executable, Kind, Text, Octets,
       Unsigned, Signed, Enum, Bool, ListOf, Never
  <2>4. /\ FittingAt(rows, 5, readers) /\ FittingAt(rows, 6, readers)
    BY <2>1, <2>2 DEF FittingAt, Fits, FitsNumber, FitsOctets, IsNumber, Sizes, Row, Readable,
       Listed, Writable, Settable, Executable, Kind, Text, Octets,
       Unsigned, Signed, Enum, Bool, ListOf, Never
  <2>5. Fitting(rows, readers)
    BY <2>1, <2>3, <2>4 DEF Fitting
  <2>6. Unique(rows)
    BY <2>1 DEF Unique, Row, Readable, Listed, Writable, Settable, Executable
  <2> QED
    BY <2>5, <2>6 DEF rows, readers
<1>8. Fitting(SoftwareUpdateResources, ReadSoftware) /\ Unique(SoftwareUpdateResources)
  <2> DEFINE rows == SoftwareUpdateResources
         readers == ReadSoftware
  <2>1. /\ DOMAIN rows = 1..11
        /\ rows[1] = Readable("packageName", "string")
        /\ rows[2] = Readable("packageVersion", "string")
        /\ rows[3] = Writable("packageUri", "string")
        /\ rows[4] = Executable("install", "unknown") /\ rows[5] = Executable("uninstall", "int")
        /\ rows[6] = Readable("updateState", "int")
        /\ rows[7] = Settable("supportedObjects", "bool")
        /\ rows[8] = Readable("updateResult", "int")
        /\ rows[9] = Executable("activate", "unknown")
        /\ rows[10] = Executable("deactivate", "unknown")
        /\ rows[11] = Readable("activationState", "int")
    BY DEF SoftwareUpdateResources
  <2>2. /\ readers.packageName = Text /\ readers.packageVersion = Text
        /\ readers.updateState = Unsigned(1) /\ readers.supportedObjects = Bool
        /\ readers.updateResult = Unsigned(1) /\ readers.activationState = Bool
    BY DEF ReadSoftware
  <2> HIDE DEF rows, readers
  <2>3. /\ FittingAt(rows, 1, readers) /\ FittingAt(rows, 2, readers)
        /\ FittingAt(rows, 3, readers) /\ FittingAt(rows, 4, readers)
    BY <2>1, <2>2 DEF FittingAt, Fits, FitsNumber, FitsOctets, IsNumber, Sizes, Row, Readable,
       Listed, Writable, Settable, Executable, Kind, Text, Octets,
       Unsigned, Signed, Enum, Bool, ListOf, Never
  <2>4. /\ FittingAt(rows, 5, readers) /\ FittingAt(rows, 6, readers)
        /\ FittingAt(rows, 7, readers) /\ FittingAt(rows, 8, readers)
    BY <2>1, <2>2 DEF FittingAt, Fits, FitsNumber, FitsOctets, IsNumber, Sizes, Row, Readable,
       Listed, Writable, Settable, Executable, Kind, Text, Octets,
       Unsigned, Signed, Enum, Bool, ListOf, Never
  <2>5. /\ FittingAt(rows, 9, readers) /\ FittingAt(rows, 10, readers)
        /\ FittingAt(rows, 11, readers)
    BY <2>1, <2>2 DEF FittingAt, Fits, FitsNumber, FitsOctets, IsNumber, Sizes, Row, Readable,
       Listed, Writable, Settable, Executable, Kind, Text, Octets,
       Unsigned, Signed, Enum, Bool, ListOf, Never
  <2>6. Fitting(rows, readers)
    BY <2>1, <2>3, <2>4, <2>5 DEF Fitting
  <2>7. Unique(rows)
    BY <2>1 DEF Unique, Row, Readable, Listed, Writable, Settable, Executable
  <2> QED
    BY <2>6, <2>7 DEF rows, readers
<1>9. Fitting(CellularConnectivityResources, ReadCellular) /\ Unique(CellularConnectivityResources)
  <2> DEFINE rows == CellularConnectivityResources
         readers == ReadCellular
  <2>1. /\ DOMAIN rows = 1..11
        /\ rows[1] = Settable("smscAddress", "string")
        /\ rows[2] = Settable("disableRadioPeriod", "int")
        /\ rows[3] = Settable("activationCode", "string") /\ rows[4] = Settable("psmTimer", "int")
        /\ rows[5] = Settable("activeTimer", "int")
        /\ rows[6] = Readable("plmnRateControl", "int") /\ rows[7] = Settable("edrxIu", "opaque")
        /\ rows[8] = Settable("edrxWbS1", "opaque") /\ rows[9] = Settable("edrxNbS1", "opaque")
        /\ rows[10] = Settable("edrxAgb", "opaque")
        /\ rows[11] = Readable("profileName", "string")
    BY DEF CellularConnectivityResources
  <2>2. /\ readers.smscAddress = Never("INVALID_STATE")
        /\ readers.disableRadioPeriod = Never("INVALID_STATE")
        /\ readers.activationCode = Never("INVALID_STATE")
        /\ readers.psmTimer = Never("INVALID_STATE")
        /\ readers.activeTimer = Never("INVALID_STATE")
        /\ readers.plmnRateControl = Never("INVALID_STATE") /\ readers.edrxIu = Unsigned(1)
        /\ readers.edrxWbS1 = Unsigned(1) /\ readers.edrxNbS1 = Unsigned(1)
        /\ readers.edrxAgb = Unsigned(1) /\ readers.profileName = Never("INVALID_STATE")
    BY DEF ReadCellular
  <2> HIDE DEF rows, readers
  <2>3. /\ FittingAt(rows, 1, readers) /\ FittingAt(rows, 2, readers)
        /\ FittingAt(rows, 3, readers) /\ FittingAt(rows, 4, readers)
    BY <2>1, <2>2 DEF FittingAt, Fits, FitsNumber, FitsOctets, IsNumber, Sizes, Row, Readable,
       Listed, Writable, Settable, Executable, Kind, Text, Octets,
       Unsigned, Signed, Enum, Bool, ListOf, Never
  <2>4. /\ FittingAt(rows, 5, readers) /\ FittingAt(rows, 6, readers)
        /\ FittingAt(rows, 7, readers) /\ FittingAt(rows, 8, readers)
    BY <2>1, <2>2 DEF FittingAt, Fits, FitsNumber, FitsOctets, IsNumber, Sizes, Row, Readable,
       Listed, Writable, Settable, Executable, Kind, Text, Octets,
       Unsigned, Signed, Enum, Bool, ListOf, Never
  <2>5. /\ FittingAt(rows, 9, readers) /\ FittingAt(rows, 10, readers)
        /\ FittingAt(rows, 11, readers)
    BY <2>1, <2>2 DEF FittingAt, Fits, FitsNumber, FitsOctets, IsNumber, Sizes, Row, Readable,
       Listed, Writable, Settable, Executable, Kind, Text, Octets,
       Unsigned, Signed, Enum, Bool, ListOf, Never
  <2>6. Fitting(rows, readers)
    BY <2>1, <2>3, <2>4, <2>5 DEF Fitting
  <2>7. Unique(rows)
    BY <2>1 DEF Unique, Row, Readable, Listed, Writable, Settable, Executable
  <2> QED
    BY <2>6, <2>7 DEF rows, readers
<1>10. Fitting(SubscriptionResources, ReadSubscription) /\ Unique(SubscriptionResources)
  <2> DEFINE rows == SubscriptionResources
         readers == ReadSubscription
  <2>1. /\ DOMAIN rows = 1..8
        /\ rows[1] = Readable("imei", "string") /\ rows[2] = Readable("iccid", "string")
        /\ rows[3] = Readable("identity", "string") /\ rows[4] = Readable("msisdn", "string")
        /\ rows[5] = Executable("simMode", "string") /\ rows[6] = Readable("currentSim", "int")
        /\ rows[7] = Readable("currentSimMode", "int")
        /\ rows[8] = Readable("simSwitchStatus", "int")
    BY DEF SubscriptionResources
  <2>2. /\ readers.imei = Text /\ readers.iccid = Text /\ readers.identity = Text
        /\ readers.msisdn = Text /\ readers.currentSim = Unsigned(1)
        /\ readers.currentSimMode = Unsigned(1) /\ readers.simSwitchStatus = Unsigned(1)
    BY DEF ReadSubscription
  <2> HIDE DEF rows, readers
  <2>3. /\ FittingAt(rows, 1, readers) /\ FittingAt(rows, 2, readers)
        /\ FittingAt(rows, 3, readers) /\ FittingAt(rows, 4, readers)
    BY <2>1, <2>2 DEF FittingAt, Fits, FitsNumber, FitsOctets, IsNumber, Sizes, Row, Readable,
       Listed, Writable, Settable, Executable, Kind, Text, Octets,
       Unsigned, Signed, Enum, Bool, ListOf, Never
  <2>4. /\ FittingAt(rows, 5, readers) /\ FittingAt(rows, 6, readers)
        /\ FittingAt(rows, 7, readers) /\ FittingAt(rows, 8, readers)
    BY <2>1, <2>2 DEF FittingAt, Fits, FitsNumber, FitsOctets, IsNumber, Sizes, Row, Readable,
       Listed, Writable, Settable, Executable, Kind, Text, Octets,
       Unsigned, Signed, Enum, Bool, ListOf, Never
  <2>5. Fitting(rows, readers)
    BY <2>1, <2>3, <2>4 DEF Fitting
  <2>6. Unique(rows)
    BY <2>1 DEF Unique, Row, Readable, Listed, Writable, Settable, Executable
  <2> QED
    BY <2>5, <2>6 DEF rows, readers
<1>11. Fitting(ExtConnectivityStatsResources, Joined(ReadExtended, ReadResets)) /\ Unique(ExtConnectivityStatsResources)
  <2> DEFINE rows == ExtConnectivityStatsResources
         readers == Joined(ReadExtended, ReadResets)
  <2>1. /\ DOMAIN rows = 1..12
        /\ rows[1] = Readable("signalBars", "int") /\ rows[2] = Readable("cellularTech", "string")
        /\ rows[3] = Readable("roaming", "int") /\ rows[4] = Readable("ecio", "int")
        /\ rows[5] = Readable("rsrp", "int") /\ rows[6] = Readable("rsrq", "int")
        /\ rows[7] = Readable("rscp", "int") /\ rows[8] = Readable("temperature", "int")
        /\ rows[9] = Readable("unexpectedResets", "int")
        /\ rows[10] = Readable("totalResets", "int") /\ rows[11] = Readable("lac", "int")
        /\ rows[12] = Readable("tac", "int")
    BY DEF ExtConnectivityStatsResources
  <2>2. /\ DOMAIN ReadExtended = {"signalBars", "cellularTech", "roaming", "ecio", "rsrp", "rsrq", "rscp", "temperature"}
        /\ ReadExtended.signalBars = Unsigned(1) /\ ReadExtended.cellularTech = Text
        /\ ReadExtended.roaming = Unsigned(1) /\ ReadExtended.ecio = Signed(4)
        /\ ReadExtended.rsrp = Signed(4) /\ ReadExtended.rsrq = Signed(4)
        /\ ReadExtended.rscp = Signed(4) /\ ReadExtended.temperature = Signed(4)
    BY DEF ReadExtended
  <2>3. /\ DOMAIN ReadResets = {"unexpectedResets", "totalResets", "lac", "tac"}
        /\ ReadResets.unexpectedResets = Unsigned(4) /\ ReadResets.totalResets = Unsigned(4)
        /\ ReadResets.lac = Unsigned(4) /\ ReadResets.tac = Unsigned(2)
    BY DEF ReadResets
  <2>4. /\ readers.signalBars = Unsigned(1) /\ readers.cellularTech = Text
        /\ readers.roaming = Unsigned(1) /\ readers.ecio = Signed(4) /\ readers.rsrp = Signed(4)
        /\ readers.rsrq = Signed(4) /\ readers.rscp = Signed(4) /\ readers.temperature = Signed(4)
        /\ readers.unexpectedResets = Unsigned(4) /\ readers.totalResets = Unsigned(4)
        /\ readers.lac = Unsigned(4) /\ readers.tac = Unsigned(2)
    BY <2>2, <2>3, JoinedAt, JoinedDomain
  <2> HIDE DEF rows, readers
  <2>5. /\ FittingAt(rows, 1, readers) /\ FittingAt(rows, 2, readers)
        /\ FittingAt(rows, 3, readers) /\ FittingAt(rows, 4, readers)
    BY <2>1, <2>4 DEF FittingAt, Fits, FitsNumber, FitsOctets, IsNumber, Sizes, Row, Readable,
       Listed, Writable, Settable, Executable, Kind, Text, Octets,
       Unsigned, Signed, Enum, Bool, ListOf, Never
  <2>6. /\ FittingAt(rows, 5, readers) /\ FittingAt(rows, 6, readers)
        /\ FittingAt(rows, 7, readers) /\ FittingAt(rows, 8, readers)
    BY <2>1, <2>4 DEF FittingAt, Fits, FitsNumber, FitsOctets, IsNumber, Sizes, Row, Readable,
       Listed, Writable, Settable, Executable, Kind, Text, Octets,
       Unsigned, Signed, Enum, Bool, ListOf, Never
  <2>7. /\ FittingAt(rows, 9, readers) /\ FittingAt(rows, 10, readers)
        /\ FittingAt(rows, 11, readers) /\ FittingAt(rows, 12, readers)
    BY <2>1, <2>4 DEF FittingAt, Fits, FitsNumber, FitsOctets, IsNumber, Sizes, Row, Readable,
       Listed, Writable, Settable, Executable, Kind, Text, Octets,
       Unsigned, Signed, Enum, Bool, ListOf, Never
  <2>8. Fitting(rows, readers)
    BY <2>1, <2>5, <2>6, <2>7 DEF Fitting
  <2>9. Unique(rows)
    BY <2>1 DEF Unique, Row, Readable, Listed, Writable, Settable, Executable
  <2> QED
    BY <2>8, <2>9 DEF rows, readers
<1>12. Fitting(SslCertificateResources, <<>>) /\ Unique(SslCertificateResources)
  <2>1. Fitting(SslCertificateResources, <<>>)
    BY DEF Fitting, FittingAt, Fits, FitsNumber, FitsOctets, IsNumber, Sizes, Row, Readable, Listed,
       Writable, Settable, Executable, Kind, Text, Octets,
       Unsigned, Signed, Enum, Bool, ListOf, Never, SslCertificateResources
  <2>2. Unique(SslCertificateResources)
    BY DEF Unique, Row, Readable, Listed, Writable, Settable, Executable, SslCertificateResources
  <2> QED
    BY <2>1, <2>2
<1>13. Fitting(ClockTimeConfigResources, ReadClock) /\ Unique(ClockTimeConfigResources)
  <2> DEFINE rows == ClockTimeConfigResources
         readers == ReadClock
  <2>1. /\ DOMAIN rows = 1..4
        /\ rows[1] = Settable("priority", "int")
        /\ rows[2] = Row("config", "string", 2, {"read", "write"})
        /\ rows[3] = Executable("updateClock", "unknown") /\ rows[4] = Readable("status", "int")
    BY DEF ClockTimeConfigResources
  <2>2. /\ readers.priority = Kind("misread", 2, "one")
        /\ readers.config = Kind("text", 0, "padded")
        /\ readers.status = Kind("misread", 2, "one")
    BY DEF ReadClock
  <2> HIDE DEF rows, readers
  <2>3. /\ FittingAt(rows, 1, readers) /\ FittingAt(rows, 2, readers)
        /\ FittingAt(rows, 3, readers) /\ FittingAt(rows, 4, readers)
    BY <2>1, <2>2 DEF FittingAt, Fits, FitsNumber, FitsOctets, IsNumber, Sizes, Row, Readable,
       Listed, Writable, Settable, Executable, Kind, Text, Octets,
       Unsigned, Signed, Enum, Bool, ListOf, Never
  <2>4. Fitting(rows, readers)
    BY <2>1, <2>3 DEF Fitting
  <2>5. Unique(rows)
    BY <2>1 DEF Unique, Row, Readable, Listed, Writable, Settable, Executable
  <2> QED
    BY <2>4, <2>5 DEF rows, readers
<1>14. Fitting(FileTransferResources, ReadTransfer) /\ Unique(FileTransferResources)
  <2> DEFINE rows == FileTransferResources
         readers == ReadTransfer
  <2>1. /\ DOMAIN rows = 1..9
        /\ rows[1] = Writable("name", "string") /\ rows[2] = Writable("class", "string")
        /\ rows[3] = Writable("uri", "string") /\ rows[4] = Settable("checksum", "string")
        /\ rows[5] = Writable("direction", "int") /\ rows[6] = Readable("state", "int")
        /\ rows[7] = Readable("result", "int") /\ rows[8] = Readable("progress", "int")
        /\ rows[9] = Readable("failureReason", "string")
    BY DEF FileTransferResources
  <2>2. /\ readers.checksum = Text /\ readers.state = Enum /\ readers.result = Enum
        /\ readers.progress = Unsigned(1) /\ readers.failureReason = Text
    BY DEF ReadTransfer
  <2> HIDE DEF rows, readers
  <2>3. /\ FittingAt(rows, 1, readers) /\ FittingAt(rows, 2, readers)
        /\ FittingAt(rows, 3, readers) /\ FittingAt(rows, 4, readers)
    BY <2>1, <2>2 DEF FittingAt, Fits, FitsNumber, FitsOctets, IsNumber, Sizes, Row, Readable,
       Listed, Writable, Settable, Executable, Kind, Text, Octets,
       Unsigned, Signed, Enum, Bool, ListOf, Never
  <2>4. /\ FittingAt(rows, 5, readers) /\ FittingAt(rows, 6, readers)
        /\ FittingAt(rows, 7, readers) /\ FittingAt(rows, 8, readers)
    BY <2>1, <2>2 DEF FittingAt, Fits, FitsNumber, FitsOctets, IsNumber, Sizes, Row, Readable,
       Listed, Writable, Settable, Executable, Kind, Text, Octets,
       Unsigned, Signed, Enum, Bool, ListOf, Never
  <2>5. FittingAt(rows, 9, readers)
    BY <2>1, <2>2 DEF FittingAt, Fits, FitsNumber, FitsOctets, IsNumber, Sizes, Row, Readable,
       Listed, Writable, Settable, Executable, Kind, Text, Octets,
       Unsigned, Signed, Enum, Bool, ListOf, Never
  <2>6. Fitting(rows, readers)
    BY <2>1, <2>3, <2>4, <2>5 DEF Fitting
  <2>7. Unique(rows)
    BY <2>1 DEF Unique, Row, Readable, Listed, Writable, Settable, Executable
  <2> QED
    BY <2>6, <2>7 DEF rows, readers
<1>15. Fitting(FileListResources, ReadFile) /\ Unique(FileListResources)
  <2> DEFINE rows == FileListResources
         readers == ReadFile
  <2>1. /\ DOMAIN rows = 1..4
        /\ rows[1] = Readable("name", "string") /\ rows[2] = Readable("class", "string")
        /\ rows[3] = Readable("checksum", "string") /\ rows[4] = Readable("direction", "int")
    BY DEF FileListResources
  <2>2. /\ readers.name = Text /\ readers.class = Text /\ readers.checksum = Text
        /\ readers.direction = Enum
    BY DEF ReadFile
  <2> HIDE DEF rows, readers
  <2>3. /\ FittingAt(rows, 1, readers) /\ FittingAt(rows, 2, readers)
        /\ FittingAt(rows, 3, readers) /\ FittingAt(rows, 4, readers)
    BY <2>1, <2>2 DEF FittingAt, Fits, FitsNumber, FitsOctets, IsNumber, Sizes, Row, Readable,
       Listed, Writable, Settable, Executable, Kind, Text, Octets,
       Unsigned, Signed, Enum, Bool, ListOf, Never
  <2>4. Fitting(rows, readers)
    BY <2>1, <2>3 DEF Fitting
  <2>5. Unique(rows)
    BY <2>1 DEF Unique, Row, Readable, Listed, Writable, Settable, Executable
  <2> QED
    BY <2>4, <2>5 DEF rows, readers
<1>16. Fitting(SimApduConfigResources, ReadSim) /\ Unique(SimApduConfigResources)
  <2> DEFINE rows == SimApduConfigResources
         readers == ReadSim
  <2>1. /\ DOMAIN rows = 1..3
        /\ rows[1] = Writable("command", "opaque") /\ rows[2] = Executable("execute", "unknown")
        /\ rows[3] = Readable("response", "opaque")
    BY DEF SimApduConfigResources
  <2>2. /\ readers.response = Octets
    BY DEF ReadSim
  <2> HIDE DEF rows, readers
  <2>3. /\ FittingAt(rows, 1, readers) /\ FittingAt(rows, 2, readers)
        /\ FittingAt(rows, 3, readers)
    BY <2>1, <2>2 DEF FittingAt, Fits, FitsNumber, FitsOctets, IsNumber, Sizes, Row, Readable,
       Listed, Writable, Settable, Executable, Kind, Text, Octets,
       Unsigned, Signed, Enum, Bool, ListOf, Never
  <2>4. Fitting(rows, readers)
    BY <2>1, <2>3 DEF Fitting
  <2>5. Unique(rows)
    BY <2>1 DEF Unique, Row, Readable, Listed, Writable, Settable, Executable
  <2> QED
    BY <2>4, <2>5 DEF rows, readers
<1>17. DOMAIN ObjArray = {"security", "server", "device", "monitoring", "firmware", "location", "statistics", "software",
                       "cellular", "subscription", "extended", "ssl", "clock", "transfer", "files", "sim"}
  BY DEF ObjArray
<1>18. \A object \in DOMAIN ObjArray : Fitting(ObjArray[object], Readers[object]) /\ Unique(ObjArray[object])
  BY <1>1, <1>2, <1>3, <1>4, <1>5, <1>6, <1>7, <1>8, <1>9, <1>10, <1>11, <1>12, <1>13, <1>14, <1>15, <1>16, <1>17 DEF ObjArray, Readers
<1> QED
  BY <1>18
----------------------------------------------------------------------------
(* What the platform has for a resource *)

Element(kind, e) ==
  /\ kind.value = "unsigned" => e \in 0..Span(kind.size) - 1
  /\ kind.value \in {"signed", "misread"} => e \in -Top(kind.size) - 1 .. Top(kind.size)
  /\ kind.value = "bool" => e \in {0, 1}
  /\ kind.value \in {"text", "octets", "velocity"} => (kind.fill = "list" => e.len # 0)

\* Instances that a list of the platform may have
LengthFits(row, kind, n) ==
  /\ n \in Nat /\ n <= row.instances
  /\ kind.fill \in {"one", "untouched", "padded"} => n = 1
  /\ kind.fill = "all" => n \in {1, row.instances}

Held(row, kind, o) ==
  /\ o.sid = "OK" =>
       /\ kind.fill # "never"
       /\ DOMAIN o.list = 1..Len(o.list) /\ LengthFits(row, kind, Len(o.list))
       /\ \A i \in 1..Len(o.list) : Element(kind, o.list[i])
  /\ o.sid # "OK" => o.list = <<>>

\* What a value of the platform is, by the kind of its handler.
LEMMA ElementFacts ==
  ASSUME NEW row, NEW kind, Fits(row, kind), kind.fill # "never"
  PROVE  Element(kind, Usual(kind)) /\ \A e \in Values(kind) : Element(kind, e)
<1>1. \A n \in Sizes : Span(n) \in Nat /\ Top(n) \in Nat /\ Span(n) = 2 * Top(n) + 2 /\ Top(n) >= 1
  <2>1. \A n \in Sizes : n # 1 => Span(1) <= Top(n)
    BY SpanFacts DEF Sizes
  <2> QED
    BY <2>1, SpanFacts DEF Sizes
<1>2. CASE FitsNumber(row, kind)
  <2>1. kind.size \in Sizes /\ kind.value \in {"unsigned", "signed", "misread", "bool"}
    BY <1>2 DEF FitsNumber
  <2>2. kind.value = "unsigned" => \A e \in Values(kind) : Element(kind, e)
    BY DEF Values, UnsignedOf, Element
  <2>3. kind.value \in {"signed", "misread"} => \A e \in Values(kind) : Element(kind, e)
    BY ObjectsAssumption DEF Values, SignedOf, Element, ObjectsAssumption
  <2>4. kind.value = "bool" => \A e \in Values(kind) : Element(kind, e)
    BY DEF Values, Element
  <2>5. Usual(kind) = 1
    BY <2>1 DEF Usual
  <2>6. Element(kind, 1)
    BY <1>1, <2>1 DEF Element
  <2> QED
    BY <2>1, <2>2, <2>3, <2>4, <2>5, <2>6
<1>3. CASE FitsOctets(row, kind)
  <2>1. kind.value \in {"text", "octets", "velocity"}
    BY <1>3 DEF FitsOctets
  <2>2. Usual(kind) = Buffer(3, 1)
    BY <2>1 DEF Usual
  <2>3. \A e \in Values(kind) :
          \E n \in {l \in TextLengths : l <= Room /\ (kind.fill = "list" => l > 0)} : e = Buffer(n, 1)
    BY <2>1 DEF Values
  <2>4. TextLengths \subseteq Nat
    BY ObjectsAssumption DEF ObjectsAssumption
  <2> QED
    BY <2>1, <2>2, <2>3, <2>4 DEF Element, Buffer
<1> QED
  BY <1>2, <1>3 DEF Fits

\* What a handler meets is an error, or a list of values of its kind as long as the kind allows.
LEMMA OutcomesHeld ==
  ASSUME NEW row, NEW kind, Fits(row, kind),
         NEW o \in Outcomes(row, kind) \cup Summary(row, kind)
  PROVE  Held(row, kind, o)
<1> DEFINE Filled(l) == /\ DOMAIN l = 1..Len(l) /\ LengthFits(row, kind, Len(l))
                        /\ \A i \in 1..Len(l) : Element(kind, l[i])
<1>1. ASSUME o.sid # "OK", o.list = <<>> PROVE Held(row, kind, o)
  BY <1>1 DEF Held
<1>2. ASSUME o.sid = "OK", kind.fill # "never", Filled(o.list) PROVE Held(row, kind, o)
  BY <1>2 DEF Held
<1> HIDE DEF Filled
<1>3. \A sid : Failed(sid).sid = sid /\ Failed(sid).list = <<>>
  BY DEF Failed
<1>4. \A l : Given(l).sid = "OK" /\ Given(l).list = l
  BY DEF Given
<1>5. CASE kind.fill = "never"
  <2>1. o = Failed(kind.value)
    BY <1>5 DEF Outcomes, Summary
  <2>2. kind.value # "OK"
    BY <1>5 DEF Fits
  <2> QED
    BY <1>1, <1>3, <2>1, <2>2
<1>6. CASE kind.fill # "never"
  <2> USE <1>6
  <2>0. row.instances \in Nat /\ row.instances >= 1
    BY ObjectsTableAssumption DEF Fits, ObjectsTableAssumption
  <2>1. Element(kind, Usual(kind)) /\ \A e \in Values(kind) : Element(kind, e)
    BY ElementFacts
  <2>2. ASSUME NEW n \in Nat, LengthFits(row, kind, n), NEW e, Element(kind, e)
        PROVE  Filled([i \in 1..n |-> IF i = n THEN e ELSE Usual(kind)])
    <3> DEFINE l == [i \in 1..n |-> IF i = n THEN e ELSE Usual(kind)]
    <3>1. l \in Seq({e, Usual(kind)}) /\ Len(l) = n /\ DOMAIN l = 1..n
      <4>1. l \in [1..n -> {e, Usual(kind)}]
        OBVIOUS
      <4> HIDE DEF l
      <4> QED
        BY <4>1
    <3>2. \A i \in 1..n : Element(kind, l[i])
      BY <2>1, <2>2
    <3> HIDE DEF l
    <3>3. Filled(l)
      BY <2>2, <3>1, <3>2 DEF Filled
    <3> QED
      BY <3>3 DEF l
  <2>3. ASSUME NEW e, Element(kind, e), LengthFits(row, kind, 1)
        PROVE  Filled(<<e>>)
    <3>1. <<e>> = [i \in 1..1 |-> IF i = 1 THEN e ELSE Usual(kind)]
      OBVIOUS
    <3>2. 1 \in Nat
      OBVIOUS
    <3>3. Filled([i \in 1..1 |-> IF i = 1 THEN e ELSE Usual(kind)])
      BY <2>2, <2>3, <3>2
    <3> QED
      BY <3>1, <3>3
  <2>4. LengthFits(row, kind, 1)
    BY <2>0 DEF LengthFits
  <2>5. CASE o \in Summary(row, kind)
    <3>1. o \in {Failed("INVALID_STATE"), Failed("GENERAL_ERROR"), Given(<<Usual(kind)>>)}
      BY <2>5 DEF Summary
    <3> QED
      BY <1>1, <1>2, <1>3, <1>4, <2>1, <2>3, <2>4, <3>1
  <2>6. CASE o \in Outcomes(row, kind) /\ kind.value = "velocity"
    <3>1. PICK d, h, v \in PlatformSids : o = BuildVelocity(d, h, v)
      BY <2>6 DEF Outcomes
    <3>2. \/ \E sid \in {"INVALID_STATE", "GENERAL_ERROR"} : o = Failed(sid)
          \/ \E n \in {4, 5} : o = Given(<<Buffer(n, 1)>>)
      BY <3>1 DEF BuildVelocity
    <3>3. \A n \in {4, 5} : Element(kind, Buffer(n, 1))
      BY <2>6 DEF Element, Buffer
    <3> QED
      BY <1>1, <1>2, <1>3, <1>4, <2>3, <2>4, <3>2, <3>3
  <2>7. CASE o \in Outcomes(row, kind) /\ kind.value # "velocity"
    <3>1. \/ \E sid \in PlatformSids \ {"OK"} : o = Failed(sid)
          \/ \E k \in Lengths(kind.fill, row.instances), e \in Values(kind) :
               o = Given([i \in 1..k |-> IF i = k THEN e ELSE Usual(kind)])
      BY <2>7 DEF Outcomes
    <3>2. \A k \in Lengths(kind.fill, row.instances) : k \in Nat /\ LengthFits(row, kind, k)
      <4>1. kind.fill \in {"one", "battery", "untouched", "list", "openList", "all", "padded"}
        BY DEF Fits
      <4> QED
        BY <2>0, <4>1 DEF Lengths, LengthFits
    <3>3. CASE \E sid \in PlatformSids \ {"OK"} : o = Failed(sid)
      BY <1>1, <1>3, <3>3
    <3>4. ASSUME NEW k \in Lengths(kind.fill, row.instances), NEW e \in Values(kind),
                 o = Given([i \in 1..k |-> IF i = k THEN e ELSE Usual(kind)])
          PROVE  Held(row, kind, o)
      <4>1. Filled([i \in 1..k |-> IF i = k THEN e ELSE Usual(kind)])
        BY <2>1, <2>2, <3>2
      <4>2. o.sid = "OK" /\ o.list = [i \in 1..k |-> IF i = k THEN e ELSE Usual(kind)]
        BY <1>4, <3>4
      <4> QED
        BY <1>2, <4>1, <4>2
    <3> QED
      BY <3>1, <3>3, <3>4
  <2> QED
    BY <2>5, <2>6, <2>7
<1> QED
  BY <1>5, <1>6

----------------------------------------------------------------------------
(* What is read of it *)

\* The cases of Misread that a single element decides
MisreadElement(row, kind, e) ==
  \/ kind.value = "misread" /\ e < 0
  \/ kind.value = "unsigned" /\ kind.size = 8 /\ e > Top(8)
  \/ kind.value = "unsigned" /\ row.type = "opaque" /\ e > Top(1)

\* A number of the platform goes through the buffer and the message without a change.
LEMMA NumberRead ==
  ASSUME NEW row, NEW kind, FitsNumber(row, kind), NEW e, Element(kind, e),
         ~MisreadElement(row, kind, e), charSigned \in BOOLEAN
  PROVE  EncodeData(row.type, FormatValueToBytes(e, kind.size, kind.value = "signed"))
           = Carried(row, kind, e)
<1> DEFINE s == kind.size
           b == FormatValueToBytes(e, s, kind.value = "signed")
<1>1. s \in Sizes /\ Span(s) \in Nat /\ Top(s) \in Nat /\ Span(s) = 2 * Top(s) + 2
      /\ Top(1) \in Nat /\ Top(1) >= 1
  BY SpanFacts DEF FitsNumber, Sizes
<1>2. CASE kind.value = "signed"
  <2>1. e \in -Top(s) - 1 .. Top(s) /\ s # 1
    BY <1>2 DEF Element, FitsNumber
  <2>2. b = Buffer(s, e % Span(s))
    BY <1>2 DEF FormatValueToBytes
  <2>3. e \in Int /\ Wrap(e % Span(s), s) = e
    BY <1>1, <2>1, WrapFacts
  <2>4. row.type \in {"int", "time"}
    BY <1>2 DEF FitsNumber, IsNumber
  <2>5. BytesToInt(b) = e
    BY <1>1, <2>1, <2>2, <2>3 DEF BytesToInt, Buffer
  <2> QED
    BY <2>4, <2>5 DEF EncodeData, Carried
<1>3. CASE kind.value # "signed"
  <2>1. e \in 0..Span(s) - 1 /\ (s = 8 => e <= Top(8))
    <3>1. CASE kind.value = "unsigned"
      BY <1>1, <3>1 DEF Element, MisreadElement
    <3>2. CASE kind.value = "misread"
      BY <1>1, <3>2 DEF Element, MisreadElement
    <3>3. CASE kind.value = "bool"
      <4>1. e \in {0, 1} /\ Top(8) >= 1 /\ Span(s) >= 2
        <5>1. Span(1) <= Top(8)
          BY SpanFacts DEF Sizes
        <5>2. Span(1) = 2 * Top(1) + 2 /\ Span(1) \in Nat /\ Top(8) \in Nat
          BY SpanFacts DEF Sizes
        <5> QED
          BY <1>1, <3>3, <5>1, <5>2 DEF Element
      <4> QED
        BY <1>1, <4>1, SpanFacts DEF Sizes
    <3> QED
      BY <1>3, <3>1, <3>2, <3>3 DEF FitsNumber
  <2>2. PICK n \in Sizes : b = Buffer(n, e) /\ e <= Top(n) /\ (e <= Top(1) => n = 1)
    BY <1>1, <1>3, <2>1, FormatUnsigned
  <2>3. b.len = n /\ b.value = e /\ e \in Int /\ 0 <= e
    BY <1>1, <2>1, <2>2 DEF Buffer
  <2>4. BytesToInt(b) = e
    BY <2>2, <2>3, WrapFacts DEF BytesToInt
  <2>5. CASE row.type \in {"int", "time"}
    BY <2>4, <2>5 DEF EncodeData, Carried
  <2>6. CASE row.type = "bool"
    <3>1. e \in {0, 1}
      BY <2>6 DEF FitsNumber, Element
    <3>2. (b.value # 0) = (e = 1)
      BY <2>3, <3>1
    <3> QED
      BY <2>6, <3>2 DEF EncodeData, Carried
  <2>7. CASE row.type = "opaque"
    <3>1. kind.value = "unsigned" /\ e <= Top(1)
      BY <1>1, <2>1, <2>7 DEF FitsNumber, IsNumber, MisreadElement
    <3>2. b = Buffer(1, e)
      BY <2>2, <3>1
    <3> QED
      BY <2>7, <3>1, <3>2 DEF EncodeData, Carried
  <2> QED
    BY <2>5, <2>6, <2>7 DEF FitsNumber, IsNumber
<1> QED
  BY <1>2, <1>3

\* What a handler makes of one value of the platform
Buffered(kind, e) ==
  IF kind.value \in {"text", "octets", "velocity"} THEN e
  ELSE FormatValueToBytes(e, kind.size, kind.value = "signed")

\* A value of the platform is the one that the message carries, whatever its kind.
LEMMA ElementRead ==
  ASSUME NEW row, NEW kind, Fits(row, kind), kind.fill # "never", NEW e, Element(kind, e),
         charSigned \in BOOLEAN
  PROVE  /\ kind.fill = "list" \/ FitsNumber(row, kind) => Buffered(kind, e).len # 0
         /\ ~MisreadElement(row, kind, e) =>
              EncodeData(row.type, Buffered(kind, e)) = Carried(row, kind, e)
<1>1. CASE FitsNumber(row, kind)
  <2>1. Buffered(kind, e) = FormatValueToBytes(e, kind.size, kind.value = "signed")
    BY <1>1 DEF Buffered, FitsNumber
  <2>2. Buffered(kind, e).len # 0
    <3>1. kind.size \in Sizes /\ (kind.value = "signed") \in BOOLEAN
      BY <1>1 DEF FitsNumber
    <3> QED
      BY <2>1, <3>1, FormatLength
  <2> QED
    BY <1>1, <2>1, <2>2, NumberRead
<1>2. CASE FitsOctets(row, kind)
  <2>1. Buffered(kind, e) = e /\ kind.value \in {"text", "octets", "velocity"}
    BY <1>2 DEF Buffered, FitsOctets
  <2>2. ~FitsNumber(row, kind)
    BY <2>1 DEF FitsNumber
  <2>3. kind.fill = "list" => e.len # 0
    BY <2>1 DEF Element
  <2>4. EncodeData(row.type, e) = Carried(row, kind, e)
    BY <1>2, <2>1 DEF EncodeData, Carried, FitsOctets, IsNumber
  <2> QED
    BY <2>1, <2>2, <2>3, <2>4
<1> QED
  BY <1>1, <1>2 DEF Fits

\* The answer with the first n instances
FirstInstances(row, kind, list, n) ==
  IF n = 0 THEN [code |-> "NOT_FOUND", values |-> <<>>]
  ELSE [code |-> "CONTENT",
        values |-> [i \in 1..n |-> EncodeData(row.type, ReadBuffer(kind, list, i - 1))]]

\* The instances that are answered, when those up to the k-th are not empty
LEMMA InstancesUpTo ==
  ASSUME NEW row, NEW kind, NEW list, row.instances \in Nat, row.instances >= 2,
         NEW k \in 0..row.instances,
         \A i \in 1..k : ReadBuffer(kind, list, i - 1).len # 0,
         k < row.instances => ReadBuffer(kind, list, k).len = 0
  PROVE  ReadResourceInstances(row, kind, list) =
           FirstInstances(row, kind, list, IF k = row.instances THEN k - 1 ELSE k)
<1> DEFINE m == row.instances
           n == IF k = m THEN k - 1 ELSE k
           buffers == [i \in 1..m |-> ReadBuffer(kind, list, i - 1)]
           empty == {i \in DOMAIN buffers : buffers[i].len = 0}
           riid == IF empty = {} THEN m - 1 ELSE Min(empty) - 1
<1>1. DOMAIN buffers = 1..m /\ \A i \in 1..m : buffers[i] = ReadBuffer(kind, list, i - 1)
  OBVIOUS
<1>2. ReadResourceInstances(row, kind, list) =
        IF riid = 0 THEN [code |-> "NOT_FOUND", values |-> <<>>]
        ELSE [code |-> "CONTENT", values |-> [i \in 1..riid |-> EncodeData(row.type, buffers[i])]]
  BY DEF ReadResourceInstances
<1> HIDE DEF buffers
<1>3. ASSUME k = m PROVE riid = n
  <2>1. empty = {}
    BY <1>1, <1>3
  <2> QED
    BY <1>3, <2>1
<1>4. ASSUME k # m PROVE riid = n
  <2>1. k + 1 \in 1..m /\ buffers[k + 1].len = 0
    BY <1>1, <1>4
  <2>2. k + 1 \in empty /\ \A i \in empty : k + 1 <= i
    BY <1>1, <2>1
  <2>3. \A i \in empty : i \in Int
    BY <1>1
  <2> HIDE DEF empty
  <2>4. Min(empty) = k + 1
    BY <2>2, <2>3 DEF Min
  <2> QED
    BY <1>4, <2>2, <2>4
<1>5. riid = n
  BY <1>3, <1>4
<1> HIDE DEF riid
<1>6. n \in 0..m - 1
  OBVIOUS
<1> HIDE DEF n, m
<1>7. n \in Nat /\ m \in Nat /\ [i \in 1..n |-> EncodeData(row.type, buffers[i])] =
        [i \in 1..n |-> EncodeData(row.type, ReadBuffer(kind, list, i - 1))]
  BY <1>1, <1>6 DEF m
<1> QED
  BY <1>2, <1>5, <1>7 DEF n, m, FirstInstances

\* The code of a read is that of the outcome, and what is read is the value of the
\* platform but for the cases of Misread.
LEMMA ResourceRead ==
  ASSUME NEW row, NEW kind, Fits(row, kind), NEW o, Held(row, kind, o), charSigned \in BOOLEAN
  PROVE  LET answer == ReadResource(row, kind, o)
         IN  /\ o.sid # "OK" => answer.code = SetCoapError(o.sid, "read")
             /\ o.sid = "OK" =>
                  answer.code = IF kind.fill = "list" /\ o.list = <<>> THEN "NOT_FOUND" ELSE "CONTENT"
             /\ o.sid = "OK" /\ answer.code = "CONTENT" =>
                  \/ Misread(row, kind, o.list)
                  \/ answer.values = [i \in DOMAIN o.list |-> Carried(row, kind, o.list[i])]
<1> DEFINE list == o.list
           answer == ReadResource(row, kind, o)
           Good == /\ answer.code = IF kind.fill = "list" /\ list = <<>> THEN "NOT_FOUND" ELSE "CONTENT"
                   /\ answer.code = "CONTENT" =>
                        \/ Misread(row, kind, list)
                        \/ answer.values = [i \in DOMAIN list |-> Carried(row, kind, list[i])]
<1>1. CASE o.sid # "OK"
  BY <1>1 DEF ReadResource
<1>2. CASE o.sid = "OK"
  <2> DEFINE len == Len(list)
             b(i) == EncodeData(row.type, Buffered(kind, list[i]))
  <2>1. kind.fill # "never" /\ DOMAIN list = 1..len /\ len \in Nat /\ len <= row.instances
        /\ LengthFits(row, kind, len)
    BY <1>2 DEF Held, LengthFits
  <2>2. \A i \in 1..len : Element(kind, list[i])
    BY <1>2 DEF Held
  <2>3. \A i \in 1..len : ~MisreadElement(row, kind, list[i]) => b(i) = Carried(row, kind, list[i])
    BY <2>1, <2>2, ElementRead
  <2>4. \A i \in 1..len : kind.fill = "list" \/ FitsNumber(row, kind) => Buffered(kind, list[i]).len # 0
    BY <2>1, <2>2, ElementRead
  <2>5. kind.fill # "one" => \A e : ~MisreadElement(row, kind, e)
    <3>1. CASE FitsNumber(row, kind)
      BY <3>1 DEF FitsNumber, IsNumber, MisreadElement
    <3>2. CASE FitsOctets(row, kind)
      BY <3>2 DEF FitsOctets, MisreadElement
    <3> QED
      BY <2>1, <3>1, <3>2 DEF Fits
  <2>6. kind.fill = "one" => len = 1 /\ (MisreadElement(row, kind, list[1]) => Misread(row, kind, list))
    BY <2>1 DEF LengthFits, MisreadElement, Misread
  <2>7. len = 0 <=> list = <<>>
    BY <1>2 DEF Held
  <2>8. Untouched.len = Room /\ Room # 0 /\ Buffer(0, 0).len = 0 /\ Buffer(1, 0).len = 1
    BY ObjectsAssumption DEF Untouched, Buffer, ObjectsAssumption
  <2>9. row.instances \in Nat /\ (row.instances = 1 \/ row.instances >= 2)
    BY ObjectsTableAssumption DEF Fits, ObjectsTableAssumption
  <2>10. ASSUME row.instances = 1 PROVE Good
    <3>1. kind.fill \in {"one", "battery", "untouched"} /\ kind.fill # "list"
      BY <2>1, <2>10, ObjectsTableAssumption DEF Fits, ObjectsTableAssumption
    <3>2. answer = [code |-> "CONTENT", values |-> <<EncodeData(row.type, ReadBuffer(kind, list, 0))>>]
      BY <1>2, <2>10 DEF ReadResource
    <3>3. ASSUME ~Misread(row, kind, list)
          PROVE  answer.values = [i \in DOMAIN list |-> Carried(row, kind, list[i])]
      <4>1. kind.fill # "untouched" /\ len = 1
        <5>1. kind.fill # "untouched" /\ (kind.fill = "battery" => len # 0)
          BY <2>7, <3>3 DEF Misread
        <5> HIDE DEF len
        <5>2. len \in Nat /\ len <= 1
          BY <2>1, <2>10
        <5> QED
          BY <2>6, <3>1, <5>1, <5>2
      <4>2. ReadBuffer(kind, list, 0) = Buffered(kind, list[1])
        BY <3>1, <4>1 DEF ReadBuffer, Buffered
      <4>3. b(1) = Carried(row, kind, list[1])
        BY <2>3, <2>5, <2>6, <3>3, <4>1
      <4>4. [i \in 1..1 |-> Carried(row, kind, list[i])] = <<Carried(row, kind, list[1])>>
        OBVIOUS
      <4> QED
        BY <2>1, <3>2, <4>1, <4>2, <4>3, <4>4
    <3> QED
      BY <1>2, <3>1, <3>2, <3>3
  <2>11. ASSUME row.instances >= 2 PROVE Good
    <3> DEFINE m == row.instances
               At(i) == ReadBuffer(kind, list, i - 1)
               Is(n) == answer = FirstInstances(row, kind, list, n)
    <3>1. answer = ReadResourceInstances(row, kind, list)
      BY <1>2, <2>9, <2>11 DEF ReadResource
    <3>2. ASSUME NEW k \in 0..m, \A i \in 1..k : At(i).len # 0, k < m => At(k + 1).len = 0
          PROVE  Is(IF k = m THEN k - 1 ELSE k)
      <4>1. k < m => ReadBuffer(kind, list, k).len = 0
        <5>1. (k + 1) - 1 = k
          OBVIOUS
        <5> QED
          BY <3>2, <5>1
      <4>2. ReadResourceInstances(row, kind, list) =
              FirstInstances(row, kind, list, IF k = m THEN k - 1 ELSE k)
        BY <2>9, <2>11, <3>2, <4>1, InstancesUpTo
      <4> QED
        BY <3>1, <4>2
    <3> HIDE DEF Is
    \* With as many values as the list has elements, they are the elements.
    <3>3. ASSUME Is(len), \A i \in 1..len : At(i) = Buffered(kind, list[i]), kind.fill # "one",
                 len = 0 => kind.fill = "list"
          PROVE  Good
      <4>1. CASE len = 0
        BY <2>7, <3>3, <4>1 DEF Is, FirstInstances
      <4>2. CASE len # 0
        <5>1. \A i \in 1..len : EncodeData(row.type, At(i)) = Carried(row, kind, list[i])
          BY <2>3, <2>5, <3>3
        <5>2. [i \in 1..len |-> EncodeData(row.type, At(i))] = [i \in 1..len |-> Carried(row, kind, list[i])]
          BY <5>1
        <5> QED
          BY <2>1, <2>7, <3>3, <4>2, <5>2 DEF Is, FirstInstances
      <4> QED
        BY <4>1, <4>2
    \* A misread list has values all the same.
    <3>4. ASSUME NEW n \in Nat \ {0}, Is(n), Misread(row, kind, list), ~(kind.fill = "list" /\ list = <<>>)
          PROVE  Good
      BY <3>4 DEF Is, FirstInstances
    <3>5. ASSUME kind.fill = "list" PROVE Good
      <4>1. \A i \in 1..len : At(i) = Buffered(kind, list[i]) /\ At(i).len # 0
        <5> TAKE i \in 1..len
        <5>1. (i - 1) + 1 = i /\ i <= len
          BY <2>1
        <5>2. At(i) = Buffered(kind, list[i])
          BY <3>5, <5>1 DEF ReadBuffer, Buffered
        <5> QED
          BY <2>4, <3>5, <5>2
      <4>2. len < m => At(len + 1).len = 0
        <5> HAVE len < m
        <5>1. ((len + 1) - 1) + 1 > len
          BY <2>1
        <5>2. At(len + 1) = Buffer(0, 0)
          BY <3>5, <5>1 DEF ReadBuffer
        <5> QED
          BY <2>8, <5>2
      <4>3. Is(IF len = m THEN len - 1 ELSE len)
        <5>1. len \in 0..m
          BY <2>1, <2>9
        <5> QED
          BY <3>2, <4>1, <4>2, <5>1
      <4>4. CASE len = m
        <5>1. Misread(row, kind, list) /\ len - 1 \in Nat \ {0} /\ list # <<>>
          BY <2>1, <2>7, <2>9, <2>11, <3>5, <4>4 DEF Misread
        <5> QED
          BY <3>4, <4>3, <4>4, <5>1
      <4>5. CASE len # m
        BY <3>3, <3>5, <4>1, <4>3, <4>5
      <4> QED
        BY <4>4, <4>5
    <3>6. ASSUME kind.fill # "list" PROVE Good
      <4>1. kind.fill \in {"openList", "all", "padded"}
        BY <2>1, <2>11, <3>6 DEF Fits
      <4>2. ASSUME NEW i \in 1..m PROVE At(i).len # 0
        <5>1. CASE kind.fill \in {"openList", "all"}
          <6>1. (i - 1) + 1 = i
            BY <2>9
          <6>2. FitsNumber(row, kind)
            BY <2>1, <5>1 DEF Fits, FitsOctets
          <6>3. CASE i > len
            BY <2>8, <5>1, <6>1, <6>3 DEF ReadBuffer
          <6>4. CASE ~(i > len)
            <7>1. i \in 1..len
              BY <2>1, <2>9, <6>4
            <7>2. At(i) = Buffered(kind, list[i])
              BY <5>1, <6>1, <6>4 DEF ReadBuffer, Buffered
            <7> QED
              BY <2>4, <6>2, <7>1, <7>2
          <6> QED
            BY <6>3, <6>4
        <5>2. CASE kind.fill = "padded"
          <6>1. len = 1 /\ kind.value \in {"text", "octets", "velocity"}
            BY <2>1, <5>2 DEF LengthFits, Fits, FitsNumber, FitsOctets
          <6>2. At(i) = IF list[1].len = 0 THEN Buffer(1, 0) ELSE list[1]
            BY <5>2, <6>1 DEF ReadBuffer
          <6> QED
            BY <2>8, <6>2
        <5> QED
          BY <4>1, <5>1, <5>2
      <4>3. Is(m - 1)
        <5>1. m \in 0..m /\ ~(m < m)
          BY <2>9
        <5> QED
          BY <3>2, <4>2, <5>1
      <4>4. CASE Misread(row, kind, list)
        <5>1. m - 1 \in Nat \ {0}
          BY <2>9, <2>11
        <5> QED
          BY <3>4, <3>6, <4>3, <4>4, <5>1
      <4>5. CASE ~Misread(row, kind, list)
        <5>1. len = m - 1 /\ len # 0
          <6>1. CASE kind.fill = "openList"
            <7>1. len = m - 1
              BY <4>5, <6>1 DEF Misread
            <7> QED
              BY <2>9, <2>11, <7>1
          <6>2. CASE kind.fill = "all"
            <7>1. len # m /\ len \in {1, m} /\ m = 2
              BY <2>1, <4>5, <6>2 DEF Misread, LengthFits, Fits
            <7> QED
              BY <7>1
          <6>3. CASE kind.fill = "padded"
            <7>1. len = 1 /\ m = 2
              BY <2>1, <6>3 DEF LengthFits, Fits
            <7> QED
              BY <7>1
          <6> QED
            BY <4>1, <6>1, <6>2, <6>3
        <5>2. \A i \in 1..len : At(i) = Buffered(kind, list[i])
          <6> TAKE i \in 1..len
          <6>1. (i - 1) + 1 = i /\ i <= len
            BY <2>1
          <6>2. CASE kind.fill \in {"openList", "all"}
            BY <6>1, <6>2 DEF ReadBuffer, Buffered
          <6>3. CASE kind.fill = "padded"
            <7>1. len = 1 /\ i = 1
              BY <2>1, <6>1, <6>3 DEF LengthFits
            <7>2. list[1].len # 0
              BY <4>5, <6>3 DEF Misread
            <7>3. kind.value \in {"text", "octets", "velocity"}
              BY <2>1, <6>3 DEF Fits, FitsNumber, FitsOctets
            <7> QED
              BY <6>3, <7>1, <7>2, <7>3 DEF ReadBuffer, Buffered
          <6> QED
            BY <4>1, <6>2, <6>3
        <5> QED
          BY <3>3, <4>1, <4>3, <5>1, <5>2
      <4> QED
        BY <4>4, <4>5
    <3> QED
      BY <3>5, <3>6
  <2>12. Good
    BY <2>9, <2>10, <2>11
  <2> QED
    BY <1>2, <2>12
<1> QED
  BY <1>1, <1>2
----------------------------------------------------------------------------
(* Lists *)

IsList(s) == Len(s) \in Nat /\ s = [k \in 1..Len(s) |-> s[k]]

\* A function on the numbers from 1 to n is a list of that length.
LEMMA ListMade ==
  ASSUME NEW n \in Nat, NEW s, DOMAIN s = 1..n, s = [k \in 1..n |-> s[k]]
  PROVE  IsList(s) /\ Len(s) = n
<1> DEFINE S == {s[k] : k \in 1..n}
<1>1. s \in [1..n -> S]
  OBVIOUS
<1> HIDE DEF S
<1>2. s \in Seq(S) /\ Len(s) = n
  BY <1>1
<1> QED
  BY <1>2 DEF IsList

\* A sequence is such a list.
LEMMA ListTyped ==
  ASSUME NEW s, IsList(s)
  PROVE  \E S : s \in Seq(S)
<1> DEFINE S == {s[k] : k \in 1..Len(s)}
           n == Len(s)
           t == [k \in 1..n |-> s[k]]
<1>1. t \in [1..n -> S] /\ t = s /\ n \in Nat
  BY DEF IsList
<1> HIDE DEF S, t
<1>2. t \in Seq(S)
  BY <1>1
<1> QED
  BY <1>1, <1>2

\* A list of elements of a set is a sequence of them.
LEMMA SequenceList ==
  ASSUME NEW S, NEW s \in Seq(S)
  PROVE  IsList(s) /\ DOMAIN s = 1..Len(s)
<1>1. Len(s) \in Nat /\ DOMAIN s = 1..Len(s) /\ s \in [1..Len(s) -> S]
  OBVIOUS
<1> QED
  BY <1>1 DEF IsList

\* A list with one more element has the elements that it had, and that one.
LEMMA ListAppend ==
  ASSUME NEW s, IsList(s), NEW e
  PROVE  /\ IsList(Append(s, e))
         /\ Range(Append(s, e)) = Range(s) \cup {e}
<1>1. PICK S : s \in Seq(S)
  BY ListTyped
<1> DEFINE T == S \cup {e}
           a == Append(s, e)
<1>2. s \in Seq(T) /\ e \in T
  BY <1>1
<1> HIDE DEF T
<1>3. a \in Seq(T) /\ Len(a) = Len(s) + 1 /\ Len(s) \in Nat
      /\ DOMAIN a = 1..Len(s) + 1 /\ DOMAIN s = 1..Len(s)
      /\ a[Len(s) + 1] = e /\ \A k \in 1..Len(s) : a[k] = s[k]
  BY <1>2
<1> HIDE DEF a
<1>5. IsList(a)
  BY <1>3, SequenceList
<1>6. Range(a) = Range(s) \cup {e}
  BY <1>3 DEF Range
<1> QED
  BY <1>5, <1>6 DEF a

\* Two lists, one behind the other, are a list.
LEMMA ListJoin ==
  ASSUME NEW S, NEW u \in Seq(S), NEW v \in Seq(S)
  PROVE  /\ u \o v \in Seq(S) /\ Len(u \o v) = Len(u) + Len(v)
         /\ \A k \in 1..Len(u) + Len(v) :
              (u \o v)[k] = IF k <= Len(u) THEN u[k] ELSE v[k - Len(u)]
  OBVIOUS

\* A list without its element p: what is behind it moves one place down.
LEMMA ListRemove ==
  ASSUME NEW s, IsList(s), NEW i \in 1..Len(s)
  PROVE  /\ IsList(RemoveAt(s, i)) /\ Len(RemoveAt(s, i)) = Len(s) - 1
         /\ \A k \in 1..Len(s) - 1 : RemoveAt(s, i)[k] = IF k < i THEN s[k] ELSE s[k + 1]
<1> DEFINE n == Len(s)
           u == SubSeq(s, 1, i - 1)
           v == SubSeq(s, i + 1, n)
           t == u \o v
<1>1. PICK S : s \in Seq(S)
  BY ListTyped
<1>2. n \in Nat /\ i \in Nat /\ 1 <= i /\ i <= n
  BY <1>1
<1>3. u \in Seq(S) /\ Len(u) = i - 1 /\ \A k \in 1..i - 1 : u[k] = s[k]
  BY <1>1, <1>2
<1>4. v \in Seq(S) /\ Len(v) = n - i /\ \A k \in 1..n - i : v[k] = s[k + i]
  BY <1>1, <1>2
<1> HIDE DEF u, v
<1>5. /\ t \in Seq(S) /\ Len(t) = n - 1
      /\ \A k \in 1..n - 1 : t[k] = IF k < i THEN u[k] ELSE v[k - (i - 1)]
  <2>1. t \in Seq(S) /\ Len(t) = Len(u) + Len(v)
    BY <1>3, <1>4, ListJoin
  <2>2. \A k \in 1..Len(u) + Len(v) : t[k] = IF k <= Len(u) THEN u[k] ELSE v[k - Len(u)]
    BY <1>3, <1>4, ListJoin
  <2>3. Len(u) + Len(v) = n - 1 /\ \A k \in 1..n - 1 : k <= i - 1 <=> k < i
    BY <1>2, <1>3, <1>4
  <2> HIDE DEF t
  <2> QED
    BY <1>3, <2>1, <2>2, <2>3
<1> HIDE DEF t
<1>7. \A k \in 1..n - 1 : t[k] = IF k < i THEN s[k] ELSE s[k + 1]
  <2> TAKE k \in 1..n - 1
  <2>1. CASE k < i
    BY <2>1, <1>2, <1>3, <1>5
  <2>2. CASE ~(k < i)
    <3>1. k - (i - 1) \in 1..n - i /\ (k - (i - 1)) + i = k + 1
      BY <2>2, <1>2
    <3>2. v[k - (i - 1)] = s[(k - (i - 1)) + i]
      BY <3>1, <1>4
    <3> QED
      BY <2>2, <3>1, <3>2, <1>5
  <2> QED
    BY <2>1, <2>2
<1>8. IsList(t)
  BY <1>5, SequenceList
<1>9. RemoveAt(s, i) = t
  BY DEF RemoveAt, t, u, v
<1> QED
  BY <1>5, <1>7, <1>8, <1>9

Rising(g, m) == \A j, k \in 1..m : j < k => g[j] < g[k]

UpTo(P, i) == {j \in P : j <= i}

\* The elements at positions in their order
\* g goes through the positions P in their order.
OrderOf(g, m, P) == g \in [1..m -> Int] /\ Rising(g, m) /\ P = {g[k] : k \in 1..m}
Along(list, g, m) == [k \in 1..m |-> list[g[k]]]

\* The elements of a list at some positions are those met along their order.
LEMMA SelectedAt ==
  ASSUME NEW list, NEW m \in Nat, NEW g, NEW P, OrderOf(g, m, P)
  PROVE  Selected(list, P) = Along(list, g, m)
<1>0. g \in [1..m -> Int] /\ Rising(g, m) /\ P = {g[k] : k \in 1..m}
  BY DEF OrderOf
<1>1. ASSUME NEW k \in 0..m PROVE Cardinality({g[j] : j \in 1..k}) = k
  <2> DEFINE f == [j \in 1..k |-> g[j]]
             S == {g[j] : j \in 1..k}
  <2>1. f \in [1..k -> S]
    OBVIOUS
  <2>2. \A x, y \in 1..k : f[x] = f[y] => x = y
    <3> TAKE x, y \in 1..k
    <3>1. x \in 1..m /\ y \in 1..m /\ g[x] \in Int /\ g[y] \in Int
      BY <1>0
    <3>2. x < y => g[x] < g[y]
      BY <1>0, <3>1 DEF Rising
    <3>3. y < x => g[y] < g[x]
      BY <1>0, <3>1 DEF Rising
    <3> QED
      BY <3>1, <3>2, <3>3
  <2>3. \A y \in S : \E x \in 1..k : f[x] = y
    OBVIOUS
  <2> HIDE DEF f, S
  <2>4. f \in Bijection(1..k, S)
    BY <2>1, <2>2, <2>3 DEF Bijection, Injection, Surjection, IsInjective
  <2>5. k \in Nat /\ ExistsBijection(1..k, S)
    BY <2>4 DEF ExistsBijection
  <2>6. Cardinality(S) = k
    BY <2>5, FS_CountingElements
  <2> QED
    BY <2>6 DEF S
<1>2. ASSUME NEW k \in 1..m PROVE Cardinality(UpTo(P, g[k])) = k
  <2>1. UpTo(P, g[k]) = {g[j] : j \in 1..k}
    <3>1. ASSUME NEW j \in 1..m PROVE g[j] <= g[k] <=> j <= k
      <4>1. g[j] \in Int /\ g[k] \in Int
        BY <1>0
      <4>2. (j < k => g[j] < g[k]) /\ (k < j => g[k] < g[j])
        BY <1>0 DEF Rising
      <4> QED
        BY <4>1, <4>2
    <3>2. \A x : x \in UpTo(P, g[k]) <=> \E j \in 1..m : x = g[j] /\ g[j] <= g[k]
      BY <1>0 DEF UpTo
    <3>3. \A j : j \in 1..k <=> j \in 1..m /\ j <= k
      OBVIOUS
    <3> QED
      BY <1>0, <3>1, <3>2, <3>3
  <2>2. k \in 0..m
    OBVIOUS
  <2> QED
    BY <1>1, <2>1, <2>2
<1>3. Cardinality(P) = m
  BY <1>0, <1>1
<1>4. ASSUME NEW k \in 1..m PROVE (CHOOSE i \in P : Cardinality(UpTo(P, i)) = k) = g[k]
  <2>1. \A i \in P : Cardinality(UpTo(P, i)) = k => i = g[k]
    BY <1>0, <1>2
  <2>2. g[k] \in P /\ Cardinality(UpTo(P, g[k])) = k
    BY <1>0, <1>2
  <2> QED
    BY <2>1, <2>2
<1>5. Selected(list, P) = [k \in 1..Cardinality(P) |-> list[CHOOSE i \in P : Cardinality(UpTo(P, i)) = k]]
  BY DEF Selected, UpTo
<1> QED
  BY <1>3, <1>4, <1>5 DEF Along

\* Every set of positions has such an order.
Enumerated(list, P) ==
  \E g \in [1..Cardinality(P) -> P] :
    /\ \A j, k \in 1..Cardinality(P) : g[j] = g[k] => j = k
    /\ Selected(list, P) = [k \in 1..Cardinality(P) |-> list[g[k]]]

\* Whatever the positions, their elements are met along some order of them.
LEMMA SelectedFrom ==
  ASSUME NEW list, NEW n \in Nat, NEW P \in SUBSET (1..n)
  PROVE  Cardinality(P) \in Nat /\ Enumerated(list, P)
<1> DEFINE m == Cardinality(P)
           f == [i \in P |-> Cardinality(UpTo(P, i))]
           g == [k \in 1..m |-> CHOOSE i \in P : Cardinality(UpTo(P, i)) = k]
<1>1. IsFiniteSet(P) /\ m \in Nat /\ (m = 0 <=> P = {})
  <2>1. IsFiniteSet(1..n)
    BY FS_Interval
  <2>2. IsFiniteSet(P)
    BY <2>1, FS_Subset
  <2> QED
    BY <2>2, FS_CardinalityType, FS_EmptySet
<1>2. \A i \in P : i \in Nat
  OBVIOUS
<1>3. ASSUME NEW i \in P
      PROVE  IsFiniteSet(UpTo(P, i)) /\ Cardinality(UpTo(P, i)) \in 1..m
  <2>1. UpTo(P, i) \in SUBSET P /\ i \in UpTo(P, i)
    BY <1>2 DEF UpTo
  <2>2. IsFiniteSet(UpTo(P, i)) /\ Cardinality(UpTo(P, i)) <= m
    BY <1>1, <2>1, FS_Subset
  <2>3. Cardinality(UpTo(P, i)) \in Nat /\ Cardinality(UpTo(P, i)) # 0
    BY <2>1, <2>2, FS_CardinalityType, FS_EmptySet
  <2> QED
    BY <1>1, <2>2, <2>3
<1>4. ASSUME NEW i \in P, NEW j \in P, Cardinality(UpTo(P, i)) = Cardinality(UpTo(P, j))
      PROVE  i = j
  <2>1. \/ UpTo(P, i) \in SUBSET UpTo(P, j)
        \/ UpTo(P, j) \in SUBSET UpTo(P, i)
    <3>1. i \in Nat /\ j \in Nat
      BY <1>2
    <3>2. i <= j => \A x \in P : x <= i => x <= j
      BY <1>2, <3>1
    <3>3. ~(i <= j) => \A x \in P : x <= j => x <= i
      BY <1>2, <3>1
    <3> QED
      BY <3>2, <3>3 DEF UpTo
  <2>2. i \in UpTo(P, i) /\ j \in UpTo(P, j)
    BY <1>2 DEF UpTo
  <2>3. UpTo(P, i) = UpTo(P, j)
    BY <1>3, <1>4, <2>1, FS_Subset
  <2> QED
    BY <1>2, <2>2, <2>3 DEF UpTo
<1>5. f \in Injection(P, 1..m)
  <2>1. f \in [P -> 1..m] /\ \A i, j \in P : f[i] = f[j] => i = j
    <3> HIDE DEF m
    <3> QED
      BY <1>3, <1>4
  <2> HIDE DEF f, m
  <2> QED
    BY <2>1 DEF Injection, IsInjective
<1>6. f \in Surjection(P, 1..m)
  <2> HIDE DEF f
  <2>1. IsFiniteSet(1..m) /\ Cardinality(1..m) = m
    BY <1>1, FS_Interval
  <2> QED
    BY <1>5, <2>1, FS_Injection
<1>7. \A k \in 1..m : \E i \in P : Cardinality(UpTo(P, i)) = k
  <2> HIDE DEF m
  <2>1. \A k \in 1..m : \E i \in P : f[i] = k
    BY <1>6 DEF Surjection
  <2> QED
    BY <2>1
<1>8. \A k \in 1..m : g[k] \in P /\ Cardinality(UpTo(P, g[k])) = k
  <2> HIDE DEF m
  <2> QED
    BY <1>7
<1>9. Selected(list, P) = [k \in 1..m |-> list[g[k]]]
  <2>1. Selected(list, P) = [k \in 1..m |-> list[CHOOSE i \in P : Cardinality(UpTo(P, i)) = k]]
    BY DEF Selected, UpTo
  <2>2. \A k \in 1..m : g[k] = CHOOSE i \in P : Cardinality(UpTo(P, i)) = k
    OBVIOUS
  <2> HIDE DEF g, m
  <2> QED
    BY <2>1, <2>2
<1>10. g = [k \in 1..m |-> g[k]]
  OBVIOUS
<1> HIDE DEF g, m
<1>11. g \in [1..m -> P] /\ \A j, k \in 1..m : g[j] = g[k] => j = k
  BY <1>8, <1>10
<1> QED
  BY <1>1, <1>9, <1>11 DEF m, Enumerated
----------------------------------------------------------------------------
(* The inductive invariant *)

IsReadable(object, id) == id \in Ids(object) /\ "read" \in RowOf(object, id).ops

\* What the server may ask to read: one resource, or all that can be read, each once
WellAsked(object, items) ==
  /\ Len(items) \in Nat \ {0} /\ DOMAIN items = 1..Len(items)
  /\ \A j, k \in DOMAIN items : items[j].id = items[k].id => j = k
  /\ Len(items) > 1 => \A k \in DOMAIN items : IsReadable(object, items[k].id)

\* A read that goes on: the entry k of data is of the resource asked at g[k].  The
\* entries before pos are read; the resources that are asked and have no entry are
\* those that were found without a value.
Kept(g) ==
  /\ g \in [1..Len(data) -> DOMAIN request.items] /\ Rising(g, Len(data))
  /\ \A k \in 1..Len(data) : data[k].id = Asked[g[k]] /\ (Asked[g[k]] \in DOMAIN held <=> k < pos)
  /\ \A i \in DOMAIN request.items :
       (\E k \in 1..Len(data) : g[k] = i) <=> (Asked[i] \in DOMAIN held => Has(Asked[i]))

\* The values that are answered are those of the list, each as its type carries it.
Rendered(object, id, list, values) ==
  LET row == RowOf(object, id)
      kind == Readers[object][id]
  IN  Misread(row, kind, list)
      \/ values = [i \in DOMAIN list |-> Carried(row, kind, list[i])]
Faithful(k) ==
  Rendered(request.object, data[k].id, held[data[k].id].list, data[k].values)

Entries ==
  /\ IsList(data) /\ Len(data) > 0
  /\ \A k \in 1..Len(data) : data[k] = [id |-> data[k].id, values |-> data[k].values]

Opened(op) ==
  /\ request.op = op /\ request.found = TRUE /\ request.busy = FALSE
  /\ op = "read" => request.object \in DOMAIN ObjArray /\ WellAsked(request.object, request.items)

Reading(g) ==
  /\ Opened("read")
  /\ Entries /\ pos \in 1..Len(data) + 1
  /\ Kept(g)
  /\ DOMAIN held \subseteq Range(Asked)
  /\ \A id \in DOMAIN held : ~Fails(id) /\ IsReadable(request.object, Asked[1])
  /\ \A k \in 1..pos - 1 : Faithful(k)

\* A read that is answered
NotServed ==
  \/ request.found = FALSE /\ result = "NOT_FOUND"
  \/ request.found = TRUE /\ request.busy = TRUE /\ result = "INTERNAL_ERROR"
Failing == {k \in DOMAIN Asked : Asked[k] \in DOMAIN held /\ Fails(Asked[k])}
Having == {k \in DOMAIN Asked : Asked[k] \in DOMAIN held /\ Has(Asked[k])}
NotReadable ==
  /\ Opened("read")
  /\ \/ Asked[1] \notin Ids(request.object) /\ result = "NOT_FOUND"
     \/ /\ Asked[1] \in Ids(request.object)
        /\ "read" \notin RowOf(request.object, Asked[1]).ops
        /\ result = "NOT_ALLOWED"
Stopped ==
  /\ Opened("read") /\ IsReadable(request.object, Asked[1])
  /\ \E i \in DOMAIN Asked : Failing = {i} /\ result = SetCoapError(held[Asked[i]].sid, "read")
NothingHeld ==
  /\ Opened("read") /\ IsReadable(request.object, Asked[1])
  /\ Failing = {} /\ Having = {} /\ DOMAIN held = Range(Asked) /\ result = "NOT_FOUND"
Completed(g) ==
  Reading(g) /\ IsReadable(request.object, Asked[1]) /\ pos = Len(data) + 1 /\ result = "CONTENT"

ReadDone == NotServed \/ NotReadable \/ Stopped \/ NothingHeld \/ \E g : Completed(g)

\* What a resource that can be written is given
DatumFits(type, d) ==
  /\ d.len \in Nat /\ d.value \in Int
  /\ d.form \in {"text", "integer", "opaque", "junk", "boolean"}
  /\ d.form \in {"integer", "junk"} => IsNumber(type)
  /\ IsNumber(type) /\ d.form \in {"text", "integer"} => d.value \in -Top(8) - 1 .. Top(8)
  /\ (d.form = "opaque" \/ type = "opaque") /\ d.form # "boolean" /\ d.len \in Sizes =>
       d.value \in 0..Span(d.len) - 1
WellWritten(object, items) ==
  /\ Len(items) \in Nat \ {0} /\ DOMAIN items = 1..Len(items)
  /\ \A k \in DOMAIN items :
       /\ Len(items[k].children) \in Nat \ {0}
       /\ items[k].id \in DOMAIN Writers[object] =>
            \A c \in 1..Len(items[k].children) :
              DatumFits(RowOf(object, items[k].id).type, items[k].children[c])

TakenAt(k) ==
  LET it == request.items[k]
      d == Last(it.children)
  IN  \E c \in Range(calls) :
        /\ c.pos = k /\ c.child = Len(it.children) /\ c.sid = "OK"
        /\ request.op = "write" =>
             LET row == RowOf(request.object, it.id)
                 kind == Writers[request.object][it.id]
             IN  Lossy(row.type, kind, d) \/ c.value = Meant(row.type, kind, d)

Writing ==
  /\ Opened("write") /\ request.object \in DOMAIN Writers
  /\ WellWritten(request.object, request.items)
  /\ pos \in 1..Len(request.items) /\ child \in 1..Len(item.children)
  /\ IsList(calls) /\ \A k \in 1..pos - 1 : TakenAt(k)

Executing ==
  /\ Opened("execute") /\ DOMAIN request.items = {1} /\ Len(request.items[1].children) = 1
  /\ pos = 1 /\ child = 1 /\ IsList(calls)

Fresh ==
  /\ data = <<>> /\ held = <<>> /\ calls = <<>>
  /\ pos = 1 /\ child = 1 /\ result = "NO_ERROR"

IInv ==
  /\ charSigned \in BOOLEAN
  /\ pc = "idle" => Fresh
  /\ pc = "read" => pos <= Len(data) /\ \E g : Reading(g)
  /\ pc = "write" => Writing
  /\ pc = "execute" => Executing
  /\ Answered("read") => ReadDone
  /\ pc = "answered" /\ result = "CHANGED" =>
       request.op # "read" /\ \A k \in DOMAIN request.items : TakenAt(k)

----------------------------------------------------------------------------
(* Requests *)

\* The table of every object is a list of rows.
LEMMA RowsListed ==
  ASSUME NEW object \in DOMAIN ObjArray
  PROVE  \E n \in Nat : DOMAIN ObjArray[object] = 1..n
<1> DEFINE HasRows(rows) == \E n \in Nat : DOMAIN rows = 1..n
<1>1. HasRows(SecurityResources) /\ HasRows(ServerResources) /\ HasRows(DeviceResources)
  <2>1. DOMAIN SecurityResources = 1..13
    BY DEF SecurityResources
  <2>2. DOMAIN ServerResources = 1..7
    BY DEF ServerResources
  <2>3. DOMAIN DeviceResources = 1..12
    BY DEF DeviceResources
  <2> QED
    BY <2>1, <2>2, <2>3
<1>2. /\ HasRows(ConnectivityMonitoringResources) /\ HasRows(FirmwareUpdateResources)
      /\ HasRows(LocationResources) /\ HasRows(ConnectivityStatisticsResources)
  <2>1. DOMAIN ConnectivityMonitoringResources = 1..11
    BY DEF ConnectivityMonitoringResources
  <2>2. DOMAIN FirmwareUpdateResources = 1..7
    BY DEF FirmwareUpdateResources
  <2>3. DOMAIN LocationResources = 1..5
    BY DEF LocationResources
  <2>4. DOMAIN ConnectivityStatisticsResources = 1..6
    BY DEF ConnectivityStatisticsResources
  <2> QED
    BY <2>1, <2>2, <2>3, <2>4
<1>3. /\ HasRows(SoftwareUpdateResources) /\ HasRows(CellularConnectivityResources)
      /\ HasRows(SubscriptionResources) /\ HasRows(ExtConnectivityStatsResources)
  <2>1. DOMAIN SoftwareUpdateResources = 1..11
    BY DEF SoftwareUpdateResources
  <2>2. DOMAIN CellularConnectivityResources = 1..11
    BY DEF CellularConnectivityResources
  <2>3. DOMAIN SubscriptionResources = 1..8
    BY DEF SubscriptionResources
  <2>4. DOMAIN ExtConnectivityStatsResources = 1..12
    BY DEF ExtConnectivityStatsResources
  <2> QED
    BY <2>1, <2>2, <2>3, <2>4
<1>4. /\ HasRows(SslCertificateResources) /\ HasRows(ClockTimeConfigResources)
      /\ HasRows(FileTransferResources) /\ HasRows(FileListResources)
      /\ HasRows(SimApduConfigResources)
  <2>1. DOMAIN SslCertificateResources = 1..1
    BY DEF SslCertificateResources
  <2>2. DOMAIN ClockTimeConfigResources = 1..4
    BY DEF ClockTimeConfigResources
  <2>3. DOMAIN FileTransferResources = 1..9
    BY DEF FileTransferResources
  <2>4. DOMAIN FileListResources = 1..4
    BY DEF FileListResources
  <2>5. DOMAIN SimApduConfigResources = 1..3
    BY DEF SimApduConfigResources
  <2> QED
    BY <2>1, <2>2, <2>3, <2>4, <2>5
<1> HIDE DEF HasRows
<1>5. HasRows(ObjArray[object])
  BY <1>1, <1>2, <1>3, <1>4 DEF ObjArray
<1> QED
  BY <1>5 DEF HasRows

\* An identifier has one row.
LEMMA RowFacts ==
  ASSUME NEW object \in DOMAIN ObjArray, NEW k \in DOMAIN ObjArray[object]
  PROVE  /\ RowOf(object, ObjArray[object][k].id) = ObjArray[object][k]
         /\ ObjArray[object][k].id \in Ids(object)
<1> DEFINE rows == ObjArray[object]
           l == CHOOSE i \in DOMAIN rows : rows[i].id = rows[k].id
<1>1. l \in DOMAIN rows /\ rows[l].id = rows[k].id
  OBVIOUS
<1>2. l = k
  <2> HIDE DEF l
  <2> QED
    BY <1>1, TableFits DEF Unique
<1>3. RowOf(object, rows[k].id) = rows[l]
  BY DEF RowOf
<1> HIDE DEF l
<1> QED
  BY <1>2, <1>3 DEF Ids

\* A resource that can be read has a row and a handler.
LEMMA ReadableFits ==
  ASSUME NEW object \in DOMAIN ObjArray, NEW id, IsReadable(object, id)
  PROVE  Fits(RowOf(object, id), Readers[object][id])
<1>1. PICK k \in DOMAIN ObjArray[object] : id = ObjArray[object][k].id
  BY DEF IsReadable, Ids
<1>2. RowOf(object, id) = ObjArray[object][k]
  BY <1>1, RowFacts
<1>3. FittingAt(ObjArray[object], k, Readers[object])
  BY TableFits DEF Fitting
<1> QED
  BY <1>1, <1>2, <1>3 DEF FittingAt, IsReadable

\* A request for one resource.
LEMMA SingleItem ==
  ASSUME NEW id, NEW children
  PROVE  LET items == <<Item(id, children)>>
         IN  /\ Len(items) = 1 /\ DOMAIN items = {1}
             /\ items[1].id = id /\ items[1].children = children
  BY DEF Item

\* What a server may read is well asked.
LEMMA ReadsAsked ==
  ASSUME NEW object \in DOMAIN ObjArray, NEW items \in Reads(object)
  PROVE  WellAsked(object, items)
<1> DEFINE rows == ObjArray[object]
           P == {k \in DOMAIN rows : "read" \in rows[k].ops}
           readable == Selected(rows, P)
           m == Cardinality(P)
<1>1. ASSUME NEW id, items = <<Item(id, <<>>)>> PROVE WellAsked(object, items)
  <2>1. Len(items) = 1 /\ DOMAIN items = {1}
    BY <1>1, SingleItem
  <2>2. {1} = 1..1
    OBVIOUS
  <2> QED
    BY <2>1, <2>2 DEF WellAsked
<1>2. ASSUME readable # <<>>, items = [k \in DOMAIN readable |-> Item(readable[k].id, <<>>)]
      PROVE  WellAsked(object, items)
  <2>1. PICK n \in Nat : DOMAIN rows = 1..n
    BY RowsListed
  <2>2. P \in SUBSET (1..n)
    BY <2>1
  <2> HIDE DEF P
  <2> HIDE DEF rows
  <2>3. m \in Nat /\ Enumerated(rows, P)
    BY <2>2, SelectedFrom
  <2>4. PICK g \in [1..m -> P] : /\ \A j, k \in 1..m : g[j] = g[k] => j = k
                                 /\ readable = [k \in 1..m |-> rows[g[k]]]
    BY <2>3 DEF Enumerated
  <2> USE DEF rows
  <2> HIDE DEF readable, m
  <2>5. DOMAIN items = 1..m /\ \A k \in 1..m : items[k] = Item(rows[g[k]].id, <<>>)
    BY <1>2, <2>4
  <2>6. items = [k \in 1..m |-> items[k]]
    BY <1>2, <2>4, <2>5
  <2>7. Len(items) = m
    BY <2>3, <2>5, <2>6, ListMade
  <2>8. m # 0
    <3>1. m = 0 => readable = <<>>
      BY <2>4
    <3> QED
      BY <1>2, <3>1
  <2>9. \A k \in 1..m : items[k].id = rows[g[k]].id /\ g[k] \in DOMAIN rows /\ "read" \in rows[g[k]].ops
    BY <2>4, <2>5 DEF Item, P
  <2>10. \A j, k \in 1..m : items[j].id = items[k].id => j = k
    BY <2>4, <2>9, TableFits DEF Unique
  <2>11. \A k \in 1..m : IsReadable(object, items[k].id)
    BY <2>9, RowFacts DEF IsReadable
  <2> QED
    BY <2>3, <2>5, <2>7, <2>8, <2>10, <2>11 DEF WellAsked
<1>3. \/ \E id : items = <<Item(id, <<>>)>>
      \/ readable # <<>> /\ items = [k \in DOMAIN readable |-> Item(readable[k].id, <<>>)]
  BY DEF Reads, WholeObject
<1> HIDE DEF readable
<1> QED
  BY <1>1, <1>2, <1>3
----------------------------------------------------------------------------
(* What is written *)

\* The spans of the sizes, and the numbers at their boundaries.
LEMMA SizeFacts ==
  /\ Top(8) \in Nat /\ \A n \in Sizes : /\ Span(n) \in Nat /\ Top(n) \in Nat
                                        /\ Span(n) = 2 * Top(n) + 2 /\ Top(n) >= 1
                                        /\ Top(n) <= Top(8)
                                        /\ n # 8 => Top(n) + 1 <= Top(8)
<1> SUFFICES ASSUME NEW n \in Sizes
             PROVE  /\ Span(n) \in Nat /\ Top(n) \in Nat
                    /\ Span(n) = 2 * Top(n) + 2 /\ Top(n) >= 1
                    /\ Top(n) <= Top(8)
                    /\ n # 8 => Top(n) + 1 <= Top(8)
  BY SpanFacts DEF Sizes
<1>1. /\ Span(n) \in Nat /\ Top(n) \in Nat /\ Span(n) = 2 * Top(n) + 2
      /\ Span(1) = 2 * Top(1) + 2 /\ Top(1) \in Nat /\ Top(1) >= 1 /\ Top(8) \in Nat
  BY SpanFacts DEF Sizes
<1>2. (n # 8 => Span(n) <= Top(8)) /\ (n # 1 => Span(1) <= Top(n))
  BY SpanFacts DEF Sizes
<1> QED
  BY <1>1, <1>2

\* The data that a resource may be given fit its type.
LEMMA DataFits ==
  ASSUME NEW type, NEW d \in Data(type)
  PROVE  DatumFits(type, d)
<1>1. \A form, len, value : /\ Datum(form, len, value).form = form
                            /\ Datum(form, len, value).len = len
                            /\ Datum(form, len, value).value = value
  BY DEF Datum
<1>2. 0 \notin Sizes /\ Sizes \subseteq Nat /\ TextLengths \subseteq Nat
  BY ObjectsAssumption DEF Sizes, ObjectsAssumption
<1>3. CASE IsNumber(type)
  <2>0. type # "opaque"
    BY <1>3 DEF IsNumber
  <2>1. \/ \E form \in {"text", "integer"}, v \in SignedOf(8) : d = Datum(form, 1, v)
        \/ d = Datum("text", 0, 0) \/ d = Datum("junk", 1, 0) \/ d = Datum("boolean", 0, 1)
        \/ \E n \in TextLengths \ Sizes : d = Datum("opaque", n, 0)
        \/ \E n \in Sizes : \E v : v \in UnsignedOf(n) /\ d = Datum("opaque", n, v)
    <3> DEFINE numbers == {Datum(form, 1, v) : form \in {"text", "integer"}, v \in SignedOf(8)}
               odd == {Datum("opaque", n, 0) : n \in TextLengths \ Sizes}
               octets == UNION {{Datum("opaque", n, v) : v \in UnsignedOf(n)} : n \in Sizes}
    <3>1. d \in numbers \cup {Datum("text", 0, 0), Datum("junk", 1, 0), Datum("boolean", 0, 1)}
                 \cup odd \cup octets
      BY <1>3, <2>0 DEF Data
    <3>2. d \in numbers => \E form \in {"text", "integer"}, v \in SignedOf(8) : d = Datum(form, 1, v)
      OBVIOUS
    <3>3. d \in odd => \E n \in TextLengths \ Sizes : d = Datum("opaque", n, 0)
      OBVIOUS
    <3>4. d \in octets => \E n \in Sizes : \E v : v \in UnsignedOf(n) /\ d = Datum("opaque", n, v)
      OBVIOUS
    <3> HIDE DEF numbers, odd, octets
    <3> QED
      BY <3>1, <3>2, <3>3, <3>4
  <2>2. /\ \A v \in SignedOf(8) : v \in Int /\ v \in -Top(8) - 1 .. Top(8)
        /\ \A n, v : v \in UnsignedOf(n) => v \in Int /\ v \in 0..Span(n) - 1
    BY ObjectsAssumption DEF SignedOf, UnsignedOf, ObjectsAssumption
  <2>3. CASE \E form \in {"text", "integer"}, v \in SignedOf(8) : d = Datum(form, 1, v)
    BY <1>1, <1>3, <2>0, <2>2, <2>3 DEF DatumFits
  <2>4. CASE d = Datum("text", 0, 0) \/ d = Datum("junk", 1, 0) \/ d = Datum("boolean", 0, 1)
    BY <1>1, <1>3, <2>0, <2>4, SizeFacts DEF DatumFits
  <2>5. CASE \E n \in TextLengths \ Sizes : d = Datum("opaque", n, 0)
    BY <1>1, <1>2, <1>3, <2>5 DEF DatumFits
  <2>6. CASE \E n \in Sizes : \E v : v \in UnsignedOf(n) /\ d = Datum("opaque", n, v)
    BY <1>1, <1>2, <1>3, <2>2, <2>6 DEF DatumFits
  <2> QED
    BY <2>1, <2>3, <2>4, <2>5, <2>6
<1>4. CASE ~IsNumber(type)
  <2>1. \E form \in {"text", "opaque"}, n \in Nat : d = Datum(form, n, 1)
    <3>1. CASE type = "opaque"
      BY <1>2, <1>4, <3>1 DEF Data
    <3>2. CASE type # "opaque"
      BY <1>2, <1>4, <3>2 DEF Data
    <3> QED
      BY <3>1, <3>2
  <2>2. \A n \in Sizes : 1 \in 0..Span(n) - 1
    BY SizeFacts
  <2> QED
    BY <1>1, <1>4, <2>1, <2>2 DEF DatumFits
<1> QED
  BY <1>3, <1>4

\* So do those of the second resource of a write.
LEMMA PlainFits ==
  ASSUME NEW type
  PROVE  DatumFits(type, Datum("text", 1, 1)) /\ DatumFits(type, Datum("boolean", 0, 1))
<1>1. Top(8) >= 1 /\ Top(8) \in Nat /\ Top(1) \in Nat /\ 1 \in 0..Span(1) - 1
  BY SizeFacts DEF Sizes
<1> QED
  BY <1>1 DEF DatumFits, Datum

GivenData(object, a) ==
  \E id, s : /\ a = Item(id, s) /\ Len(s) \in Nat \ {0}
             /\ id \in DOMAIN Writers[object] =>
                  \A c \in 1..Len(s) : DatumFits(RowOf(object, id).type, s[c])

\* What a server may write is well written.
LEMMA WritesGiven ==
  ASSUME NEW object \in DOMAIN ObjArray, NEW items \in Writes(object)
  PROVE  WellWritten(object, items)
<1> DEFINE rows == Range(ObjArray[object])
           taken == {row \in rows : row.id \in DOMAIN Writers[object]}
           others == {Item(row.id, <<Datum("text", 1, 1)>>) : row \in {r \in rows : "write" \notin r.ops}}
                     \cup {Item("other", <<Datum("text", 1, 1)>>)}
           given == UNION {{Item(row.id, d) : d \in TupleOf(Data(row.type), 1) \cup
                      (IF row.instances > 1 THEN TupleOf(Data(row.type), 2) ELSE {})} : row \in taken}
           second == others \cup {Item(row.id, d) : row \in taken, d \in Plain}
<1>1. ASSUME NEW id, NEW e \in {Datum("text", 1, 1), Datum("boolean", 0, 1)}
      PROVE  GivenData(object, Item(id, <<e>>))
  <2>1. Len(<<e>>) = 1 /\ \A c \in 1..1 : <<e>>[c] = e
    OBVIOUS
  <2>2. DatumFits(RowOf(object, id).type, e)
    BY PlainFits
  <2> QED
    BY <2>1, <2>2 DEF GivenData
<1>2. ASSUME NEW a \in others PROVE GivenData(object, a)
  <2>1. \E id : a = Item(id, <<Datum("text", 1, 1)>>)
    OBVIOUS
  <2> QED
    BY <1>1, <2>1
<1>3. ASSUME NEW row \in taken, NEW n \in {1, 2}, NEW s \in TupleOf(Data(row.type), n)
      PROVE  GivenData(object, Item(row.id, s))
  <2>1. s \in [1..n -> Data(row.type)] /\ n \in Nat
    BY DEF TupleOf
  <2>2. s \in Seq(Data(row.type)) /\ Len(s) = n
    BY <2>1
  <2>3. RowOf(object, row.id) = row
    BY RowFacts DEF Range
  <2>4. \A c \in 1..n : DatumFits(row.type, s[c])
    BY <2>1, DataFits
  <2>5. /\ Len(s) \in Nat \ {0}
        /\ \A c \in 1..Len(s) : DatumFits(RowOf(object, row.id).type, s[c])
    BY <2>2, <2>3, <2>4
  <2> HIDE DEF taken
  <2> QED
    BY <2>5 DEF GivenData
<1>4. ASSUME NEW a \in given PROVE GivenData(object, a)
  <2>1. PICK row \in taken, n \in {1, 2} : \E s \in TupleOf(Data(row.type), n) : a = Item(row.id, s)
    OBVIOUS
  <2> HIDE DEF taken
  <2> QED
    BY <1>3, <2>1
<1>5. ASSUME NEW a \in second PROVE GivenData(object, a)
  <2>1. a \in others \/ \E row \in taken, d \in Plain : a = Item(row.id, d)
    OBVIOUS
  <2>2. \A d \in Plain : \E e \in {Datum("text", 1, 1), Datum("boolean", 0, 1)} : d = <<e>>
    BY DEF Plain
  <2> HIDE DEF others, taken
  <2> QED
    BY <1>1, <1>2, <2>1, <2>2
<1>6. \/ \E a \in others \cup given : items = <<a>>
      \/ \E a \in others \cup given, b \in second : items = <<a, b>>
  BY DEF Writes
<1> HIDE DEF others, given, second
<1>7. \A a, b : /\ Len(<<a>>) = 1 /\ DOMAIN <<a>> = 1..1 /\ <<a>>[1] = a
                /\ Len(<<a, b>>) = 2 /\ DOMAIN <<a, b>> = 1..2 /\ <<a, b>>[1] = a /\ <<a, b>>[2] = b
  OBVIOUS
<1>8. \A a : GivenData(object, a) =>
        /\ Len(a.children) \in Nat \ {0}
        /\ a.id \in DOMAIN Writers[object] =>
             \A c \in 1..Len(a.children) : DatumFits(RowOf(object, a.id).type, a.children[c])
  BY DEF GivenData, Item
<1>9. /\ Len(items) \in Nat \ {0} /\ DOMAIN items = 1..Len(items)
      /\ \A k \in DOMAIN items : GivenData(object, items[k])
  BY <1>2, <1>4, <1>5, <1>6, <1>7
<1> QED
  BY <1>8, <1>9 DEF WellWritten

\* A handler is given what it can hold.
WriterFits(type, kind) ==
  /\ kind.fill \in {"never", "one", "given"}
  /\ kind.fill = "never" => kind.value # "OK"
  /\ kind.fill # "never" =>
       \/ /\ kind.value \in {"unsigned", "signed"} /\ kind.size \in Sizes
          /\ IsNumber(type) \/ type = "opaque"
       \/ kind.value = "bool" /\ (IsNumber(type) \/ type = "opaque")
       \/ kind.value \in {"text", "octets"} /\ ~IsNumber(type)

\* Every resource that can be written has a row, and a handler that fits its type.
LEMMA WritersFit ==
  ASSUME NEW object \in DOMAIN Writers, NEW id \in DOMAIN Writers[object]
  PROVE  object \in DOMAIN ObjArray /\ WriterFits(RowOf(object, id).type, Writers[object][id])
<1> DEFINE At(rows, writers) == \A i \in DOMAIN writers : \E k \in DOMAIN rows :
             rows[k].id = i /\ WriterFits(rows[k].type, writers[i])
<1>1. At(DeviceResources, WriteDevice)
  <2>1. /\ 10 \in DOMAIN DeviceResources /\ 11 \in DOMAIN DeviceResources
        /\ DeviceResources[10] = Settable("currentTime", "time")
        /\ DeviceResources[11] = Settable("bindingMode", "string")
    BY DEF DeviceResources
  <2>2. /\ DOMAIN WriteDevice = {"currentTime", "bindingMode"}
        /\ WriteDevice["currentTime"] = Unsigned(8)
        /\ WriteDevice["bindingMode"] = Never("NOT_YET_IMPLEMENTED")
    BY DEF WriteDevice
  <2>3. \A i, t : Settable(i, t).id = i /\ Settable(i, t).type = t
    BY DEF Settable, Row
  <2>4. WriterFits("time", Unsigned(8)) /\ WriterFits("string", Never("NOT_YET_IMPLEMENTED"))
    BY DEF WriterFits, Unsigned, Never, Kind, IsNumber, Sizes
  <2> QED
    BY <2>1, <2>2, <2>3, <2>4
<1>2. At(SoftwareUpdateResources, WriteSoftware)
  <2>1. 7 \in DOMAIN SoftwareUpdateResources /\ SoftwareUpdateResources[7] = Settable("supportedObjects", "bool")
    BY DEF SoftwareUpdateResources
  <2>2. DOMAIN WriteSoftware = {"supportedObjects"} /\ WriteSoftware["supportedObjects"] = Bool
    BY DEF WriteSoftware
  <2>3. \A i, t : Settable(i, t).id = i /\ Settable(i, t).type = t
    BY DEF Settable, Row
  <2>4. WriterFits("bool", Bool)
    BY DEF WriterFits, Bool, Kind, IsNumber
  <2> QED
    BY <2>1, <2>2, <2>3, <2>4
<1>3. At(CellularConnectivityResources, WriteCellular)
  <2> DEFINE rows == CellularConnectivityResources
  <2>1. /\ DOMAIN rows = 1..11
        /\ rows[1] = Settable("smscAddress", "string") /\ rows[2] = Settable("disableRadioPeriod", "int")
        /\ rows[3] = Settable("activationCode", "string") /\ rows[4] = Settable("psmTimer", "int")
        /\ rows[5] = Settable("activeTimer", "int") /\ rows[7] = Settable("edrxIu", "opaque")
        /\ rows[8] = Settable("edrxWbS1", "opaque") /\ rows[9] = Settable("edrxNbS1", "opaque")
        /\ rows[10] = Settable("edrxAgb", "opaque")
    BY DEF CellularConnectivityResources
  <2>2. /\ DOMAIN WriteCellular = {"smscAddress", "disableRadioPeriod", "activationCode", "psmTimer",
                                   "activeTimer", "edrxIu", "edrxWbS1", "edrxNbS1", "edrxAgb"}
        /\ \A i \in {"edrxIu", "edrxWbS1", "edrxNbS1", "edrxAgb"} : WriteCellular[i] = Unsigned(1)
        /\ \A i \in {"smscAddress", "disableRadioPeriod", "activationCode", "psmTimer", "activeTimer"} :
             WriteCellular[i] = Never("INVALID_STATE")
    BY DEF WriteCellular
  <2>3. \A i, t : Settable(i, t).id = i /\ Settable(i, t).type = t
    BY DEF Settable, Row
  <2>4. WriterFits("opaque", Unsigned(1)) /\ \A t : WriterFits(t, Never("INVALID_STATE"))
    BY DEF WriterFits, Unsigned, Never, Kind, Sizes
  <2> HIDE DEF rows
  <2>5. At(rows, WriteCellular)
    BY <2>1, <2>2, <2>3, <2>4
  <2> QED
    BY <2>5 DEF rows
<1>4. At(SslCertificateResources, WriteSsl)
  <2>1. 1 \in DOMAIN SslCertificateResources /\ SslCertificateResources[1] = Writable("certificate", "opaque")
    BY DEF SslCertificateResources
  <2>2. DOMAIN WriteSsl = {"certificate"} /\ WriteSsl["certificate"] = Octets
    BY DEF WriteSsl
  <2>3. \A i, t : Writable(i, t).id = i /\ Writable(i, t).type = t
    BY DEF Writable, Row
  <2>4. WriterFits("opaque", Octets)
    BY DEF WriterFits, Octets, Kind, IsNumber
  <2> QED
    BY <2>1, <2>2, <2>3, <2>4
<1>5. At(ClockTimeConfigResources, WriteClock)
  <2>1. /\ 1 \in DOMAIN ClockTimeConfigResources /\ 2 \in DOMAIN ClockTimeConfigResources
        /\ ClockTimeConfigResources[1] = Settable("priority", "int")
        /\ ClockTimeConfigResources[2] = Row("config", "string", 2, {"read", "write"})
    BY DEF ClockTimeConfigResources
  <2>2. /\ DOMAIN WriteClock = {"priority", "config"}
        /\ WriteClock["priority"] = Kind("signed", 2, "given") /\ WriteClock["config"] = Text
    BY DEF WriteClock
  <2>3. /\ \A i, t : Settable(i, t).id = i /\ Settable(i, t).type = t
        /\ \A i, t, n, o : Row(i, t, n, o).id = i /\ Row(i, t, n, o).type = t
    BY DEF Settable, Row
  <2>4. WriterFits("int", Kind("signed", 2, "given")) /\ WriterFits("string", Text)
    BY DEF WriterFits, Text, Kind, IsNumber, Sizes
  <2> QED
    BY <2>1, <2>2, <2>3, <2>4
<1>6. At(SimApduConfigResources, WriteSim)
  <2>1. 1 \in DOMAIN SimApduConfigResources /\ SimApduConfigResources[1] = Writable("command", "opaque")
    BY DEF SimApduConfigResources
  <2>2. DOMAIN WriteSim = {"command"} /\ WriteSim["command"] = Octets
    BY DEF WriteSim
  <2>3. \A i, t : Writable(i, t).id = i /\ Writable(i, t).type = t
    BY DEF Writable, Row
  <2>4. WriterFits("opaque", Octets)
    BY DEF WriterFits, Octets, Kind, IsNumber
  <2> QED
    BY <2>1, <2>2, <2>3, <2>4
<1> HIDE DEF At
<1>7. object \in DOMAIN ObjArray
  BY DEF ObjArray, Writers
<1>8. At(ObjArray[object], Writers[object])
  BY <1>1, <1>2, <1>3, <1>4, <1>5, <1>6 DEF ObjArray, Writers
<1>9. PICK k \in DOMAIN ObjArray[object] :
        ObjArray[object][k].id = id /\ WriterFits(ObjArray[object][k].type, Writers[object][id])
  BY <1>8 DEF At
<1>10. RowOf(object, id) = ObjArray[object][k]
  BY <1>7, <1>9, RowFacts
<1> QED
  BY <1>7, <1>9, <1>10

\* A value that is handed over is the one that is meant, unless it is lost.
LEMMA ValueMeant ==
  ASSUME NEW type, NEW kind, WriterFits(type, kind), kind.fill # "never",
         NEW d, DatumFits(type, d), NEW space, charSigned \in BOOLEAN,
         FormatDataWriteExecute(type, d, space).ok, ~Lossy(type, kind, d)
  PROVE  Value(kind, FormatDataWriteExecute(type, d, space).buffer) = Meant(type, kind, d)
<1> DEFINE f == FormatDataWriteExecute(type, d, space)
           b == f.buffer
           n == MeantNumber(type, d)
<1>1. /\ d.form \in {"text", "integer", "opaque"}
      /\ b = CASE d.form = "integer" -> FormatValueToBytes(d.value, 8, FALSE)
               [] d.form = "text" /\ IsNumber(type) /\ d.len > 0 ->
                    FormatValueToBytes(d.value, 8, FALSE)
               [] d.form = "text" /\ type = "opaque" -> base64_decode(Buffer(d.len, d.value))
               [] OTHER -> Buffer(d.len, d.value)
  <2>1. d.form # "boolean" /\ ~(d.form = "junk" /\ IsNumber(type))
    BY DEF FormatDataWriteExecute
  <2>2. d.form \in {"text", "integer", "opaque"}
    BY <2>1 DEF DatumFits
  <2> QED
    BY <2>1, <2>2 DEF FormatDataWriteExecute
<1> HIDE DEF f, b
<1>2. d.form = "text" /\ type = "opaque" => base64_decode(Buffer(d.len, d.value)) = Buffer(d.len, d.value)
  BY DEF base64_decode, Buffer, Lossy
<1>3. ~AsOctets(type, d) \/ b = Buffer(d.len, d.value)
  <2>1. ~(type = "opaque" /\ IsNumber(type))
    BY DEF IsNumber
  <2> QED
    BY <1>1, <1>2, <2>1 DEF AsOctets
<1>4. ASSUME kind.value \in {"unsigned", "signed", "bool"}
      PROVE  n \in Int /\ BytesToInt(b) = n
  <2>0. /\ d.len # 0 \/ d.form = "integer"
        /\ AsOctets(type, d) => d.len \in Sizes
        /\ n < 0 => AsOctets(type, d) /\ d.len # 1
    BY <1>4 DEF Lossy
  <2>1. CASE AsOctets(type, d)
    <3>1. d.len \in Sizes /\ n = Wrap(d.value, d.len) /\ b = Buffer(d.len, d.value)
      BY <1>3, <2>0, <2>1 DEF MeantNumber
    <3>2. d.value \in 0..Span(d.len) - 1
      BY <1>1, <2>1, <3>1 DEF DatumFits, AsOctets
    <3>3. d.value \in Int /\ 0 <= d.value /\ d.value < Span(d.len) /\ Span(d.len) \in Nat /\ Top(d.len) \in Nat
      BY <3>1, <3>2, SizeFacts
    <3>4. CASE d.value <= Top(d.len)
      <4>1. n = d.value
        BY <3>1, <3>3, <3>4, WrapFacts
      <4> QED
        BY <3>1, <3>3, <4>1 DEF BytesToInt, Buffer
    <3>5. CASE Top(d.len) < d.value
      <4>1. n = d.value - Span(d.len) /\ n < 0
        BY <3>1, <3>3, <3>5, WrapFacts
      <4>2. d.len # 1
        BY <2>0, <4>1
      <4>3. n \in Int
        BY <3>3, <4>1
      <4>4. b.len = d.len /\ b.value = d.value
        BY <3>1 DEF Buffer
      <4> HIDE DEF n
      <4> QED
        BY <3>1, <4>2, <4>3, <4>4 DEF BytesToInt
    <3> QED
      BY <3>3, <3>4, <3>5
  <2>2. CASE ~AsOctets(type, d)
    <3>1. n = d.value /\ IsNumber(type) /\ d.form \in {"text", "integer"}
      <4>1. type = "opaque" \/ IsNumber(type)
        BY <1>4 DEF WriterFits
      <4> QED
        BY <1>1, <2>2, <4>1 DEF MeantNumber, AsOctets, DatumFits
    <3>2. d.value \in -Top(8) - 1 .. Top(8) /\ d.len \in Nat
      BY <3>1 DEF DatumFits
    <3>3. Top(8) \in Nat /\ Span(8) = 2 * Top(8) + 2 /\ 8 \in Sizes
      BY SizeFacts DEF Sizes
    <3>4. d.value \in 0..Top(8) /\ d.value \in 0..Span(8) - 1 /\ d.value \in Int
          /\ (8 = 8 => d.value <= Top(8))
      BY <2>0, <2>2, <3>1, <3>2, <3>3
    <3>5. b = FormatValueToBytes(d.value, 8, FALSE)
      <4>1. type # "opaque" /\ (d.form # "integer" => d.len > 0)
        BY <2>0, <3>1, <3>2 DEF IsNumber
      <4> QED
        BY <1>1, <3>1, <4>1
    <3>6. PICK m \in Sizes : b = Buffer(m, d.value) /\ d.value <= Top(m)
      BY <3>3, <3>4, <3>5, FormatUnsigned
    <3>7. Wrap(d.value, m) = d.value
      BY <3>4, <3>6, WrapFacts
    <3> QED
      BY <3>1, <3>4, <3>6, <3>7 DEF BytesToInt, Buffer
  <2> QED
    BY <2>1, <2>2
<1>5. CASE kind.value = "unsigned"
  <2>1. n \in 0..Span(kind.size) - 1 /\ kind.size \in Sizes
    BY <1>5 DEF Lossy, WriterFits
  <2>2. Span(kind.size) \in Nat
    BY <2>1, SizeFacts
  <2> HIDE DEF n
  <2>3. n % Span(kind.size) = n
    BY <2>1, <2>2, ModFacts
  <2> QED
    BY <1>4, <1>5, <2>3 DEF Value, Meant, b, f, n
<1>6. CASE kind.value = "signed"
  <2>1. n \in -Top(kind.size) - 1 .. Top(kind.size) /\ kind.size \in Sizes
    BY <1>6 DEF Lossy, WriterFits
  <2> HIDE DEF n
  <2>2. Wrap(n, kind.size) = n
    BY <1>4, <1>6, <2>1, WrapFacts
  <2> QED
    BY <1>4, <1>6, <2>2 DEF Value, Meant, b, f, n
<1>7. CASE kind.value = "bool"
  BY <1>4, <1>7 DEF Value, Meant, b, f
<1>8. CASE kind.value \in {"text", "octets"}
  <2>1. ~IsNumber(type)
    <3>1. kind.value \notin {"unsigned", "signed", "bool"}
      BY <1>8
    <3> QED
      BY <3>1 DEF WriterFits
  <2>2. d.form # "integer"
    BY <2>1 DEF DatumFits
  <2>3. b = Buffer(d.len, d.value)
    BY <1>1, <1>2, <2>1, <2>2
  <2> QED
    BY <1>8, <2>3 DEF Value, Meant, b, f
<1> QED
  BY <1>5, <1>6, <1>7, <1>8 DEF WriterFits
----------------------------------------------------------------------------
(* Steps: the read *)

\* The invariant holds before the first request.
LEMMA InitIInv == Init => IInv
  BY DEF Init, IInv, Fresh, Answered

\* Only a platform that says "OK" gives "content" or "changed".
LEMMA ReadCodes ==
  ASSUME NEW sid
  PROVE  /\ SetCoapError(sid, "read") # "CHANGED"
         /\ SetCoapError(sid, "read") = "CONTENT" <=> sid = "OK"
         /\ SetCoapError(sid, "write") = "CHANGED" => sid = "OK"
         /\ SetCoapError(sid, "execute") = "CHANGED" => sid = "OK"
<1>1. CASE sid = "OK"
  BY <1>1 DEF SetCoapError
<1>2. CASE sid = "INVALID_ARG"
  BY <1>2 DEF SetCoapError
<1>3. CASE sid \in {"INVALID_STATE", "OP_NOT_SUPPORTED", "NOT_YET_IMPLEMENTED"}
  BY <1>3 DEF SetCoapError
<1>4. CASE sid \notin {"OK", "INVALID_ARG", "INVALID_STATE", "OP_NOT_SUPPORTED", "NOT_YET_IMPLEMENTED"}
  BY <1>4 DEF SetCoapError
<1> QED
  BY <1>1, <1>2, <1>3, <1>4

\* What a request leaves, when it is not served and when it is
Requested(op, object, items) ==
  /\ charSigned' \in BOOLEAN
  /\ request'.op = op /\ request'.object = object /\ request'.items = items
  /\ held' = <<>> /\ calls' = <<>> /\ pos' = 1 /\ child' = 1
  /\ \/ pc' = "answered" /\ NotServed' /\ result' # "CHANGED"
     \/ /\ pc' = op /\ request'.found = TRUE /\ request'.busy = FALSE
        /\ op = "read" => data' = [k \in DOMAIN items |-> [id |-> items[k].id, values |-> <<>>]]

\* What the request does to the state, whether it is served or refused.
LEMMA RequestEffect ==
  ASSUME NEW op, NEW object, NEW items, NEW found \in BOOLEAN, NEW busy \in BOOLEAN,
         pc = "idle", IInv, Request(op, object, items, found, busy)
  PROVE  Requested(op, object, items)
<1>1. /\ Fresh /\ charSigned \in BOOLEAN
      /\ request' = [op |-> op, object |-> object, items |-> items, found |-> found, busy |-> busy]
      /\ UNCHANGED <<held, pos, child, room, calls, charSigned>>
  BY DEF IInv, Request
<1>2. /\ request'.op = op /\ request'.object = object /\ request'.items = items
      /\ request'.found = found /\ request'.busy = busy
  BY <1>1
<1>3. CASE ~found
  BY <1>1, <1>2, <1>3 DEF Request, NotServed, Fresh, Requested
<1>4. CASE found /\ busy
  BY <1>1, <1>2, <1>4 DEF Request, NotServed, Fresh, Requested
<1>5. CASE found /\ ~busy
  BY <1>1, <1>2, <1>5 DEF Request, Fresh, Requested
<1> QED
  BY <1>3, <1>4, <1>5

\* RequestRead keeps the invariant: nothing is read yet, and every entry is of what was asked.
LEMMA StepRequestRead == IInv /\ RequestRead => IInv'
<1> SUFFICES ASSUME IInv, RequestRead PROVE IInv'
  OBVIOUS
<1>1. PICK object \in DOMAIN ObjArray : \E items \in Reads(object), found \in BOOLEAN, busy \in BusyOf(object) :
        Request("read", object, items, found, busy)
  BY DEF RequestRead
<1>2. PICK items \in Reads(object), found \in BOOLEAN, busy \in BusyOf(object) :
        Request("read", object, items, found, busy)
  BY <1>1
<1>3. busy \in BOOLEAN /\ pc = "idle"
  BY DEF BusyOf, RequestRead
<1>4. WellAsked(object, items)
  BY ReadsAsked
<1>5. /\ charSigned' \in BOOLEAN
      /\ request'.op = "read" /\ request'.object = object /\ request'.items = items
      /\ held' = <<>> /\ pos' = 1
      /\ \/ pc' = "answered" /\ NotServed' /\ result' # "CHANGED"
         \/ /\ pc' = "read" /\ Opened("read")'
            /\ data' = [k \in DOMAIN items |-> [id |-> items[k].id, values |-> <<>>]]
  <2>1. Requested("read", object, items)
    BY <1>2, <1>3, RequestEffect
  <2>2. request'.found = TRUE /\ request'.busy = FALSE => Opened("read")'
    BY <1>4, <2>1 DEF Requested, Opened
  <2> QED
    BY <2>1, <2>2 DEF Requested
<1>6. CASE pc' = "answered" /\ NotServed' /\ result' # "CHANGED"
  BY <1>5, <1>6 DEF IInv, ReadDone
<1>7. CASE /\ pc' = "read" /\ Opened("read")'
           /\ data' = [k \in DOMAIN items |-> [id |-> items[k].id, values |-> <<>>]]
  <2> DEFINE n == Len(items)
             h == [k \in 1..n |-> k]
             made == [k \in DOMAIN items |-> [id |-> items[k].id, values |-> <<>>]]
  <2>1. n \in Nat \ {0} /\ DOMAIN items = 1..n
    BY <1>4 DEF WellAsked
  <2>2. DOMAIN made = 1..n /\ \A k \in 1..n : made[k] = [id |-> items[k].id, values |-> <<>>]
    BY <2>1
  <2>3. made = [k \in 1..n |-> made[k]]
    BY <2>1
  <2> HIDE DEF made, n
  <2>4. IsList(made) /\ Len(made) = n
    BY <2>1, <2>2, <2>3, ListMade
  <2>5. n > 0
    BY <2>1
  <2>6. Len(data') = n /\ Entries' /\ \A k \in 1..n : data'[k].id = items[k].id
    BY <1>7, <2>2, <2>4, <2>5 DEF Entries, made
  <2>7. /\ Asked' = [k \in 1..n |-> items[k].id]
        /\ DOMAIN request'.items = 1..n /\ DOMAIN held' = {}
    BY <1>5, <2>1 DEF Asked
  <2>8. h \in [1..n -> 1..n] /\ Rising(h, n) /\ \A k \in 1..n : h[k] = k
    BY <2>1 DEF Rising
  <2> HIDE DEF h
  <2>9. Kept(h)'
    BY <1>5, <2>1, <2>6, <2>7, <2>8 DEF Kept
  <2>10. Reading(h)' /\ pos' <= Len(data')
    <3>1. pos' \in 1..Len(data') + 1 /\ pos' <= Len(data') /\ 1..pos' - 1 = {}
      BY <1>5, <2>1, <2>6
    <3> QED
      BY <1>7, <2>6, <2>7, <2>9, <3>1 DEF Reading
  <2> QED
    BY <1>5, <1>7, <2>10 DEF IInv, Answered
<1> QED
  BY <1>5, <1>6, <1>7

\* The resource that is read next is the one asked at g[pos].
LEMMA NextRead ==
  ASSUME NEW g, Reading(g), pos <= Len(data)
  PROVE  /\ g[pos] \in DOMAIN request.items /\ data[pos].id = Asked[g[pos]]
         /\ data[pos].id \notin DOMAIN held
         /\ \/ IsReadable(request.object, data[pos].id) /\ IsReadable(request.object, Asked[1])
            \/ Asked[1] = data[pos].id
<1>1. /\ pos \in 1..Len(data) /\ Len(request.items) \in Nat \ {0}
      /\ DOMAIN request.items = 1..Len(request.items)
  BY DEF Reading, Entries, IsList, Opened, WellAsked
<1>2. g[pos] \in DOMAIN request.items /\ data[pos].id = Asked[g[pos]] /\ data[pos].id \notin DOMAIN held
  BY <1>1 DEF Reading, Kept
<1>3. \A k \in DOMAIN request.items : Asked[k] = request.items[k].id
  BY DEF Asked
<1>4. CASE Len(request.items) = 1
  BY <1>1, <1>2, <1>4
<1>5. CASE Len(request.items) > 1
  <2>1. \A k \in DOMAIN request.items : IsReadable(request.object, Asked[k])
    BY <1>3, <1>5 DEF Reading, Opened, WellAsked
  <2> QED
    BY <1>1, <1>2, <2>1
<1> QED
  <2> DEFINE n == Len(request.items)
  <2>1. n = 1 \/ n > 1
    <3>1. n \in Nat \ {0}
      BY <1>1
    <3> HIDE DEF n
    <3> QED
      BY <3>1
  <2> QED
    BY <1>4, <1>5, <2>1

\* So does a read that ends at a resource that does not exist or cannot be read.
LEMMA StepReadUnknown == IInv /\ (ReadUnknown \/ ReadNotAllowed) => IInv'
<1> SUFFICES ASSUME IInv, ReadUnknown \/ ReadNotAllowed PROVE IInv'
  OBVIOUS
<1>1. /\ pc = "read" /\ pc' = "answered" /\ request' = request /\ charSigned' = charSigned
      /\ ~IsReadable(request.object, data[pos].id)
      /\ \/ data[pos].id \notin Ids(request.object) /\ result' = "NOT_FOUND"
         \/ /\ data[pos].id \in Ids(request.object)
            /\ "read" \notin RowOf(request.object, data[pos].id).ops
            /\ result' = "NOT_ALLOWED"
  BY DEF ReadUnknown, ReadNotAllowed, Answer, IsReadable
<1>2. PICK g : Reading(g) /\ pos <= Len(data)
  BY <1>1 DEF IInv
<1>3. Asked[1] = data[pos].id
  BY <1>1, <1>2, NextRead
<1>4. Asked' = Asked /\ Opened("read")'
  BY <1>1, <1>2 DEF Asked, Reading, Opened
<1>5. NotReadable'
  BY <1>1, <1>3, <1>4 DEF NotReadable
<1> QED
  BY <1>1, <1>5 DEF IInv, ReadDone

\* One more resource that was asked for is read.
ReadOne(g, o, answer) ==
  LET id == data[pos].id
      row == RowOf(request.object, id)
      kind == Readers[request.object][id]
  IN  /\ pc = "read" /\ pos <= Len(data) /\ Reading(g)
      /\ IsReadable(request.object, id) /\ Held(row, kind, o)
      /\ answer = ReadResource(row, kind, o)
      /\ held' = Joined(held, [x \in {id} |-> o]) /\ AfterRead(answer) /\ GoOn
      /\ UNCHANGED <<request, child, room, calls, charSigned>>

\* A step of the loop of ReadCb reads one resource, with one of the outcomes of its handler.
LEMMA ReadRegisteredOne ==
  ASSUME IInv, ReadRegistered
  PROVE  \E g, o, answer : ReadOne(g, o, answer)
<1> DEFINE id == data[pos].id
           row == RowOf(request.object, id)
           kind == Readers[request.object][id]
<1>1. /\ pc = "read" /\ IsReadable(request.object, id) /\ GoOn
      /\ UNCHANGED <<request, child, room, calls, charSigned>>
  BY DEF ReadRegistered, IsReadable
<1>2. PICK o \in Outcomes(row, kind) \cup Summary(row, kind) :
        held' = Joined(held, [x \in {id} |-> o]) /\ AfterRead(ReadResource(row, kind, o))
  BY DEF ReadRegistered
<1>3. PICK g : Reading(g) /\ pos <= Len(data)
  BY <1>1 DEF IInv
<1>4. request.object \in DOMAIN ObjArray
  BY <1>3 DEF Reading, Opened
<1>5. Fits(row, kind)
  BY <1>1, <1>4, ReadableFits
<1>6. Held(row, kind, o)
  BY <1>5, OutcomesHeld
<1>7. ReadOne(g, o, ReadResource(row, kind, o))
  BY <1>1, <1>2, <1>3, <1>6 DEF ReadOne
<1> QED
  BY <1>7

\* Has and Fails of what is held
HasIn(h, id) ==
  h[id].sid = "OK" /\ (Readers[request.object][id].fill = "list" => h[id].list # <<>>)
FailsIn(h, id) == SetCoapError(h[id].sid, "read") \notin {"CONTENT", "NOT_FOUND"}

\* What is known of the resource that was read and of the others
Known(g, o, answer) ==
  LET id == data[pos].id
  IN  /\ pos \in 1..Len(data) /\ Len(data) \in Nat /\ IsList(data)
      /\ g[pos] \in DOMAIN request.items /\ Asked[g[pos]] = id /\ id \notin DOMAIN held
      /\ IsReadable(request.object, Asked[1])
      /\ request' = request /\ Asked' = Asked
      /\ DOMAIN held' = DOMAIN held \cup {id} /\ \A x \in DOMAIN held : held'[x] = held[x]
      /\ \A x \in DOMAIN held : (HasIn(held', x) <=> Has(x)) /\ (FailsIn(held', x) <=> Fails(x))
      /\ HasIn(held', id) <=> answer.code = "CONTENT"
      /\ FailsIn(held', id) <=> answer.code \notin {"CONTENT", "NOT_FOUND"}
      /\ answer.code \notin {"CONTENT", "NOT_FOUND"} =>
           answer.code = SetCoapError(held'[id].sid, "read")
      /\ answer.code # "CHANGED"
      /\ answer.code = "CONTENT" =>
           Rendered(request.object, id, held'[id].list, answer.values)
      /\ \A j, k \in DOMAIN request.items : Asked[j] = Asked[k] => j = k

\* What is known of the resource that was read: its answer is determined by what is held.
LEMMA ReadOneKnown ==
  ASSUME charSigned \in BOOLEAN, NEW g, NEW o, NEW answer, ReadOne(g, o, answer)
  PROVE  Known(g, o, answer)
<1> DEFINE id == data[pos].id
           row == RowOf(request.object, id)
           kind == Readers[request.object][id]
<1>1. /\ Reading(g) /\ pos <= Len(data) /\ IsReadable(request.object, id) /\ Held(row, kind, o)
      /\ answer = ReadResource(row, kind, o) /\ held' = Joined(held, [x \in {id} |-> o])
      /\ request' = request
  BY DEF ReadOne
<1>2. pos \in 1..Len(data) /\ Len(data) \in Nat /\ IsList(data)
  BY <1>1 DEF Reading, Entries, IsList
<1>3. /\ g[pos] \in DOMAIN request.items /\ Asked[g[pos]] = id /\ id \notin DOMAIN held
      /\ IsReadable(request.object, Asked[1])
  BY <1>1, NextRead
<1>4. Asked' = Asked
  BY <1>1 DEF Asked
<1> HIDE DEF id
<1>5. /\ DOMAIN held' = DOMAIN held \cup {id} /\ held'[id] = o
      /\ \A x \in DOMAIN held : held'[x] = held[x]
  <2> DEFINE one == [x \in {id} |-> o]
  <2>1. DOMAIN one = {id} /\ one[id] = o
    OBVIOUS
  <2> HIDE DEF one
  <2>2. held' = [x \in DOMAIN held \cup {id} |-> IF x \in DOMAIN held THEN held[x] ELSE one[x]]
    BY <1>1, <2>1 DEF Joined, one
  <2> QED
    BY <1>3, <2>1, <2>2
<1>7. \A x \in DOMAIN held : (HasIn(held', x) <=> Has(x)) /\ (FailsIn(held', x) <=> Fails(x))
  BY <1>5 DEF HasIn, FailsIn, Has, Fails
<1>8. Fits(row, kind)
  BY <1>1, ReadableFits DEF Reading, Opened
<1>9. /\ o.sid # "OK" => answer.code = SetCoapError(o.sid, "read")
      /\ o.sid = "OK" =>
           answer.code = IF kind.fill = "list" /\ o.list = <<>> THEN "NOT_FOUND" ELSE "CONTENT"
      /\ o.sid = "OK" /\ answer.code = "CONTENT" =>
           \/ Misread(row, kind, o.list)
           \/ answer.values = [i \in DOMAIN o.list |-> Carried(row, kind, o.list[i])]
  BY <1>1, <1>8, ResourceRead
<1>10. /\ SetCoapError(o.sid, "read") # "CHANGED"
       /\ SetCoapError(o.sid, "read") = "CONTENT" <=> o.sid = "OK"
  BY ReadCodes
<1>11. (o.sid = "OK" /\ (kind.fill = "list" => o.list # <<>>)) <=> answer.code = "CONTENT"
  BY <1>9, <1>10
<1>12. SetCoapError(o.sid, "read") \notin {"CONTENT", "NOT_FOUND"} <=>
         answer.code \notin {"CONTENT", "NOT_FOUND"}
  BY <1>9, <1>10
<1>13. /\ HasIn(held', id) <=> answer.code = "CONTENT"
       /\ FailsIn(held', id) <=> answer.code \notin {"CONTENT", "NOT_FOUND"}
  BY <1>5, <1>11, <1>12 DEF HasIn, FailsIn
<1>17. answer.code \notin {"CONTENT", "NOT_FOUND"} => answer.code = SetCoapError(held'[id].sid, "read")
  BY <1>5, <1>9
<1>14. answer.code # "CHANGED"
  BY <1>9, <1>10
<1>15. answer.code = "CONTENT" => Rendered(request.object, id, held'[id].list, answer.values)
  BY <1>5, <1>9, <1>10 DEF Rendered
<1>16. \A j, k \in DOMAIN request.items : Asked[j] = Asked[k] => j = k
  BY <1>1 DEF Reading, Opened, WellAsked, Asked
<1> QED
  BY ZenonT(30), <1>1, <1>2, <1>3, <1>4, <1>5, <1>7, <1>13, <1>14, <1>15, <1>16, <1>17 DEF Known, id

\* The loop of ReadCb, with one more resource read, goes on as it should.
LoopFacts(g) ==
  /\ request.found = TRUE /\ request.busy = FALSE /\ request.op = "read"
  /\ g \in [1..Len(data) -> DOMAIN request.items] /\ Rising(g, Len(data))
  /\ DOMAIN request.items \subseteq Int
  /\ \A k \in 1..Len(data) : data[k].id = Asked[g[k]] /\ (Asked[g[k]] \in DOMAIN held <=> k < pos)
  /\ \A i \in DOMAIN request.items :
       (\E k \in 1..Len(data) : g[k] = i) <=> (Asked[i] \in DOMAIN held => Has(Asked[i]))
  /\ \A j, k \in 1..Len(data) : g[j] = g[k] => j = k

\* What the loop keeps, as the steps need it: no resource has two entries.
LEMMA ReadingLoop ==
  ASSUME NEW g, Reading(g)
  PROVE  LoopFacts(g)
<1>1. /\ Opened("read") /\ Kept(g) /\ DOMAIN request.items \subseteq Int
      /\ g \in [1..Len(data) -> DOMAIN request.items] /\ Rising(g, Len(data)) /\ Len(data) \in Nat
  BY DEF Reading, Opened, WellAsked, Kept, Entries, IsList
<1> DEFINE n == Len(data)
<1>2. ASSUME NEW j \in 1..n, NEW k \in 1..n, g[j] = g[k] PROVE j = k
  <2>1. g[j] \in Int /\ g[k] \in Int
    BY <1>1
  <2>2. (j < k => g[j] < g[k]) /\ (k < j => g[k] < g[j])
    BY <1>1 DEF Rising
  <2> QED
    BY <1>2, <2>1, <2>2
<1> QED
  BY <1>1, <1>2 DEF LoopFacts, Kept, Opened

\* An entry that was read stays as it is while others are read.
LEMMA StillFaithful ==
  ASSUME NEW g, NEW o, NEW answer, Known(g, o, answer), Reading(g),
         NEW k \in 1..pos - 1, data'[k] = data[k]
  PROVE  Faithful(k)'
<1>1. Faithful(k)
  BY DEF Reading
<1>2. k \in 1..Len(data) /\ k < pos
  BY DEF Known
<1>3. data[k].id \in DOMAIN held
  BY <1>2 DEF Reading, Kept
<1>4. held'[data[k].id] = held[data[k].id] /\ request' = request
  BY <1>3 DEF Known
<1> QED
  BY <1>1, <1>4 DEF Faithful

\* As long as the code is "content" or "not found" no resource has failed.
LEMMA NoneFails ==
  ASSUME NEW g, NEW o, NEW answer, Known(g, o, answer), Reading(g),
         answer.code \in {"CONTENT", "NOT_FOUND"}
  PROVE  /\ DOMAIN held' \subseteq Range(Asked)'
         /\ \A x \in DOMAIN held' : ~FailsIn(held', x)
<1> DEFINE id == data[pos].id
<1>1. /\ DOMAIN held' = DOMAIN held \cup {id}
      /\ \A x \in DOMAIN held : FailsIn(held', x) <=> Fails(x)
      /\ ~FailsIn(held', id) /\ Asked' = Asked /\ Asked[g[pos]] = id /\ g[pos] \in DOMAIN request.items
  BY DEF Known
<1>2. DOMAIN held \subseteq Range(Asked) /\ \A x \in DOMAIN held : ~Fails(x)
  BY DEF Reading
<1> HIDE DEF id
<1>3. id \in Range(Asked)
  BY <1>1 DEF Range, Asked
<1> QED
  BY <1>1, <1>2, <1>3

\* The parts of the invariant after a resource, without Reading
LEMMA ReadingAgain ==
  ASSUME NEW g, NEW o, NEW answer, Known(g, o, answer), Reading(g),
         answer.code \in {"CONTENT", "NOT_FOUND"},
         NEW h, Kept(h)', Entries', (pos \in 1..Len(data) + 1)', (\A k \in 1..pos - 1 : Faithful(k))'
  PROVE  Reading(h)'
<1>1. request' = request /\ Asked' = Asked /\ IsReadable(request.object, Asked[1])
  BY DEF Known
<1>2. Opened("read")' /\ IsReadable(request.object, Asked[1])'
  BY <1>1 DEF Reading, Opened, IsReadable
<1>3. (DOMAIN held \subseteq Range(Asked))' /\ (\A x \in DOMAIN held : ~Fails(x))'
  BY NoneFails DEF Fails, FailsIn
<1> QED
  BY <1>2, <1>3 DEF Reading

\* A resource without value: its entry goes, and the others keep their order.
LEMMA ReadRemoved ==
  ASSUME NEW g, NEW o, NEW answer, Known(g, o, answer), Reading(g),
         answer.code = "NOT_FOUND", Len(data) > 1,
         data' = RemoveAt(data, pos), pos' = pos
  PROVE  Len(data') = Len(data) - 1 /\ \E h : Reading(h)'
<1> DEFINE n == Len(data)
           p == pos
           id == data[pos].id
           items == request.items
<1>1. LoopFacts(g)
  BY ReadingLoop
<1>2. /\ p \in 1..n /\ n \in Nat /\ n > 1 /\ IsList(data) /\ request' = request /\ Asked' = Asked
      /\ Asked[g[p]] = id /\ id \notin DOMAIN held /\ g[p] \in DOMAIN items
      /\ DOMAIN held' = DOMAIN held \cup {id}
      /\ \A x \in DOMAIN held : HasIn(held', x) <=> Has(x)
      /\ ~HasIn(held', id)
      /\ \A j, k \in DOMAIN items : Asked[j] = Asked[k] => j = k
  BY DEF Known
<1>3. /\ IsList(data') /\ Len(data') = n - 1
      /\ \A k \in 1..n - 1 : data'[k] = IF k < p THEN data[k] ELSE data[k + 1]
  BY <1>2, ListRemove
<1>4. PICK h : h = [k \in 1..n - 1 |-> IF k < p THEN g[k] ELSE g[k + 1]]
  OBVIOUS
<1>5. /\ g \in [1..n -> DOMAIN items] /\ Rising(g, n) /\ DOMAIN items \subseteq Int
      /\ \A k \in 1..n : data[k].id = Asked[g[k]] /\ (Asked[g[k]] \in DOMAIN held <=> k < p)
      /\ \A i \in DOMAIN items :
           (\E k \in 1..n : g[k] = i) <=> (Asked[i] \in DOMAIN held => Has(Asked[i]))
      /\ \A j, k \in 1..n : g[j] = g[k] => j = k
  BY <1>1 DEF LoopFacts
<1> HIDE DEF n, p, id, items
<1>6. /\ h \in [1..n - 1 -> DOMAIN items]
      /\ \A k \in 1..n - 1 : /\ k < p => h[k] = g[k] /\ data'[k] = data[k]
                             /\ ~(k < p) => h[k] = g[k + 1] /\ data'[k] = data[k + 1]
  <2>1. \A k \in 1..n - 1 : k \in 1..n /\ k + 1 \in 1..n
    BY <1>2
  <2> QED
    BY <1>3, <1>4, <1>5, <2>1
<1>7. Rising(h, n - 1)
  <2> SUFFICES ASSUME NEW j \in 1..n - 1, NEW k \in 1..n - 1, j < k PROVE h[j] < h[k]
    BY DEF Rising
  <2>1. /\ j \in 1..n /\ j + 1 \in 1..n /\ k \in 1..n /\ k + 1 \in 1..n
        /\ j < k /\ j + 1 < k + 1 /\ j < k + 1 /\ ~(k < p /\ ~(j < p))
    BY <1>2
  <2>2. g[j] < g[k] /\ g[j + 1] < g[k + 1] /\ g[j] < g[k + 1]
    BY <1>5, <2>1 DEF Rising
  <2> QED
    BY <1>6, <2>1, <2>2
<1>8. ASSUME NEW k \in 1..n - 1
      PROVE  data'[k].id = Asked[h[k]] /\ (Asked[h[k]] \in DOMAIN held' <=> k < p)
  <2>1. CASE k < p
    <3>1. k \in 1..n
      BY <1>2
    <3>2. h[k] = g[k] /\ data'[k] = data[k]
      BY <1>6, <2>1
    <3>3. data[k].id = Asked[g[k]] /\ Asked[g[k]] \in DOMAIN held
      BY <1>5, <2>1, <3>1
    <3>4. Asked[g[k]] \in DOMAIN held'
      BY <1>2, <3>3
    <3> QED
      BY <2>1, <3>2, <3>3, <3>4
  <2>2. CASE ~(k < p)
    <3>1. k + 1 \in 1..n /\ k + 1 # p /\ ~(k + 1 < p) /\ p \in 1..n
      BY <1>2, <2>2
    <3>2. data'[k].id = Asked[g[k + 1]] /\ Asked[g[k + 1]] \notin DOMAIN held /\ h[k] = g[k + 1]
      BY <1>5, <1>6, <2>2, <3>1
    <3>3. g[k + 1] # g[p] /\ g[k + 1] \in DOMAIN items
      BY <1>5, <3>1
    <3>4. Asked[g[k + 1]] # id
      BY <1>2, <3>3
    <3> QED
      BY <1>2, <2>2, <3>2, <3>4
  <2> QED
    BY <2>1, <2>2
<1>9. ASSUME NEW i \in DOMAIN items
      PROVE  (\E k \in 1..n - 1 : h[k] = i) <=> (Asked[i] \in DOMAIN held' => HasIn(held', Asked[i]))
  <2>1. CASE i = g[p]
    <3>1. \A k \in 1..n - 1 : h[k] # i
      <4> TAKE k \in 1..n - 1
      <4>1. k \in 1..n /\ k + 1 \in 1..n /\ (k < p => k # p) /\ (~(k < p) => k + 1 # p) /\ p \in 1..n
        BY <1>2
      <4> QED
        BY <1>5, <1>6, <2>1, <4>1
    <3> QED
      BY <1>2, <2>1, <3>1
  <2>2. CASE i # g[p]
    <3>1. Asked[i] # id
      BY <1>2, <2>2
    <3>2. (Asked[i] \in DOMAIN held' => HasIn(held', Asked[i])) <=> \E k \in 1..n : g[k] = i
      BY <1>2, <1>5, <3>1
    <3>3. ASSUME NEW k \in 1..n, g[k] = i PROVE \E l \in 1..n - 1 : h[l] = i
      <4>1. k # p
        BY <2>2, <3>3
      <4>2. CASE k < p
        <5>1. k \in 1..n - 1
          BY <1>2, <4>2
        <5> QED
          BY <1>6, <3>3, <4>2, <5>1
      <4>3. CASE ~(k < p)
        <5>1. k - 1 \in 1..n - 1 /\ ~(k - 1 < p) /\ (k - 1) + 1 = k
          BY <1>2, <4>1, <4>3
        <5>2. h[k - 1] = g[(k - 1) + 1]
          BY <1>6, <5>1
        <5> QED
          BY <3>3, <5>1, <5>2
      <4> QED
        BY <4>2, <4>3
    <3>4. ASSUME NEW l \in 1..n - 1, h[l] = i PROVE \E k \in 1..n : g[k] = i
      <4>1. l \in 1..n /\ l + 1 \in 1..n
        BY <1>2
      <4> QED
        BY <1>6, <3>4, <4>1
    <3> QED
      BY <3>2, <3>3, <3>4
  <2> QED
    BY <2>1, <2>2
<1>10. Kept(h)'
  <2>1. request' = request /\ Asked' = Asked /\ Len(data') = n - 1 /\ pos' = p
    BY <1>2, <1>3 DEF p
  <2>2. \A i \in DOMAIN items : HasIn(held', Asked[i]) <=> Has(Asked[i])'
    BY <2>1 DEF HasIn, Has
  <2> QED
    BY <1>6, <1>7, <1>8, <1>9, <2>1, <2>2 DEF Kept, items
<1>11. Entries'
  <2>1. \A k \in 1..n - 1 : k \in 1..n /\ k + 1 \in 1..n
    BY <1>2
  <2>2. \A k \in 1..n : data[k] = [id |-> data[k].id, values |-> data[k].values]
    BY DEF Reading, Entries, n
  <2>3. \A k \in 1..n - 1 : data'[k] = [id |-> data'[k].id, values |-> data'[k].values]
    BY <1>6, <2>1, <2>2
  <2>4. IsList(data)'
    BY <1>3 DEF IsList
  <2>5. n - 1 > 0
    BY <1>2
  <2> QED
    BY <1>2, <1>3, <2>3, <2>4, <2>5 DEF Entries
<1>12. (pos \in 1..Len(data) + 1)'
  BY <1>2, <1>3 DEF p
<1>13. (\A k \in 1..pos - 1 : Faithful(k))'
  <2>1. pos' = p
    BY DEF p
  <2>2. \A k \in 1..p - 1 : k \in 1..n - 1 /\ k < p
    BY <1>2
  <2>3. \A k \in 1..pos - 1 : data'[k] = data[k]
    BY <1>6, <2>2 DEF p
  <2>4. \A k \in 1..pos - 1 : Faithful(k)'
    BY <2>3, StillFaithful
  <2> QED
    BY <2>4
<1>14. Reading(h)'
  BY <1>10, <1>11, <1>12, <1>13, ReadingAgain
<1> QED
  BY <1>3, <1>14 DEF n

\* A resource with a value: its entry takes the value that the platform has.
LEMMA ReadKept ==
  ASSUME NEW g, NEW o, NEW answer, Known(g, o, answer), Reading(g),
         answer.code = "CONTENT",
         data' = [data EXCEPT ![pos].values = answer.values], pos' = pos + 1
  PROVE  Len(data') = Len(data) /\ Reading(g)'
<1> DEFINE n == Len(data)
           p == pos
           id == data[pos].id
           items == request.items
<1>1. LoopFacts(g)
  BY ReadingLoop
<1>2. /\ p \in 1..n /\ n \in Nat /\ IsList(data) /\ request' = request /\ Asked' = Asked
      /\ Asked[g[p]] = id /\ id \notin DOMAIN held /\ g[p] \in DOMAIN items
      /\ DOMAIN held' = DOMAIN held \cup {id}
      /\ \A x \in DOMAIN held : HasIn(held', x) <=> Has(x)
      /\ HasIn(held', id)
      /\ \A j, k \in DOMAIN items : Asked[j] = Asked[k] => j = k
  BY DEF Known
<1>3. /\ IsList(data') /\ Len(data') = n
      /\ \A k \in 1..n : k # p => data'[k] = data[k]
      /\ data'[p] = [id |-> id, values |-> answer.values]
  <2>1. /\ data = [k \in 1..n |-> data[k]] /\ DOMAIN data = 1..n
    BY <1>2 DEF IsList
  <2>2. data[p] = [id |-> id, values |-> data[p].values]
    BY <1>2 DEF Reading, Entries
  <2>3. data' = [k \in 1..n |-> IF k = p THEN [data[p] EXCEPT !.values = answer.values] ELSE data[k]]
    BY <2>1
  <2>4. [data[p] EXCEPT !.values = answer.values] = [id |-> id, values |-> answer.values]
    BY <2>2
  <2> HIDE DEF n, p, id
  <2>5. DOMAIN data' = 1..n /\ data' = [k \in 1..n |-> data'[k]]
    BY <2>3
  <2>6. IsList(data') /\ Len(data') = n
    BY <1>2, <2>5, ListMade
  <2> QED
    BY <1>2, <2>3, <2>4, <2>6
<1>5. /\ g \in [1..n -> DOMAIN items] /\ Rising(g, n)
      /\ \A k \in 1..n : data[k].id = Asked[g[k]] /\ (Asked[g[k]] \in DOMAIN held <=> k < p)
      /\ \A i \in DOMAIN items :
           (\E k \in 1..n : g[k] = i) <=> (Asked[i] \in DOMAIN held => Has(Asked[i]))
      /\ \A j, k \in 1..n : g[j] = g[k] => j = k
  BY <1>1 DEF LoopFacts
<1> HIDE DEF n, p, id, items
<1>6. ASSUME NEW k \in 1..n
      PROVE  data'[k].id = Asked[g[k]] /\ (Asked[g[k]] \in DOMAIN held' <=> k < p + 1)
  <2>1. CASE k = p
    <3>1. data'[k].id = id
      BY <1>3, <2>1
    <3> QED
      BY <1>2, <2>1, <3>1
  <2>2. CASE k # p
    <3>1. Asked[g[k]] # id
      BY <1>2, <1>5, <2>2
    <3>2. k < p <=> k < p + 1
      BY <1>2, <2>2
    <3> QED
      BY <1>2, <1>3, <1>5, <2>2, <3>1, <3>2
  <2> QED
    BY <2>1, <2>2
<1>7. ASSUME NEW i \in DOMAIN items
      PROVE  (\E k \in 1..n : g[k] = i) <=> (Asked[i] \in DOMAIN held' => HasIn(held', Asked[i]))
  <2>1. CASE i = g[p]
    BY <1>2, <2>1
  <2>2. CASE i # g[p]
    <3>1. Asked[i] # id
      BY <1>2, <2>2
    <3> QED
      BY <1>2, <1>5, <3>1
  <2> QED
    BY <2>1, <2>2
<1>8. pos' = p + 1 /\ request' = request /\ Asked' = Asked /\ Len(data') = n
  BY <1>2, <1>3 DEF p
<1>9. Kept(g)'
  <2>1. \A i \in DOMAIN items : HasIn(held', Asked[i]) <=> Has(Asked[i])'
    BY <1>8 DEF HasIn, Has
  <2> QED
    BY <1>5, <1>6, <1>7, <1>8, <2>1 DEF Kept, items
<1>10. Entries'
  <2>1. \A k \in 1..n : data[k] = [id |-> data[k].id, values |-> data[k].values]
    BY DEF Reading, Entries, n
  <2>2. \A k \in 1..n : data'[k] = [id |-> data'[k].id, values |-> data'[k].values]
    BY <1>3, <2>1
  <2>3. IsList(data)'
    BY <1>3 DEF IsList
  <2>4. n > 0
    BY <1>2
  <2> QED
    BY <1>8, <2>2, <2>3, <2>4 DEF Entries
<1>11. (pos \in 1..Len(data) + 1)'
  BY <1>2, <1>8
<1>12. (\A k \in 1..pos - 1 : Faithful(k))'
  <2>1. ASSUME NEW k \in 1..p - 1 PROVE Faithful(k)'
    <3>1. k \in 1..n /\ k # p /\ k \in 1..pos - 1
      BY <1>2 DEF p
    <3>2. data'[k] = data[k]
      BY <1>3, <3>1
    <3> QED
      BY <3>1, <3>2, StillFaithful
  <2>2. ASSUME NEW k, k = p PROVE Faithful(k)'
    <3>1. data'[k].id = id /\ data'[k].values = answer.values
      BY <1>3, <2>2
    <3>2. Rendered(request.object, id, held'[id].list, answer.values)
      BY DEF Known, id
    <3>3. request'.object = request.object /\ data'[k].id = id /\ data'[k].values = answer.values
      BY <1>8, <3>1
    <3> QED
      BY <3>2, <3>3 DEF Faithful
  <2>3. \A k \in 1..(p + 1) - 1 : k \in 1..p - 1 \/ k = p
    BY <1>2
  <2>4. \A k \in 1..(p + 1) - 1 : Faithful(k)'
    BY <2>1, <2>2, <2>3
  <2> QED
    BY <1>8, <2>4
<1> QED
  BY <1>3, <1>9, <1>10, <1>11, <1>12, ReadingAgain DEF n

\* A resource that fails: it is the only one, and the answer is its code.
LEMMA ReadFails ==
  ASSUME NEW g, NEW o, NEW answer, Known(g, o, answer), Reading(g),
         answer.code \notin {"CONTENT", "NOT_FOUND"}, result' = answer.code
  PROVE  Stopped'
<1> DEFINE id == data[pos].id
           i == g[pos]
<1>1. /\ request' = request /\ Asked' = Asked /\ IsReadable(request.object, Asked[1])
      /\ Asked[i] = id /\ i \in DOMAIN request.items
      /\ DOMAIN held' = DOMAIN held \cup {id}
      /\ \A x \in DOMAIN held : FailsIn(held', x) <=> Fails(x)
      /\ FailsIn(held', id) /\ answer.code = SetCoapError(held'[id].sid, "read")
      /\ \A j, k \in DOMAIN request.items : Asked[j] = Asked[k] => j = k
  BY DEF Known
<1>2. DOMAIN Asked = DOMAIN request.items
  BY DEF Asked
<1>3. \A x \in DOMAIN held : ~Fails(x)
  BY DEF Reading
<1>4. PICK c : c = i
  OBVIOUS
<1> HIDE DEF id, i
<1>5. {k \in DOMAIN Asked : Asked[k] \in DOMAIN held' /\ FailsIn(held', Asked[k])} = {c}
  BY <1>1, <1>2, <1>3, <1>4
<1>6. Failing' = {c}
  BY <1>1, <1>5 DEF Failing, Fails, FailsIn
<1>7. Opened("read")' /\ IsReadable(request.object, Asked[1])'
  BY <1>1 DEF Reading, Opened, IsReadable
<1>8. c \in DOMAIN Asked' /\ result' = SetCoapError(held'[Asked'[c]].sid, "read")
  BY <1>1, <1>2, <1>4
<1> QED
  BY <1>6, <1>7, <1>8 DEF Stopped

\* The last entry has no value either: nothing that was asked has one.
LEMMA ReadNothing ==
  ASSUME NEW g, NEW o, NEW answer, Known(g, o, answer), Reading(g),
         answer.code = "NOT_FOUND", Len(data) = 1, result' = "NOT_FOUND"
  PROVE  NothingHeld'
<1> DEFINE id == data[pos].id
           i == g[pos]
<1>1. /\ request' = request /\ Asked' = Asked /\ IsReadable(request.object, Asked[1])
      /\ Asked[i] = id /\ i \in DOMAIN request.items /\ pos \in 1..Len(data)
      /\ DOMAIN held' = DOMAIN held \cup {id}
      /\ \A x \in DOMAIN held : HasIn(held', x) <=> Has(x)
      /\ ~HasIn(held', id)
      /\ \A j, k \in DOMAIN request.items : Asked[j] = Asked[k] => j = k
  BY DEF Known
<1>2. DOMAIN Asked = DOMAIN request.items /\ pos = 1
  BY <1>1 DEF Asked
<1>3. \A k \in DOMAIN request.items : g[1] # k => Asked[k] \in DOMAIN held /\ ~Has(Asked[k])
  <2>1. \A k \in DOMAIN request.items :
          (\E j \in 1..1 : g[j] = k) <=> (Asked[k] \in DOMAIN held => Has(Asked[k]))
    BY DEF Reading, Kept
  <2> QED
    BY <2>1
<1>4. \A k \in DOMAIN Asked : Asked[k] \in DOMAIN held' /\ ~HasIn(held', Asked[k])
  <2> HIDE DEF id
  <2>1. \A k \in DOMAIN Asked : k = i \/ g[1] # k
    BY <1>2
  <2> HIDE DEF i
  <2> QED
    BY <1>1, <1>2, <1>3, <2>1
<1>5. /\ DOMAIN held' \subseteq Range(Asked)'
      /\ \A x \in DOMAIN held' : ~FailsIn(held', x)
  BY NoneFails
<1>6. DOMAIN held' = Range(Asked)'
  <2>1. Range(Asked)' = {Asked[k] : k \in DOMAIN Asked}
    BY <1>1 DEF Range
  <2> QED
    BY <1>4, <1>5, <2>1
<1>7. Having' = {}
  BY <1>1, <1>4 DEF Having, Has, HasIn
<1>8. Failing' = {}
  BY <1>1, <1>5 DEF Failing, Fails, FailsIn
<1>9. Opened("read")' /\ IsReadable(request.object, Asked[1])'
  BY <1>1 DEF Reading, Opened, IsReadable
<1> QED
  BY <1>6, <1>7, <1>8, <1>9 DEF NothingHeld

\* A step of the loop of ReadCb keeps the invariant.
LEMMA StepReadRegistered == IInv /\ ReadRegistered => IInv'
<1> SUFFICES ASSUME IInv, ReadRegistered PROVE IInv'
  OBVIOUS
<1>1. PICK g, o, answer : ReadOne(g, o, answer)
  BY ReadRegisteredOne
<1>2. charSigned \in BOOLEAN
  BY DEF IInv
<1>3. Known(g, o, answer)
  BY <1>1, <1>2, ReadOneKnown
<1>4. Reading(g) /\ AfterRead(answer) /\ GoOn /\ request' = request /\ charSigned' = charSigned
      /\ pc = "read"
  BY <1>1 DEF ReadOne
<1>5. pos \in 1..Len(data) /\ Len(data) \in Nat /\ answer.code # "CHANGED"
      /\ IsReadable(request.object, Asked[1])'
  <2>1. pos \in 1..Len(data) /\ Len(data) \in Nat /\ answer.code # "CHANGED"
        /\ IsReadable(request.object, Asked[1]) /\ Asked' = Asked
    BY <1>3 DEF Known
  <2> QED
    BY <1>4, <2>1 DEF IsReadable
<1>6. ASSUME NEW h, Reading(h)', result' = "CONTENT" PROVE IInv'
  <2>1. (pos \in 1..Len(data) + 1)' /\ Len(data') \in Nat
    BY <1>6 DEF Reading, Entries, IsList
  <2>2. CASE pos' <= Len(data')
    <3>1. pc' = "read"
      BY <1>4, <1>6, <2>2 DEF GoOn
    <3> QED
      BY <1>2, <1>4, <1>6, <2>2, <3>1 DEF IInv, Answered
  <2>3. CASE ~(pos' <= Len(data'))
    <3>1. pc' = "answered"
      BY <1>4, <2>3 DEF GoOn
    <3>2. pos' = Len(data') + 1
      BY <2>1, <2>3
    <3>3. Completed(h)'
      BY <1>5, <1>6, <3>2 DEF Completed
    <3> QED
      BY <1>2, <1>4, <1>6, <3>1, <3>3 DEF IInv, Answered, ReadDone
  <2> QED
    BY <2>2, <2>3
<1>7. ASSUME pc' = "answered", (Stopped \/ NothingHeld)', result' # "CHANGED" PROVE IInv'
  BY <1>2, <1>4, <1>7 DEF IInv, Answered, ReadDone
<1> DEFINE n == Len(data)
<1>8. (n > 1 => n # 1) /\ (n > 1 \/ n = 1)
  <2>1. n \in Nat /\ n >= 1
    BY <1>5
  <2> HIDE DEF n
  <2> QED
    BY <2>1
<1>9. CASE answer.code = "NOT_FOUND" /\ Len(data) > 1
  <2>1. data' = RemoveAt(data, pos) /\ pos' = pos /\ result' = "CONTENT"
    BY <1>4, <1>8, <1>9 DEF AfterRead
  <2>2. \E h : Reading(h)'
    BY <1>3, <1>4, <1>9, <2>1, ReadRemoved
  <2> QED
    BY <1>6, <2>1, <2>2
<1>10. CASE ~(answer.code = "NOT_FOUND" /\ Len(data) > 1)
  <2>1. /\ data' = [data EXCEPT ![pos].values = answer.values]
        /\ pos' = pos + 1 /\ result' = answer.code
    BY <1>4, <1>10 DEF AfterRead
  <2>2. CASE answer.code = "CONTENT"
    <3>1. Reading(g)'
      BY <1>3, <1>4, <2>1, <2>2, ReadKept
    <3> QED
      BY <1>6, <2>1, <2>2, <3>1
  <2>3. CASE answer.code # "CONTENT"
    <3>1. pc' = "answered"
      BY <1>4, <2>1, <2>3 DEF GoOn
    <3>2. CASE answer.code = "NOT_FOUND"
      <4>1. Len(data) = 1
        BY <1>8, <1>10, <3>2
      <4>2. NothingHeld'
        BY <1>3, <1>4, <2>1, <3>2, <4>1, ReadNothing
      <4> QED
        BY <1>5, <1>7, <2>1, <3>1, <4>2
    <3>3. CASE answer.code # "NOT_FOUND"
      <4>1. Stopped'
        BY <1>3, <1>4, <2>1, <2>3, <3>3, ReadFails
      <4> QED
        BY <1>5, <1>7, <2>1, <3>1, <4>1
    <3> QED
      BY <3>2, <3>3
  <2> QED
    BY <2>2, <2>3
<1> QED
  BY <1>9, <1>10
----------------------------------------------------------------------------
(* Steps: the write and the execution *)

\* RequestWrite keeps the invariant: the first value is served next.
LEMMA StepRequestWrite == IInv /\ RequestWrite => IInv'
<1> SUFFICES ASSUME IInv, RequestWrite PROVE IInv'
  OBVIOUS
<1>1. PICK object \in DOMAIN Writers : \E items \in Writes(object), found \in BOOLEAN, busy \in BusyOf(object) :
        Request("write", object, items, found, busy)
  BY DEF RequestWrite
<1>2. PICK items \in Writes(object), found \in BOOLEAN, busy \in BusyOf(object) :
        Request("write", object, items, found, busy)
  BY <1>1
<1>3. busy \in BOOLEAN /\ pc = "idle"
  BY DEF BusyOf, RequestWrite
<1>4. object \in DOMAIN ObjArray
  BY DEF ObjArray, Writers
<1>5. WellWritten(object, items)
  BY <1>4, WritesGiven
<1>6. Requested("write", object, items)
  BY <1>2, <1>3, RequestEffect
<1>7. CASE pc' = "answered"
  BY <1>6, <1>7 DEF Requested, IInv, Answered
<1>8. CASE pc' # "answered"
  <2>1. /\ pc' = "write" /\ request'.op = "write" /\ request'.found = TRUE /\ request'.busy = FALSE
        /\ request'.object = object /\ request'.items = items /\ charSigned' \in BOOLEAN
        /\ calls' = <<>> /\ pos' = 1 /\ child' = 1
    BY <1>6, <1>8 DEF Requested
  <2>2. Opened("write")'
    BY <2>1 DEF Opened
  <2> DEFINE n == Len(items)
             m == Len(items[1].children)
  <2>3. n \in Nat \ {0} /\ m \in Nat \ {0}
    <3>1. n \in Nat \ {0} /\ DOMAIN items = 1..n
      BY <1>5 DEF WellWritten
    <3> HIDE DEF n
    <3>2. 1 \in DOMAIN items
      BY <3>1
    <3> QED
      BY <1>5, <3>1, <3>2 DEF WellWritten
  <2>4. 1 \in 1..n /\ 1 \in 1..m
    <3> HIDE DEF n, m
    <3> QED
      BY <2>3
  <2>5. IsList(<<>>) /\ 1..1 - 1 = {}
    BY DEF IsList
  <2>6. Writing'
    BY <1>5, <2>1, <2>2, <2>4, <2>5 DEF Writing, item
  <2> QED
    BY <2>1, <2>6 DEF IInv, Answered
<1> QED
  BY <1>7, <1>8

\* RequestExecute keeps the invariant.
LEMMA StepRequestExecute == IInv /\ RequestExecute => IInv'
<1> SUFFICES ASSUME IInv, RequestExecute PROVE IInv'
  OBVIOUS
<1>1. PICK object \in DOMAIN Executors : \E items \in Executions(object), found \in BOOLEAN, busy \in BusyOf(object) :
        Request("execute", object, items, found, busy)
  BY DEF RequestExecute
<1>2. PICK items \in Executions(object), found \in BOOLEAN, busy \in BusyOf(object) :
        Request("execute", object, items, found, busy)
  BY <1>1
<1>3. busy \in BOOLEAN /\ pc = "idle"
  BY DEF BusyOf, RequestExecute
<1>4. \E id, d : items = <<Item(id, <<d>>)>>
  <2> DEFINE arguments == {<<Datum("text", n, 1)>> : n \in TextLengths} \cup {<<Datum("junk", 1, 0)>>}
             ids == Ids(object) \cup {"other"}
             first == {Item(id, d) : id \in ids, d \in arguments}
  <2>1. \A d \in arguments : \E e : d = <<e>>
    OBVIOUS
  <2>2. PICK a \in first : items = <<a>>
    BY DEF Executions
  <2>3. PICK id \in ids, d \in arguments : a = Item(id, d)
    BY <2>2
  <2>4. PICK e : d = <<e>>
    BY <2>1
  <2> HIDE DEF first
  <2>5. items = <<Item(id, <<e>>)>>
    BY <2>2, <2>3, <2>4
  <2> QED
    BY <2>5, Zenon
<1>5. DOMAIN items = {1} /\ Len(items[1].children) = 1
  BY <1>4, SingleItem
<1>6. Requested("execute", object, items)
  BY <1>2, <1>3, RequestEffect
<1>7. CASE pc' = "answered"
  BY <1>6, <1>7 DEF Requested, IInv, Answered
<1>8. CASE pc' # "answered"
  <2>1. /\ pc' = "execute" /\ request'.op = "execute" /\ request'.found = TRUE /\ request'.busy = FALSE
        /\ request'.items = items /\ charSigned' \in BOOLEAN
        /\ calls' = <<>> /\ pos' = 1 /\ child' = 1
    BY <1>6, <1>8 DEF Requested
  <2>2. IsList(<<>>)
    BY DEF IsList
  <2>3. Executing'
    BY <1>5, <2>1, <2>2 DEF Executing, Opened
  <2> QED
    BY <2>1, <2>3 DEF IInv, Answered
<1> QED
  BY <1>7, <1>8

\* A write or an execution that is refused is not answered with "changed".
LEMMA StepRefused == IInv /\ (WriteRefused \/ ExecuteRefused) => IInv'
<1> SUFFICES ASSUME IInv, WriteRefused \/ ExecuteRefused PROVE IInv'
  OBVIOUS
<1>1. /\ pc \in {"write", "execute"} /\ pc' = "answered" /\ result' \in {"NOT_FOUND", "NOT_ALLOWED"}
      /\ request' = request /\ charSigned' = charSigned
  BY DEF WriteRefused, ExecuteRefused, Answer
<1>2. request.op # "read"
  BY <1>1 DEF IInv, Writing, Executing, Opened
<1> QED
  BY <1>1, <1>2 DEF IInv, Answered

\* What the platform took is not forgotten.
LEMMA TakenStays ==
  ASSUME NEW w, Called(w), IsList(calls), request' = request
  PROVE  /\ IsList(calls)' /\ \A k : TakenAt(k) => TakenAt(k)'
         /\ w.value # <<>> =>
              [pos |-> pos, child |-> child, value |-> w.value[1], sid |-> w.sid] \in Range(calls')
<1> DEFINE c == [pos |-> pos, child |-> child, value |-> w.value[1], sid |-> w.sid]
<1>1. CASE w.value = <<>>
  BY <1>1 DEF Called, TakenAt, IsList
<1>2. CASE w.value # <<>>
  <2>1. calls' = Append(calls, c)
    BY <1>2 DEF Called
  <2> HIDE DEF c
  <2>2. IsList(calls') /\ Range(calls') = Range(calls) \cup {c}
    BY <2>1, ListAppend
  <2>3. IsList(calls)'
    BY <2>2 DEF IsList
  <2>4. \A k : TakenAt(k) => TakenAt(k)'
    BY <2>2 DEF TakenAt
  <2> QED
    BY <2>2, <2>3, <2>4 DEF c
<1> QED
  BY <1>1, <1>2

\* A step of WriteCb keeps the invariant: it leaves a resource only when that was taken.
LEMMA StepWriteValue == IInv /\ WriteValue => IInv'
<1> SUFFICES ASSUME IInv, WriteValue PROVE IInv'
  OBVIOUS
<1> DEFINE row == RowOf(request.object, item.id)
           kind == Writers[request.object][item.id]
           d == item.children[child]
           f == FormatDataWriteExecute(row.type, d, room)
           n == Len(request.items)
           m == Len(item.children)
<1>1. PICK w \in IF f.ok THEN WriteResource(kind, f.buffer) ELSE {Refused("INVALID_ARG")} :
        Called(w) /\ Advance(SetCoapError(w.sid, "write"), f.buffer.len)
  BY DEF WriteValue
<1>2. /\ pc = "write" /\ item.id \in DOMAIN Writers[request.object]
      /\ request' = request /\ charSigned' = charSigned
  BY DEF WriteValue
<1>3. Writing /\ charSigned \in BOOLEAN
  BY <1>2 DEF IInv
<1>4. /\ IsList(calls) /\ request.object \in DOMAIN Writers /\ request.op = "write"
      /\ WellWritten(request.object, request.items)
      /\ pos \in 1..n /\ child \in 1..m /\ n \in Nat
      /\ DOMAIN request.items = 1..n
      /\ \A k \in DOMAIN request.items : Len(request.items[k].children) \in Nat \ {0}
      /\ m \in Nat
  BY <1>3 DEF Writing, WellWritten, Opened, item
<1>5. DatumFits(row.type, d)
  BY <1>2, <1>4 DEF WellWritten, item
<1>6. WriterFits(row.type, kind)
  BY <1>2, <1>4, WritersFit
<1> DEFINE code == SetCoapError(w.sid, "write")
<1>7. ASSUME code = "CHANGED"
      PROVE  /\ w.sid = "OK" /\ w.value # <<>>
             /\ Lossy(row.type, kind, d) \/ w.value[1] = Meant(row.type, kind, d)
  <2>1. w.sid = "OK"
    BY <1>7, ReadCodes
  <2>2. f.ok /\ w \in WriteResource(kind, f.buffer)
    <3>1. Refused("INVALID_ARG").sid = "INVALID_ARG"
      BY DEF Refused
    <3> HIDE DEF f
    <3> QED
      BY <1>1, <2>1, <3>1
  <2>3. kind.fill # "never" /\ w.value = <<Value(kind, f.buffer)>>
    <3>1. kind.fill = "never" => kind.value # "OK"
      BY <1>6 DEF WriterFits
    <3> HIDE DEF f, kind
    <3> QED
      BY <2>1, <2>2, <3>1 DEF WriteResource, Refused
  <2>4. Lossy(row.type, kind, d) \/ Value(kind, f.buffer) = Meant(row.type, kind, d)
    BY <1>3, <1>5, <1>6, <2>2, <2>3, ValueMeant
  <2> QED
    BY <2>1, <2>3, <2>4
<1>8. /\ IsList(calls)' /\ \A k : TakenAt(k) => TakenAt(k)'
      /\ w.value # <<>> =>
           [pos |-> pos, child |-> child, value |-> w.value[1], sid |-> w.sid] \in Range(calls')
  BY <1>1, <1>2, <1>4, TakenStays
<1>9. ASSUME code = "CHANGED", child = m, NEW k \in 1..pos PROVE TakenAt(k)'
  <2>1. CASE k = pos
    <3>1. PICK c \in Range(calls') : c = [pos |-> pos, child |-> child, value |-> w.value[1], sid |-> w.sid]
      BY <1>7, <1>8, <1>9
    <3>2. /\ c.pos = k /\ c.child = m /\ c.sid = "OK"
          /\ Lossy(row.type, kind, d) \/ c.value = Meant(row.type, kind, d)
      BY <1>7, <1>9, <2>1, <3>1
    <3>3. request.items[k] = item /\ Last(item.children) = d
      BY <1>9, <2>1 DEF item, Last
    <3> QED
      BY <1>2, <3>2, <3>3 DEF TakenAt
  <2>2. CASE k # pos
    <3>1. k \in 1..pos - 1
      BY <1>4, <2>2
    <3> QED
      BY <1>3, <1>8, <3>1 DEF Writing
  <2> QED
    BY <2>1, <2>2
<1>10. Opened("write")' /\ item' = request.items[pos']
  BY <1>2, <1>3 DEF Opened, Writing, item
<1> HIDE DEF n, m
<1>11. CASE child < m /\ child' = child + 1 /\ UNCHANGED <<pc, pos>>
  <2>1. (child \in 1..Len(item.children))' /\ (pos \in 1..Len(request.items))'
    <3>1. child' \in 1..m /\ pos' \in 1..n
      BY <1>4, <1>11
    <3>2. item' = item
      BY <1>2, <1>11 DEF item
    <3> QED
      BY <1>2, <3>1, <3>2 DEF m, n
  <2>2. (\A k \in 1..pos - 1 : TakenAt(k))'
    BY <1>3, <1>8, <1>11 DEF Writing
  <2>3. Writing'
    BY <1>2, <1>4, <1>8, <1>10, <2>1, <2>2 DEF Writing
  <2> QED
    BY <1>2, <1>3, <1>11, <2>3 DEF IInv, Answered
<1>12. CASE /\ child = m /\ pos < n /\ code = "CHANGED"
            /\ pos' = pos + 1 /\ child' = 1 /\ UNCHANGED pc
  <2>1. pos' \in 1..n /\ pos' - 1 = pos
    BY <1>4, <1>12
  <2>2. (child \in 1..Len(item.children))'
    <3> DEFINE l == Len(request.items[pos'].children)
    <3>1. l \in Nat \ {0}
      BY <1>4, <2>1
    <3> HIDE DEF l
    <3>2. 1 \in 1..l
      BY <3>1
    <3> QED
      BY <1>10, <1>12, <3>2 DEF l
  <2>3. (\A k \in 1..pos - 1 : TakenAt(k))'
    BY <1>9, <1>12, <2>1
  <2>4. Writing'
    BY <1>2, <1>4, <1>8, <1>10, <2>1, <2>2, <2>3 DEF Writing, n
  <2> QED
    BY <1>2, <1>3, <1>12, <2>4 DEF IInv, Answered
<1>13. CASE /\ child = m /\ (pos = n \/ code # "CHANGED")
            /\ pc' = "answered" /\ result' = code
  <2>1. ASSUME code = "CHANGED" PROVE (\A k \in DOMAIN request.items : TakenAt(k))'
    BY <1>2, <1>4, <1>9, <1>13, <2>1
  <2> QED
    BY <1>2, <1>3, <1>4, <1>13, <2>1 DEF IInv, Answered
<1> QED
  BY <1>1, <1>11, <1>12, <1>13 DEF Advance, n, m

\* A resource that is executed was taken when the code is "changed".
LEMMA StepExecute == IInv /\ Execute => IInv'
<1> SUFFICES ASSUME IInv, Execute PROVE IInv'
  OBVIOUS
<1>1. /\ pc = "execute" /\ request' = request /\ charSigned' = charSigned /\ pc' = "answered"
  BY DEF Execute, Answer
<1>2. Executing /\ charSigned \in BOOLEAN
  BY <1>1 DEF IInv
<1>3. /\ DOMAIN request.items = {1} /\ Len(request.items[1].children) = 1 /\ request.op = "execute"
      /\ pos = 1 /\ child = 1 /\ IsList(calls)
  BY <1>2 DEF Executing, Opened
<1>4. CASE result' # "CHANGED"
  BY <1>1, <1>2, <1>3, <1>4 DEF IInv, Answered
<1>5. CASE result' = "CHANGED"
  <2>1. PICK sid, v : Called([sid |-> sid, value |-> <<v>>]) /\ result' = SetCoapError(sid, "execute")
    BY <1>5 DEF Execute, Answer
  <2>2. sid = "OK"
    BY <1>5, <2>1, ReadCodes
  <2> DEFINE w == [sid |-> sid, value |-> <<v>>]
  <2>3. w.value # <<>> /\ w.value[1] = v /\ w.sid = "OK"
    BY <2>2
  <2> HIDE DEF w
  <2>4. Called(w)
    BY <2>1 DEF w
  <2>5. [pos |-> pos, child |-> child, value |-> w.value[1], sid |-> w.sid] \in Range(calls')
    BY <1>1, <1>3, <2>3, <2>4, TakenStays
  <2>6. PICK c \in Range(calls') : c.pos = 1 /\ c.child = 1 /\ c.sid = "OK"
    BY <1>3, <2>3, <2>5
  <2>7. TakenAt(1)'
    BY <1>1, <1>3, <2>6 DEF TakenAt
  <2>8. \A k \in DOMAIN request'.items : TakenAt(k)'
    BY <1>1, <1>3, <2>7
  <2> QED
    BY <1>1, <1>2, <1>3, <2>8 DEF IInv, Answered
<1> QED
  BY <1>4, <1>5
----------------------------------------------------------------------------
(* The invariant *)

\* A step that changes nothing keeps the invariant.
LEMMA StepStutter == IInv /\ UNCHANGED vars => IInv'
<1> SUFFICES ASSUME IInv, UNCHANGED vars PROVE IInv'
  OBVIOUS
<1>1. /\ pc' = pc /\ request' = request /\ held' = held /\ data' = data /\ pos' = pos
      /\ child' = child /\ result' = result /\ calls' = calls /\ charSigned' = charSigned
      /\ Asked' = Asked /\ item' = item
  BY DEF vars, Asked, item
<1>2. \A g : Reading(g) => Reading(g)'
  BY <1>1 DEF Reading, Opened, Entries, IsList, Kept, Has, Fails, Faithful, Range
<1>3. \A g : Completed(g) => Completed(g)'
  BY <1>1, <1>2 DEF Completed
<1>4. ReadDone => ReadDone'
  <2>1. (NotServed => NotServed') /\ (Opened("read") => Opened("read")')
    BY <1>1 DEF NotServed, Opened
  <2>2. NotReadable => NotReadable'
    BY <1>1, <2>1 DEF NotReadable
  <2>3. Failing' = Failing /\ Having' = Having
    BY <1>1 DEF Failing, Having, Has, Fails
  <2>4. (Stopped => Stopped') /\ (NothingHeld => NothingHeld')
    BY <1>1, <2>1, <2>3 DEF Stopped, NothingHeld, Range
  <2> QED
    BY <1>3, <2>1, <2>2, <2>4 DEF ReadDone
<1>5. \A k : TakenAt(k) => TakenAt(k)'
  BY <1>1 DEF TakenAt, Range
<1>6. Writing => Writing'
  BY <1>1, <1>5 DEF Writing, Opened, IsList
<1>7. Executing => Executing'
  BY <1>1 DEF Executing, Opened, IsList
<1> QED
  BY <1>1, <1>2, <1>4, <1>5, <1>6, <1>7 DEF IInv, Fresh, Answered

\* Every step keeps the invariant.
LEMMA NextIInv == IInv /\ [Next]_vars => IInv'
<1> SUFFICES ASSUME IInv, [Next]_vars PROVE IInv'
  OBVIOUS
<1>1. CASE RequestRead
  BY <1>1, StepRequestRead
<1>2. CASE RequestWrite
  BY <1>2, StepRequestWrite
<1>3. CASE RequestExecute
  BY <1>3, StepRequestExecute
<1>4. CASE ReadUnknown \/ ReadNotAllowed
  BY <1>4, StepReadUnknown
<1>5. CASE ReadRegistered
  BY <1>5, StepReadRegistered
<1>6. CASE WriteRefused \/ ExecuteRefused
  BY <1>6, StepRefused
<1>7. CASE WriteValue
  BY <1>7, StepWriteValue
<1>8. CASE Execute
  BY <1>8, StepExecute
<1>9. CASE UNCHANGED vars
  BY <1>9, StepStutter
<1> QED
  BY <1>1, <1>2, <1>3, <1>4, <1>5, <1>6, <1>7, <1>8, <1>9 DEF Next, Serve

\* The invariant holds in every state.
LEMMA Invariant == Spec => []IInv
<1>1. Init => IInv
  BY InitIInv
<1>2. IInv /\ [Next]_vars => IInv'
  BY NextIInv
<1> QED
  BY <1>1, <1>2, PTL DEF Spec

----------------------------------------------------------------------------
(* What it gives *)

\* The least of one number.
LEMMA MinOne ==
  ASSUME NEW i \in Int
  PROVE  Min({i}) = i
<1>1. \A x \in {i} : x = i /\ x <= i
  OBVIOUS
<1> QED
  BY <1>1 DEF Min

\* When the loop ends with "content", the entries left are of the resources that have a value.
LEMMA CompletedIsComplete ==
  ASSUME NEW g, Completed(g)
  PROVE  /\ Failing = {} /\ DOMAIN held = Range(Asked) /\ Having # {}
         /\ [k \in DOMAIN data |-> data[k].id] = Selected(Asked, Having)
<1> DEFINE n == Len(data)
<1>1. /\ Reading(g) /\ pos = n + 1 /\ n \in Nat /\ DOMAIN data = 1..n /\ pos \in 1..n + 1
      /\ \A k \in 1..n : data[k].id = Asked[g[k]] /\ (Asked[g[k]] \in DOMAIN held <=> k < pos)
      /\ \A i \in DOMAIN request.items :
           (\E k \in 1..n : g[k] = i) <=> (Asked[i] \in DOMAIN held => Has(Asked[i]))
      /\ g \in [1..n -> DOMAIN request.items] /\ Rising(g, n)
      /\ DOMAIN request.items \subseteq Int
      /\ DOMAIN held \subseteq Range(Asked) /\ \A x \in DOMAIN held : ~Fails(x)
  <2>1. LoopFacts(g) /\ Reading(g)
    BY ReadingLoop DEF Completed
  <2>2. DOMAIN data = 1..n /\ n \in Nat
    BY <2>1 DEF Reading, Entries, IsList
  <2> QED
    BY <2>1, <2>2 DEF LoopFacts, Completed, Reading
<1>2. DOMAIN Asked = DOMAIN request.items
  BY DEF Asked
<1> HIDE DEF n
<1>3. \A k \in 1..n : k < pos /\ Asked[g[k]] \in DOMAIN held /\ g[k] \in DOMAIN request.items
  BY <1>1
<1>4. \A i \in DOMAIN request.items : Asked[i] \in DOMAIN held
  BY <1>1, <1>3
<1>5. DOMAIN held = Range(Asked)
  <2>1. \A x \in Range(Asked) : x \in DOMAIN held
    BY <1>2, <1>4 DEF Range
  <2> QED
    BY <1>1, <2>1
<1>6. Having = {g[k] : k \in 1..n}
  BY <1>1, <1>2, <1>3, <1>4 DEF Having
<1>7. Failing = {}
  BY <1>1 DEF Failing
<1>8. g \in [1..n -> Int]
  BY <1>1
<1>9. Selected(Asked, Having) = [k \in 1..n |-> Asked[g[k]]]
  <2>1. OrderOf(g, n, Having)
    BY <1>1, <1>6, <1>8 DEF OrderOf
  <2>2. Selected(Asked, Having) = Along(Asked, g, n)
    BY <1>1, <2>1, SelectedAt
  <2> QED
    BY <2>2 DEF Along
<1>10. [k \in DOMAIN data |-> data[k].id] = [k \in 1..n |-> Asked[g[k]]]
  BY <1>1
<1>11. Having # {}
  <2>1. 1 \in 1..n
    <3>1. n > 0
      BY <1>1 DEF Reading, Entries, n
    <3> QED
      BY <1>1, <3>1
  <2> QED
    BY <1>6, <2>1
<1> QED
  BY <1>5, <1>7, <1>9, <1>10, <1>11

\* The invariant gives the answer to a read.
LEMMA CompleteAnswer == IInv => AnswerIsComplete
<1> SUFFICES ASSUME IInv, Answered("read") PROVE AnswerIsComplete
  BY DEF AnswerIsComplete
<1>1. AnswerIsComplete <=>
        IF ~request.found THEN result = "NOT_FOUND"
        ELSE IF request.busy THEN result = "INTERNAL_ERROR"
        ELSE IF Asked[1] \notin Ids(request.object) THEN result = "NOT_FOUND"
        ELSE IF "read" \notin RowOf(request.object, Asked[1]).ops THEN result = "NOT_ALLOWED"
        ELSE IF Failing # {}
             THEN result = SetCoapError(held[Asked[Min(Failing)]].sid, "read")
        ELSE /\ DOMAIN held = Range(Asked)
             /\ IF Having = {} THEN result = "NOT_FOUND"
                ELSE /\ result = "CONTENT"
                     /\ [k \in DOMAIN data |-> data[k].id] = Selected(Asked, Having)
  BY DEF AnswerIsComplete, Failing, Having
<1>2. ReadDone
  BY DEF IInv
<1>3. CASE NotServed
  BY <1>1, <1>3 DEF NotServed
<1>4. CASE NotReadable
  BY <1>1, <1>4 DEF NotReadable, Opened
<1>5. CASE Stopped
  <2>1. PICK i \in DOMAIN Asked : Failing = {i} /\ result = SetCoapError(held[Asked[i]].sid, "read")
    BY <1>5 DEF Stopped
  <2>2. Opened("read") /\ IsReadable(request.object, Asked[1])
    BY <1>5 DEF Stopped
  <2>3. i \in Int
    BY <2>1, <2>2 DEF Opened, WellAsked, Asked
  <2>4. Min(Failing) = i /\ Failing # {}
    BY <2>1, <2>3, MinOne
  <2> QED
    BY <1>1, <2>1, <2>2, <2>4 DEF Opened, IsReadable
<1>6. CASE NothingHeld
  BY <1>1, <1>6 DEF NothingHeld, Opened, IsReadable
<1>7. CASE \E g : Completed(g)
  <2>1. PICK g : Completed(g)
    BY <1>7
  <2>2. Opened("read") /\ IsReadable(request.object, Asked[1]) /\ result = "CONTENT"
    BY <2>1 DEF Completed, Reading
  <2>3. /\ Failing = {} /\ DOMAIN held = Range(Asked) /\ Having # {}
        /\ [k \in DOMAIN data |-> data[k].id] = Selected(Asked, Having)
    BY <2>1, CompletedIsComplete
  <2> QED
    BY <1>1, <2>2, <2>3 DEF Opened, IsReadable
<1> QED
  BY <1>2, <1>3, <1>4, <1>5, <1>6, <1>7 DEF ReadDone

\* The invariant gives the values of that answer.
LEMMA FaithfulAnswer == IInv => ReadIsFaithful
<1> SUFFICES ASSUME IInv, Answered("read"), result = "CONTENT", NEW k \in DOMAIN data PROVE Faithful(k)
  BY DEF ReadIsFaithful, Faithful, Rendered
<1>1. ~NotServed /\ ~NotReadable /\ ~NothingHeld
  BY DEF NotServed, NotReadable, NothingHeld
<1>2. ~Stopped
  <2> SUFFICES ASSUME Stopped PROVE FALSE
    OBVIOUS
  <2>1. PICK i \in DOMAIN Asked : Failing = {i} /\ result = SetCoapError(held[Asked[i]].sid, "read")
    BY DEF Stopped
  <2>2. Fails(Asked[i])
    BY <2>1 DEF Failing
  <2> QED
    BY <2>1, <2>2 DEF Fails
<1>3. PICK g : Completed(g)
  BY <1>1, <1>2 DEF IInv, ReadDone
<1>4. /\ pos = Len(data) + 1 /\ Len(data) \in Nat /\ DOMAIN data = 1..Len(data)
      /\ \A j \in 1..pos - 1 : Faithful(j)
  BY <1>3 DEF Completed, Reading, Entries, IsList
<1> DEFINE n == Len(data)
<1> HIDE DEF n
<1>5. k \in 1..pos - 1
  <2>1. pos = n + 1 /\ n \in Nat /\ k \in 1..n
    BY <1>4 DEF n
  <2> QED
    BY <2>1
<1> QED
  BY <1>4, <1>5

\* The invariant gives what "changed" promises.
LEMMA TakenAnswer == IInv => ChangedMeansTaken
  BY DEF IInv, ChangedMeansTaken, TakenAt

\* The answer to a read is the one that the resources of the request alone determine,
\* whatever ReadCb removes from the array that it goes through.
THEOREM AnswerCorrect == Spec => []AnswerIsComplete
  BY Invariant, CompleteAnswer, PTL

\* A value that is read is the one that the platform has, whatever the number of values
\* of an octet and the size of the buffer, but for the cases of Misread.
THEOREM FaithfulCorrect == Spec => []ReadIsFaithful
  BY Invariant, FaithfulAnswer, PTL

\* A write or an execution that is answered with "changed" was taken by the platform,
\* each resource with the value that was meant, but for the cases of Lossy.
THEOREM TakenCorrect == Spec => []ChangedMeansTaken
  BY Invariant, TakenAnswer, PTL
====
