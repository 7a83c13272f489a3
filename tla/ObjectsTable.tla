------------------------------ MODULE ObjectsTable ------------------------------
(***************************************************************************)
(* The resources that a server reads, writes and executes, as data: the    *)
(* table of the objects (objectsTable.c) and, for every resource, what its *)
(* handler in handlers.c asks the platform for and how it fills or reads   *)
(* the buffer.  Object 2 and the writes of objects 0 and 1 are in          *)
(* Configuration.tla; what writes and executions of object 5 and writes of *)
(* object 33406 do is in FwUpdate.tla and FileTransfer.tla.                *)
(***************************************************************************)
EXTENDS Collections, Integers, Sequences

CONSTANT Many \* instances of a resource of the table that has several

ASSUME ObjectsTableAssumption == Many \in Nat \ {0, 1}

-----------------------------------------------------------------------------
(* The table: identifier, type, number of instances, operations *)

Row(id, type, instances, ops) ==
  [id |-> id, type |-> type, instances |-> instances, ops |-> ops]
Readable(id, type) == Row(id, type, 1, {"read"})
Listed(id, type) == Row(id, type, Many, {"read"})
Writable(id, type) == Row(id, type, 1, {"write"})
Settable(id, type) == Row(id, type, 1, {"read", "write"})
Executable(id, type) == Row(id, type, 1, {"execute"})

SecurityResources ==
  << Settable("serverUri", "string"), Settable("bootstrapServer", "bool"),
     Settable("securityMode", "int"), Settable("publicKey", "opaque"),
     Settable("serverKey", "opaque"), Settable("secretKey", "opaque"),
     Writable("smsSecurityMode", "int"), Writable("smsKeyParameters", "opaque"),
     Writable("smsSecretKey", "opaque"), Writable("smsNumber", "string"),
     Settable("shortServerId", "int"), Settable("holdOffTime", "int"),
     Settable("accountTimeout", "int") >>

ServerResources ==
  << Settable("shortServerId", "int"), Settable("lifetime", "int"),
     Settable("minPeriod", "int"), Settable("maxPeriod", "int"),
     Settable("disableTimeout", "int"), Settable("storesNotifications", "bool"),
     Settable("bindingMode", "string") >>

DeviceResources ==
  << Readable("manufacturer", "string"), Readable("modelNumber", "string"),
     Readable("serialNumber", "string"), Readable("firmwareVersion", "string"),
     Executable("reboot", "unknown"),
     Listed("powerSources", "int"), Listed("powerVoltages", "int"),
     Listed("powerCurrents", "int"), Readable("batteryLevel", "int"),
     Settable("currentTime", "time"), Settable("bindingMode", "string"),
     Readable("batteryStatus", "int") >>

ConnectivityMonitoringResources ==
  << Readable("networkBearer", "int"), Listed("availableBearers", "int"),
     Readable("signalStrength", "int"), Readable("linkQuality", "int"),
     Listed("ipAddresses", "string"), Listed("routerAddresses", "string"),
     Readable("linkUtilization", "int"), Listed("apn", "string"),
     Readable("cellId", "int"), Readable("smnc", "int"), Readable("smcc", "int") >>

FirmwareUpdateResources ==
  << Writable("package", "opaque"), Settable("packageUri", "string"),
     Executable("update", "unknown"), Readable("updateState", "int"),
     Readable("updateResult", "int"), Row("protocolSupport", "int", 2, {"read"}),
     Readable("deliveryMethod", "int") >>

\* LWM2M_LOCATION_FLOAT is not defined: positions are texts.
LocationResources ==
  << Readable("latitude", "string"), Readable("longitude", "string"),
     Readable("altitude", "string"), Readable("velocity", "opaque"),
     Readable("timestamp", "time") >>

ConnectivityStatisticsResources ==
  << Readable("txSms", "int"), Readable("rxSms", "int"),
     Readable("txData", "int"), Readable("rxData", "int"),
     Executable("start", "unknown"), Executable("stop", "unknown") >>

SoftwareUpdateResources ==
  << Readable("packageName", "string"), Readable("packageVersion", "string"),
     Writable("packageUri", "string"), Executable("install", "unknown"),
     Executable("uninstall", "int"), Readable("updateState", "int"),
     Settable("supportedObjects", "bool"), Readable("updateResult", "int"),
     Executable("activate", "unknown"), Executable("deactivate", "unknown"),
     Readable("activationState", "int") >>

CellularConnectivityResources ==
  << Settable("smscAddress", "string"), Settable("disableRadioPeriod", "int"),
     Settable("activationCode", "string"), Settable("psmTimer", "int"),
     Settable("activeTimer", "int"), Readable("plmnRateControl", "int"),
     Settable("edrxIu", "opaque"), Settable("edrxWbS1", "opaque"),
     Settable("edrxNbS1", "opaque"), Settable("edrxAgb", "opaque"),
     Readable("profileName", "string") >>

SubscriptionResources ==
  << Readable("imei", "string"), Readable("iccid", "string"),
     Readable("identity", "string"), Readable("msisdn", "string"),
     Executable("simMode", "string"), Readable("currentSim", "int"),
     Readable("currentSimMode", "int"), Readable("simSwitchStatus", "int") >>

ExtConnectivityStatsResources ==
  << Readable("signalBars", "int"), Readable("cellularTech", "string"),
     Readable("roaming", "int"), Readable("ecio", "int"), Readable("rsrp", "int"),
     Readable("rsrq", "int"), Readable("rscp", "int"), Readable("temperature", "int"),
     Readable("unexpectedResets", "int"), Readable("totalResets", "int"),
     Readable("lac", "int"), Readable("tac", "int") >>

FileTransferResources ==
  << Writable("name", "string"), Writable("class", "string"), Writable("uri", "string"),
     Settable("checksum", "string"), Writable("direction", "int"),
     Readable("state", "int"), Readable("result", "int"), Readable("progress", "int"),
     Readable("failureReason", "string") >>

FileListResources ==
  << Readable("name", "string"), Readable("class", "string"),
     Readable("checksum", "string"), Readable("direction", "int") >>

SslCertificateResources == << Writable("certificate", "opaque") >>

ClockTimeConfigResources ==
  << Settable("priority", "int"), Row("config", "string", 2, {"read", "write"}),
     Executable("updateClock", "unknown"), Readable("status", "int") >>

SimApduConfigResources ==
  << Writable("command", "opaque"), Executable("execute", "unknown"),
     Readable("response", "opaque") >>

ObjArray ==
  [security |-> SecurityResources, server |-> ServerResources,
   device |-> DeviceResources, monitoring |-> ConnectivityMonitoringResources,
   firmware |-> FirmwareUpdateResources, location |-> LocationResources,
   statistics |-> ConnectivityStatisticsResources, software |-> SoftwareUpdateResources,
   cellular |-> CellularConnectivityResources, subscription |-> SubscriptionResources,
   extended |-> ExtConnectivityStatsResources, ssl |-> SslCertificateResources,
   clock |-> ClockTimeConfigResources, transfer |-> FileTransferResources,
   files |-> FileListResources, sim |-> SimApduConfigResources]

\* The resources of an object, and the row of one
Ids(object) == {ObjArray[object][k].id : k \in DOMAIN ObjArray[object]}
RowOf(object, id) ==
  LET rows == ObjArray[object]
  IN  rows[CHOOSE k \in DOMAIN rows : rows[k].id = id]

-----------------------------------------------------------------------------
(* The read handlers: what the platform is asked for, the size of the C    *)
(* type in octets, and how the buffer is filled.                           *)
(*   unsigned, signed, bool: a number, formatted as what it is;            *)
(*   misread: a signed number that is formatted as an unsigned one;        *)
(*   text, octets: copied, with their length;                              *)
(*   fill: one; list: the element of the instance, length 0 behind the     *)
(*   last; openList: the length is left as it was behind the last;         *)
(*   all: the elements, always as many as the table has instances;         *)
(*   padded: for every instance the same, an empty text being a zero;      *)
(*   battery: of the list, the one built in, else the length is left;      *)
(*   untouched: nothing is written.                                        *)

Kind(value, size, fill) == [value |-> value, size |-> size, fill |-> fill]
Text == Kind("text", 0, "one")
Octets == Kind("octets", 0, "one")
Unsigned(n) == Kind("unsigned", n, "one")
Signed(n) == Kind("signed", n, "one")
Enum == Unsigned(4)
Bool == Kind("bool", 1, "one")
ListOf(kind) == [kind EXCEPT !.fill = "list"]
\* Resources whose handler has a constant answer
Never(sid) == Kind(sid, 0, "never")

ReadSecurity ==
  [serverUri |-> Text, bootstrapServer |-> Bool, securityMode |-> Enum,
   publicKey |-> Octets, serverKey |-> Kind("octets", 0, "untouched"),
   secretKey |-> Octets, shortServerId |-> Unsigned(2), holdOffTime |-> Unsigned(2),
   accountTimeout |-> Never("NOT_YET_IMPLEMENTED")]

ReadServer ==
  [shortServerId |-> Unsigned(2), lifetime |-> Unsigned(4), minPeriod |-> Unsigned(2),
   maxPeriod |-> Unsigned(2), disableTimeout |-> Unsigned(4),
   storesNotifications |-> Bool, bindingMode |-> Text]

ReadDevice ==
  [manufacturer |-> Text, modelNumber |-> Text, serialNumber |-> Text,
   firmwareVersion |-> Text, currentTime |-> Unsigned(8), bindingMode |-> Text]

ReadPower ==
  [powerSources |-> ListOf(Enum), powerVoltages |-> ListOf(Unsigned(4)),
   powerCurrents |-> Kind("unsigned", 2, "openList")]

ReadBattery ==
  [batteryLevel |-> Kind("unsigned", 1, "battery"),
   batteryStatus |-> Kind("unsigned", 4, "battery")]

ReadMonitoring ==
  [networkBearer |-> Enum, availableBearers |-> ListOf(Enum),
   signalStrength |-> Signed(4), linkQuality |-> Signed(4)]

ReadAddresses ==
  [ipAddresses |-> ListOf(Text), routerAddresses |-> ListOf(Text),
   linkUtilization |-> Unsigned(1), apn |-> ListOf(Text), cellId |-> Unsigned(4),
   smnc |-> Unsigned(2), smcc |-> Unsigned(2)]

\* Reads protocol[riid] for each of the instances of the table.
ReadFirmware ==
  [packageUri |-> Text, updateState |-> Enum, updateResult |-> Enum,
   protocolSupport |-> Kind("unsigned", 4, "all"), deliveryMethod |-> Enum]

ReadLocation ==
  [latitude |-> Text, longitude |-> Text, altitude |-> Text,
   velocity |-> Kind("velocity", 0, "one"), timestamp |-> Unsigned(8)]

ReadStatistics ==
  [txSms |-> Unsigned(8), rxSms |-> Unsigned(8), txData |-> Unsigned(8),
   rxData |-> Unsigned(8)]

ReadSoftware ==
  [packageName |-> Text, packageVersion |-> Text, updateState |-> Unsigned(1),
   supportedObjects |-> Bool, updateResult |-> Unsigned(1), activationState |-> Bool]

ReadCellular ==
  [id \in {"smscAddress", "disableRadioPeriod", "activationCode", "psmTimer",
           "activeTimer", "plmnRateControl", "profileName",
           "edrxIu", "edrxWbS1", "edrxNbS1", "edrxAgb"} |->
     IF id \in {"edrxIu", "edrxWbS1", "edrxNbS1", "edrxAgb"} THEN Unsigned(1)
     ELSE Never("INVALID_STATE")]

ReadSubscription ==
  [imei |-> Text, iccid |-> Text, identity |-> Text, msisdn |-> Text,
   currentSim |-> Unsigned(1), currentSimMode |-> Unsigned(1),
   simSwitchStatus |-> Unsigned(1)]

ReadExtended ==
  [signalBars |-> Unsigned(1), cellularTech |-> Text, roaming |-> Unsigned(1),
   ecio |-> Signed(4), rsrp |-> Signed(4), rsrq |-> Signed(4), rscp |-> Signed(4),
   temperature |-> Signed(4)]

ReadResets ==
  [unexpectedResets |-> Unsigned(4), totalResets |-> Unsigned(4),
   lac |-> Unsigned(4), tac |-> Unsigned(2)]

ReadClock ==
  [priority |-> Kind("misread", 2, "one"), config |-> Kind("text", 0, "padded"),
   status |-> Kind("misread", 2, "one")]

ReadTransfer ==
  [checksum |-> Text, state |-> Enum, result |-> Enum, progress |-> Unsigned(1),
   failureReason |-> Text]

ReadFile == [name |-> Text, class |-> Text, checksum |-> Text, direction |-> Enum]

ReadSim == [response |-> Octets]

Readers ==
  [security |-> ReadSecurity, server |-> ReadServer,
   device |-> Joined(ReadDevice, Joined(ReadPower, ReadBattery)),
   monitoring |-> Joined(ReadMonitoring, ReadAddresses), firmware |-> ReadFirmware,
   location |-> ReadLocation, statistics |-> ReadStatistics, software |-> ReadSoftware,
   cellular |-> ReadCellular, subscription |-> ReadSubscription,
   extended |-> Joined(ReadExtended, ReadResets), ssl |-> <<>>, clock |-> ReadClock,
   transfer |-> ReadTransfer, files |-> ReadFile, sim |-> ReadSim]

-----------------------------------------------------------------------------
(* The write and execute handlers: what becomes of the buffer.  A number   *)
(* is cut to the size of the C type; given: an empty buffer is refused.    *)

WriteDevice ==
  [currentTime |-> Unsigned(8), bindingMode |-> Never("NOT_YET_IMPLEMENTED")]
WriteSoftware == [supportedObjects |-> Bool]
WriteCellular ==
  [id \in {"smscAddress", "disableRadioPeriod", "activationCode", "psmTimer",
           "activeTimer", "edrxIu", "edrxWbS1", "edrxNbS1", "edrxAgb"} |->
     IF id \in {"edrxIu", "edrxWbS1", "edrxNbS1", "edrxAgb"} THEN Unsigned(1)
     ELSE Never("INVALID_STATE")]
WriteSsl == [certificate |-> Octets]
WriteClock == [priority |-> Kind("signed", 2, "given"), config |-> Text]
WriteSim == [command |-> Octets]

Writers ==
  [device |-> WriteDevice, software |-> WriteSoftware, cellular |-> WriteCellular,
   ssl |-> WriteSsl, clock |-> WriteClock, sim |-> WriteSim]

ExecDevice == {"reboot"}
ExecStatistics == {"start", "stop"}
ExecSoftware == {"install", "uninstall", "activate", "deactivate"}
ExecSubscription == {"simMode"}
ExecClock == {"updateClock"}
ExecSim == {"execute"}

Executors ==
  [device |-> ExecDevice, statistics |-> ExecStatistics, software |-> ExecSoftware,
   subscription |-> ExecSubscription, clock |-> ExecClock, sim |-> ExecSim]
=============================================================================
