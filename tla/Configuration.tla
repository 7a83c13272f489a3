--------------------------- MODULE Configuration ---------------------------
(***************************************************************************)
(* What a device keeps of its servers: the bootstrap configuration         *)
(* (objectManager/bootstrapConfiguration.c), the access rights             *)
(* (objectManager/aclConfiguration.c), their storage by the platform, the  *)
(* handlers of objects 0, 1 and 2 (objectManager/handlers.c) and the       *)
(* instances of these objects that wakaama lists                           *)
(* (objectManager/objects.c).                                              *)
(*                                                                         *)
(* A handler runs to its end, but the power may be lost between any two    *)
(* writes to the storage: every handler gives the sequence of storages it  *)
(* goes through (Do).                                                      *)
(*                                                                         *)
(*   - of the resources the model keeps the identifiers, the lifetime and  *)
(*     the registration ID; addresses and keys are the set of servers for  *)
(*     which the platform holds all of them;                               *)
(*   - a message that creates or writes an instance carries all of its     *)
(*     resources, of which one may be refused (badWrite);                  *)
(*   - the storage does what it is asked, and no allocation fails;         *)
(*   - a bootstrap goes on until it is over or the client is ended.        *)
(***************************************************************************)
EXTENDS Collections, Integers, FiniteSets, SequencesExt

CONSTANTS
  DmServers,   \* the short server IDs of the device management servers, 1..n
  Bootstrapped, \* lifetimes that a bootstrap or the previous version gives
  Lifetimes,   \* lifetimes that the client or a server sets
  AclIds,      \* instances of object 2 that a server creates, 0..n
  Deviations,  \* what the instance allows beside the usual course
  MaxCrashes   \* how often the power may be lost

\* badWrite:        a resource of a message is refused;
\* upgrade:         the storage was written by the previous version;
\* shrinkTorn:      the power is lost between the size and the content of a
\*                  configuration that got shorter;
\* aclTorn:         the same for the access rights, the instances of which are
\*                  then listed and cannot be read;
\* factoryLifetime: the client sets a lifetime while no server is configured;
\* anyInstance:     instances are created or deleted with gaps between their IDs;
\* secondAccount:   the bootstrap server adds a second account for itself.
AllDeviations == {"badWrite", "upgrade", "shrinkTorn", "aclTorn",
                  "factoryLifetime", "anyInstance", "secondAccount"}

ASSUME ConfigurationAssumption ==
  /\ IsFiniteSet(DmServers) /\ DmServers = 1..Cardinality(DmServers)
  /\ Lifetimes \subseteq Nat \ {0} /\ Bootstrapped \subseteq Nat \ {0}
  /\ AclIds \subseteq Nat
  /\ Deviations \subseteq AllDeviations
  /\ MaxCrashes \in Nat

VARIABLES
  disk,    \* the parameters of the platform and the servers it has keys for
  mem,     \* BsConfigList, AclConfigList, the instances that wakaama lists and
           \* the session; NoMemory before lwm2mcore_ObjectRegister
  wished,  \* the lifetime that was accepted for all servers last, 0 for none
  crashes  \* bound

vars == <<disk, mem, wished, crashes>>

----------------------------------------------------------------------------
(* The bootstrap configuration: ConfigBootstrapFile_t, where version is     *)
(* "zero" after a memset, and the numbers of entries are counted apart from *)
(* the lists.                                                               *)

NoSize == -1
Zero == [version |-> "zero", nsec |-> 0, nsrv |-> 0, sec |-> <<>>, srv |-> <<>>]
Absent == [Zero EXCEPT !.version = "none"]

Security(id, boot, server) == [id |-> id, boot |-> boot, server |-> server]
Server(id, server, life) == [id |-> id, server |-> server, life |-> life, reg |-> FALSE]

\* SetDefaultBootstrapConfiguration: the bootstrap server in instance 0.
Default == [version |-> "v2", nsec |-> 1, nsrv |-> 0,
            sec |-> <<Security(0, TRUE, 1)>>, srv |-> <<>>]

\* The file of the previous version, without identifiers of instances; it is
\* adapted when the platform has the address of its device management server
\* and is else read as nothing.
Version1(life) == [version |-> "v1", nsec |-> 2, nsrv |-> 1,
                   sec |-> <<Security(0, TRUE, 1), Security(1, FALSE, 1)>>,
                   srv |-> <<Server(0, 1, life)>>]
Adapted(d) == IF 1 \in d.keys THEN [d.param EXCEPT !.version = "v2"] ELSE Zero

\* The bytes that are stored (struct ConfigSecurityToStoreV02_t,
\* ConfigServerToStoreV02_t and ConfigBootstrapFileV01_t).
Length(c) == IF c.version = "v1" THEN 60 ELSE 8 + 20 * c.nsec + 60 * c.nsrv

Padded(list, n, zero) == [i \in 1..n |-> IF i <= Len(list) THEN list[i] ELSE zero]
Stored(c) == [c EXCEPT !.sec = Padded(c.sec, c.nsec, Security(0, FALSE, 0)),
                       !.srv = Padded(c.srv, c.nsrv, Server(0, 0, 0))]

Has(list, id) == \E i \in DOMAIN list : list[i].id = id
Find(list, id) == CHOOSE i \in DOMAIN list : list[i].id = id
IdsOf(list) == {list[i].id : i \in DOMAIN list}

Distinct(list) ==
  Selected(list, {i \in DOMAIN list : \A j \in 1..(i - 1) : list[j].id # list[i].id})
Accounts(c) == Selected(c.sec, {i \in DOMAIN c.sec : c.sec[i].boot})
DmInstances(c) == {c.sec[i].id : i \in {j \in DOMAIN c.sec : ~c.sec[j].boot}}
ServerIds(c) == {c.srv[i].server : i \in DOMAIN c.srv}

\* The writes of omanager_StoreBootstrapConfiguration after those in steps.
StoreConfig(steps, c) ==
  LET sized == [Last(steps) EXCEPT !.size = Length(c)]
  IN  steps \o <<sized, [sized EXCEPT !.param = Stored(c)]>>

\* lwm2mcore_DeleteParam of the content and of the size.
DeleteStored(d) ==
  LET emptied == [d EXCEPT !.param = Absent]
  IN  <<d, emptied, [emptied EXCEPT !.size = NoSize]>>

\* Mutant: a file that is too short is taken as far as it goes.
Load_Short(d, storage) ==
  LET Result(c, ok, steps) ==
        [config |-> c, ok |-> ok, steps |-> IF storage THEN StoreConfig(steps, c) ELSE steps]
  IN  IF d.size = NoSize \/ d.param.version # "v2" THEN Result(Default, TRUE, <<d>>)
      ELSE [config |-> IF d.size < Length(d.param) THEN [d.param EXCEPT !.srv = <<>>]
                       ELSE d.param,
            ok |-> TRUE, steps |-> <<d>>]

\* Mutant: the version that is read is not compared with the present one.
Load_AnyVersion(d, storage) ==
  LET Result(c, ok, steps) ==
        [config |-> c, ok |-> ok, steps |-> IF storage THEN StoreConfig(steps, c) ELSE steps]
  IN  CASE d.size = NoSize -> Result(Default, TRUE, <<d>>)
        [] d.size # NoSize /\ (d.param.version = "none" \/ d.size < Length(d.param)) ->
             [config |-> Zero, ok |-> FALSE, steps |-> <<d>>]
        [] OTHER -> [config |-> d.param, ok |-> TRUE, steps |-> <<d>>]

\* omanager_LoadBootstrapConfiguration: what it reads, what it returns and what
\* it writes.  The adaptation fills BsConfigList, also when another configuration
\* is loaded (not storage), which stays empty; a file that is too short for its
\* numbers leaves nothing.
Load(d, storage) ==
  LET Result(c, ok, steps) ==
        [config |-> c, ok |-> ok, steps |-> IF storage THEN StoreConfig(steps, c) ELSE steps]
  IN  CASE d.size = NoSize /\ d.param.version = "v1" ->
             Result(IF storage THEN Adapted(d) ELSE Zero, TRUE, <<d>>)
        [] d.size = NoSize /\ d.param.version # "v1" -> Result(Default, TRUE, <<d>>)
        [] d.size # NoSize /\ d.param.version = "none" -> Result(Default, FALSE, <<d>>)
        [] d.size # NoSize /\ d.param.version # "none" /\ d.size < Length(d.param) ->
             [config |-> Zero, ok |-> FALSE, steps |-> <<d>>]
        [] d.param.version = "v2" /\ d.size = Length(d.param) ->
             [config |-> [d.param EXCEPT !.sec = Distinct(@), !.srv = Distinct(@)],
              ok |-> TRUE, steps |-> <<d>>]
        [] OTHER -> Result(Default, FALSE, DeleteStored(d))

----------------------------------------------------------------------------
(* The access rights: ConfigAclFile_t.                                      *)

NoAcl == [n |-> 0, list |-> <<>>]
AclEntry(id, rights) == [id |-> id, rights |-> rights]
AclLength(a) ==
  6 + 10 * a.n + 4 * Cardinality(UNION {{i} \X a.list[i].rights : i \in DOMAIN a.list})

\* StoreAclConfiguration.
StoreAcl(steps, a) ==
  LET sized == [Last(steps) EXCEPT !.aclSize = AclLength(a)]
  IN  steps \o <<sized, [sized EXCEPT !.acl = [a EXCEPT !.list = Padded(@, a.n, AclEntry(0, {}))]]>>

\* LoadAclConfiguration: only a missing or a short file is replaced; one that is
\* too short for its numbers leaves the numbers.
LoadAcl(steps) ==
  LET d == Last(steps)
  IN  CASE d.aclSize > AclLength(d.acl) \/ d.aclSize = NoSize ->
             [acl |-> NoAcl, steps |-> StoreAcl(steps, NoAcl)]
        [] d.aclSize # NoSize /\ d.aclSize < AclLength(d.acl) ->
             [acl |-> [d.acl EXCEPT !.list = <<>>], steps |-> steps]
        [] OTHER -> [acl |-> d.acl, steps |-> steps]

----------------------------------------------------------------------------
(* Memory, sessions and power.                                              *)

Objects == {"security", "server", "acl"}
NoMemory == [config |-> Zero, acl |-> NoAcl, listed |-> [o \in Objects |-> {}],
             session |-> "off"]
On == mem.session # "off"

ConfigTorn(d) == d.size # NoSize /\ d.size < Length(d.param)
AclTorn(d) == d.aclSize < AclLength(d.acl)

\* A handler that takes the storage through steps, the first of which is the
\* present one, and leaves the memory m; or the power is lost on the way.
Do(steps, m) ==
  \/ disk' = Last(steps) /\ mem' = m /\ UNCHANGED crashes
  \/ /\ crashes < MaxCrashes /\ crashes' = crashes + 1
     /\ \E i \in 1..Len(steps) - 1 :
          /\ ConfigTorn(steps[i]) => "shrinkTorn" \in Deviations
          /\ AclTorn(steps[i]) => AclTorn(disk) \/ "aclTorn" \in Deviations
          /\ disk' = steps[i]
     /\ mem' = NoMemory

Crashed == mem' = NoMemory

\* omanager_DeleteDmCredentials: of several accounts of the bootstrap server the
\* last stays in the list, and all of them in its number.
WithoutDm(c) ==
  [c EXCEPT !.sec = IF Accounts(c) = <<>> THEN <<>> ELSE <<Last(Accounts(c))>>,
            !.nsec = @ - (Len(c.sec) - Len(Accounts(c))),
            !.srv = <<>>, !.nsrv = 0]
DeleteDm(steps, c) ==
  StoreConfig(Append(steps, [Last(steps) EXCEPT !.keys = @ \ ServerIds(c)]), WithoutDm(c))

\* RegisterObjTable lists as many instances as there are entries, from 0 on,
\* whatever their identifiers are.
FirstIds(n) == 0..(n - 1)

\* lwm2mcore_ObjectRegister.
ObjectRegister ==
  LET loaded == Load(disk, TRUE)
      config == IF loaded.ok THEN loaded.config ELSE WithoutDm(loaded.config)
      steps == IF loaded.ok THEN loaded.steps ELSE DeleteDm(loaded.steps, loaded.config)
      rights == LoadAcl(steps)
  IN  /\ ~On
      /\ Do(rights.steps,
            [config |-> config, acl |-> rights.acl, session |-> "none",
             listed |-> [security |-> FirstIds(config.nsec),
                         server   |-> FirstIds(config.nsrv),
                         acl      |-> FirstIds(rights.acl.n)]])
      /\ wished' = IF ~Crashed /\ config.srv = <<>> THEN 0 ELSE wished

\* lwm2mcore_Free.
Free ==
  /\ On
  /\ mem' = NoMemory /\ UNCHANGED <<disk, wished, crashes>>

PowerLoss ==
  /\ On /\ crashes < MaxCrashes
  /\ mem' = NoMemory /\ crashes' = crashes + 1 /\ UNCHANGED <<disk, wished>>

----------------------------------------------------------------------------
(* The lifetime.                                                            *)

\* Mutant: only the first server is updated.
WithLifetime_First(c, life) ==
  IF c.srv = <<>> THEN [c EXCEPT !.srv = <<Server(0, 0, 0)>>, !.nsrv = @ + 1]
  ELSE [c EXCEPT !.srv[1].life = life]

\* UpdateLifetime: without a server an entry is made for one, all zero.
WithLifetime(c, life) ==
  IF c.srv = <<>> THEN [c EXCEPT !.srv = <<Server(0, 0, 0)>>, !.nsrv = @ + 1]
  ELSE [c EXCEPT !.srv = [i \in DOMAIN @ |-> [@[i] EXCEPT !.life = life]]]

\* Mutant: the configuration in memory keeps its lifetime.
SetLifetime_StoredOnly(life) ==
  LET loaded == Load(disk, FALSE)
      stored == WithLifetime(loaded.config, life)
  IN  /\ On /\ loaded.ok /\ loaded.config.srv # <<>> /\ mem.config.srv # <<>>
      /\ Do(StoreConfig(loaded.steps, stored), mem)
      /\ wished' = IF Crashed THEN 0 ELSE life

\* omanager_SetLifetime works on the stored configuration first, then on the one
\* in memory.
SetLifetime(life) ==
  LET loaded == Load(disk, FALSE)
      stored == WithLifetime(loaded.config, life)
  IN  /\ On \/ "upgrade" \in Deviations
      /\ (loaded.config.srv # <<>> /\ mem.config.srv # <<>>)
         \/ "factoryLifetime" \in Deviations
      /\ IF loaded.ok
         THEN /\ Do(StoreConfig(loaded.steps, stored),
                    IF On THEN [mem EXCEPT !.config = WithLifetime(@, life)] ELSE mem)
              /\ wished' = IF On /\ Crashed THEN 0 ELSE life
         ELSE Do(loaded.steps, mem) /\ UNCHANGED wished

\* omanager_GetLifetime, 0 where it fails or finds no server.
LifetimeStored ==
  LET loaded == Load(disk, FALSE)
  IN  IF loaded.ok /\ loaded.config.srv # <<>> THEN loaded.config.srv[1].life ELSE 0

----------------------------------------------------------------------------
(* Sessions: what the bootstrap server writes stays in memory until the      *)
(* bootstrap is over, what another server writes is stored at once.          *)

InSession(s) == mem.session = s

\* wakaama bootstraps when it finds no device management server.
KnowsDm == \E i \in DOMAIN mem.config.sec :
             ~mem.config.sec[i].boot /\ mem.config.sec[i].id \in mem.listed["security"]

StartBootstrap ==
  /\ InSession("none") /\ ~KnowsDm
  /\ \E i \in DOMAIN mem.config.sec : mem.config.sec[i].boot
  /\ mem' = [mem EXCEPT !.session = "bootstrap"]
  /\ UNCHANGED <<disk, wished, crashes>>

\* CreateCb, or WriteCb where the instance is listed: the instance is listed
\* under its identifier unless it is the first, which is listed as 0; only a
\* listed one is written, and one whose write fails is taken off the list.
Listing(object, id) ==
  LET ids == mem.listed[object]
  IN  IF ids = {} THEN {0} ELSE ids \cup {id}
Written(object, id) == id \in Listing(object, id)
ListedAfter(object, id, good) ==
  IF good \/ id \in mem.listed[object] THEN [mem.listed EXCEPT ![object] = Listing(object, id)]
  ELSE [mem.listed EXCEPT ![object] = Listing(object, id) \ {id}]

Outcomes == {TRUE} \cup (IF "badWrite" \in Deviations THEN {FALSE} ELSE {})

\* Instances are numbered without a gap.
Regular(ids, id) == id \in ids \/ id = Cardinality(ids) \/ "anyInstance" \in Deviations

\* omanager_WriteSecurityObj.
WithSecurity(c, e) ==
  IF Has(c.sec, e.id) THEN [c EXCEPT !.sec[Find(c.sec, e.id)] = e]
  ELSE [c EXCEPT !.sec = Append(@, e), !.nsec = @ + 1]
\* omanager_WriteServerObj.
WithServer(c, e) ==
  IF Has(c.srv, e.id) THEN [c EXCEPT !.srv[Find(c.srv, e.id)] = e]
  ELSE [c EXCEPT !.srv = Append(@, e), !.nsrv = @ + 1]

\* A security instance of the device management server s, or one more of the
\* bootstrap server itself; one that is refused half-way has no server yet.
WriteSecurity(s, boot, good) ==
  LET e == Security(s, boot, IF good THEN s ELSE 0)
  IN  /\ InSession("bootstrap")
      /\ boot => "secondAccount" \in Deviations
      /\ Regular(IdsOf(mem.config.sec), s)
      /\ mem' = [mem EXCEPT !.listed = ListedAfter("security", s, good),
                            !.config = IF Written("security", s) THEN WithSecurity(@, e) ELSE @]
      /\ UNCHANGED <<disk, wished, crashes>>

\* The server instance of s.
WriteServer(s, life, good) ==
  LET e == Server(s - 1, IF good THEN s ELSE 0, life)
  IN  /\ InSession("bootstrap")
      /\ Regular(IdsOf(mem.config.srv), s - 1)
      /\ mem' = [mem EXCEPT !.listed = ListedAfter("server", s - 1, good),
                            !.config = IF Written("server", s - 1) THEN WithServer(@, e) ELSE @]
      /\ UNCHANGED <<disk, wished, crashes>>

\* DeleteCb of a security instance: the list forgets it, the configuration does
\* not.
DeleteSecurity(id) ==
  /\ InSession("bootstrap") /\ id \in mem.listed["security"]
  /\ \E i \in DOMAIN mem.config.sec : mem.config.sec[i].id = id /\ ~mem.config.sec[i].boot
  /\ mem' = [mem EXCEPT !.listed["security"] = @ \ {id}]
  /\ UNCHANGED <<disk, wished, crashes>>

\* Mutant: the access rights are not stored.
BootstrapDone_NoAcl ==
  LET servers == {mem.config.sec[i].server : i \in {j \in DOMAIN mem.config.sec :
                                                      ~mem.config.sec[j].boot}}
      keyed == [disk EXCEPT !.keys = @ \cup servers]
  IN  /\ InSession("bootstrap")
      /\ servers # {} /\ servers = ServerIds(mem.config) /\ 0 \notin servers
      /\ Do(StoreConfig(<<disk, keyed>>, mem.config), [mem EXCEPT !.session = "none"])
      /\ wished' = 0

\* Mutant: the configuration is stored before the keys.
BootstrapDone_ConfigFirst ==
  LET servers == {mem.config.sec[i].server : i \in {j \in DOMAIN mem.config.sec :
                                                      ~mem.config.sec[j].boot}}
      steps == StoreConfig(<<disk>>, mem.config)
  IN  /\ InSession("bootstrap")
      /\ servers # {} /\ servers = ServerIds(mem.config) /\ 0 \notin servers
      /\ Do(StoreAcl(Append(steps, [Last(steps) EXCEPT !.keys = @ \cup servers]), mem.acl),
            [mem EXCEPT !.session = "none"])
      /\ wished' = 0

\* The bootstrap is over: omanager_StoreCredentials stores the keys of every
\* server and the configuration, then the access rights are stored.  A bootstrap
\* server tells the security and the server instance of each server.
BootstrapDone ==
  LET servers == {mem.config.sec[i].server : i \in {j \in DOMAIN mem.config.sec :
                                                      ~mem.config.sec[j].boot}}
      keyed == [disk EXCEPT !.keys = @ \cup servers]
  IN  /\ InSession("bootstrap")
      /\ servers # {} /\ servers = ServerIds(mem.config) /\ 0 \notin servers
      /\ Do(StoreAcl(StoreConfig(<<disk, keyed>>, mem.config), mem.acl),
            [mem EXCEPT !.session = "none"])
      /\ wished' = 0

\* lwm2mcore_SetRegistrationID, when server i has accepted the registration.
Register(i) ==
  LET config == [mem.config EXCEPT !.srv[i].reg = TRUE]
  IN  /\ InSession("none") /\ KnowsDm /\ i \in DOMAIN mem.config.srv
      /\ Do(StoreConfig(<<disk>>, config), [mem EXCEPT !.config = config, !.session = "dm"])
      /\ UNCHANGED wished

\* lwm2mcore_DeleteRegistrationID(-1), for a firmware that will be installed.
DeleteRegistrationID ==
  LET config == [mem.config EXCEPT !.srv = [i \in DOMAIN @ |-> [@[i] EXCEPT !.reg = FALSE]]]
  IN  /\ InSession("dm") /\ mem.config.srv # <<>>
      /\ Do(StoreConfig(<<disk>>, config), [mem EXCEPT !.config = config])
      /\ UNCHANGED wished

\* The registration is refused, or the handshake with the server is given up: the
\* credentials are deleted.
DeleteDmCredentials ==
  LET listed == [mem.listed EXCEPT !["server"] = {},
                                   !["security"] = @ \ DmInstances(mem.config)]
  IN  /\ mem.session \in {"none", "dm"}
      /\ Do(DeleteDm(<<disk>>, mem.config),
            [mem EXCEPT !.config = WithoutDm(@), !.session = "none", !.listed = listed])
      /\ wished' = 0

EndSession ==
  /\ InSession("dm")
  /\ mem' = [mem EXCEPT !.session = "none"] /\ UNCHANGED <<disk, wished, crashes>>

\* A device management server writes the lifetime of a server instance:
\* lwm2mcore_SetPollingTimer sets that of all servers unless the stored one is
\* the same, then this instance is written and all is stored.
WriteLifetime(id, life) ==
  LET changed == LifetimeStored # life
      loaded == Load(disk, FALSE)
      steps == IF changed THEN StoreConfig(loaded.steps, WithLifetime(loaded.config, life))
               ELSE <<disk>>
      base == IF changed THEN WithLifetime(mem.config, life) ELSE mem.config
      config == IF Has(base.srv, id)
                THEN [base EXCEPT !.srv[Find(base.srv, id)].life = life]
                ELSE WithServer(base, Server(id, 0, life))
  IN  /\ InSession("dm") /\ id \in mem.listed["server"] /\ loaded.ok
      /\ Do(StoreConfig(steps, config), [mem EXCEPT !.config = config])
      /\ wished' = IF Crashed THEN 0 ELSE IF changed THEN life ELSE wished

----------------------------------------------------------------------------
(* Access rights.                                                           *)

WithEntry(a, id) ==
  IF Has(a.list, id) THEN a ELSE [n |-> a.n + 1, list |-> Append(a.list, AclEntry(id, {}))]
WithRight(a, id) == [a EXCEPT !.list[Find(a.list, id)].rights = @ \cup {1}]

\* A server creates or writes instance id of object 2: omanager_WriteAclObj for
\* each resource, each of which is stored unless in a bootstrap; the last one,
\* the rights, may be refused.
WriteAcl(id, good) ==
  LET entered == WithEntry(mem.acl, id)
      rights == IF good THEN WithRight(entered, id) ELSE entered
      steps == IF InSession("bootstrap") THEN <<disk>>
               ELSE IF good THEN StoreAcl(StoreAcl(<<disk>>, entered), rights)
               ELSE StoreAcl(<<disk>>, entered)
      m == [mem EXCEPT !.listed = ListedAfter("acl", id, good)]
  IN  /\ mem.session \in {"bootstrap", "dm"}
      /\ Regular(mem.listed["acl"], id)
      /\ IF Written("acl", id) THEN Do(steps, [m EXCEPT !.acl = rights])
         ELSE Do(<<disk>>, m)
      /\ UNCHANGED wished

\* Mutant: the number of instances stays.
WithoutEntry_Counted(a, id) ==
  [a EXCEPT !.list = Selected(@, {i \in DOMAIN @ : @[i].id # id})]

\* omanager_RemoveAclObjectInstance.
WithoutEntry(a, id) ==
  LET list == Selected(a.list, {i \in DOMAIN a.list : a.list[i].id # id})
  IN  [n |-> a.n - (Len(a.list) - Len(list)), list |-> list]

\* DeleteCb of an instance of object 2.
DeleteAcl(id) ==
  LET acl == WithoutEntry(mem.acl, id)
  IN  /\ InSession("dm") /\ id \in mem.listed["acl"]
      /\ "anyInstance" \in Deviations \/ \A other \in IdsOf(mem.acl.list) : other <= id
      /\ Do(StoreAcl(<<disk>>, acl),
            [mem EXCEPT !.acl = acl, !.listed["acl"] = @ \ {id}])
      /\ UNCHANGED wished

\* DeleteCb of a server instance, which only the list forgets.
DeleteServer(id) ==
  /\ InSession("dm") /\ id \in mem.listed["server"]
  /\ mem' = [mem EXCEPT !.listed["server"] = @ \ {id}]
  /\ UNCHANGED <<disk, wished, crashes>>

----------------------------------------------------------------------------
(* The specification.                                                       *)

Init ==
  /\ \/ disk = [size |-> NoSize, param |-> Absent, aclSize |-> NoSize, acl |-> NoAcl,
                keys |-> {}]
     \/ /\ "upgrade" \in Deviations
        /\ \E life \in Bootstrapped, keys \in {{}, {1}} :
             disk = [size |-> NoSize, param |-> Version1(life), aclSize |-> NoSize,
                     acl |-> NoAcl, keys |-> keys]
  /\ mem = NoMemory /\ wished = 0 /\ crashes = 0

FromBootstrapServer ==
  \/ \E s \in DmServers, boot \in BOOLEAN, good \in Outcomes : WriteSecurity(s, boot, good)
  \/ \E s \in DmServers, life \in Bootstrapped, good \in Outcomes : WriteServer(s, life, good)
  \/ \E s \in DmServers : DeleteSecurity(s)

FromServer ==
  \/ \E s \in DmServers, life \in Lifetimes : WriteLifetime(s - 1, life)
  \/ \E id \in AclIds, good \in Outcomes : WriteAcl(id, good)
  \/ \E id \in AclIds : DeleteAcl(id)
  \/ \E s \in DmServers : DeleteServer(s - 1)

Next ==
  \/ ObjectRegister \/ Free \/ PowerLoss
  \/ StartBootstrap \/ FromBootstrapServer \/ BootstrapDone
  \/ \E i \in DmServers : Register(i)
  \/ FromServer
  \/ DeleteRegistrationID \/ DeleteDmCredentials \/ EndSession
  \/ \E life \in Lifetimes : SetLifetime(life)

Spec == Init /\ [][Next]_vars

\* Fairness: a client without a server it can reach is ended and started again.
FairSpec == Spec /\ WF_vars(ObjectRegister)
                 /\ WF_vars(Free /\ Accounts(mem.config) = <<>>)

----------------------------------------------------------------------------
(* Properties.                                                              *)

\* Outside a bootstrap a restart would find the configuration that the client
\* works with: no handler leaves one behind the other (handlers.c 1008, 1191,
\* 806; lwm2mcoreSession.c 2263, 2316).
StoredAgrees ==
  mem.session \in {"none", "dm"} /\ mem.config.version = "v2" =>
    Load(disk, FALSE).ok /\ Load(disk, FALSE).config = mem.config

\* ... and the access rights.
AclStoredAgrees ==
  mem.session \in {"none", "dm"} => LoadAcl(<<disk>>).acl = mem.acl

\* What wakaama lists can be read: each instance is one of the configuration,
\* over creations, refusals, deletions and restarts, which number them anew
\* (objects.c 1895-1996).
ListedIsConfigured ==
  On /\ mem.config.version = "v2" =>
    /\ mem.listed["security"] \subseteq IdsOf(mem.config.sec)
    /\ mem.listed["server"] \subseteq IdsOf(mem.config.srv)
    /\ mem.listed["acl"] \subseteq IdsOf(mem.acl.list)

\* A lifetime that was accepted is the one of every server, in the storage and
\* after any restart (lwm2mcore.h 1147-1157).
LifetimeIsStored ==
  wished # 0 =>
    /\ disk.param.srv # <<>>
    /\ \A i \in DOMAIN disk.param.srv : disk.param.srv[i].life = wished

\* A server that gets stored has its keys in the platform by then, whenever the
\* power is lost while a bootstrap is stored (handlers.c 763-806); the client would
\* else take it for one it can reach, and never bootstrap.
NewServersHaveKeys ==
  [][disk'.param.version = "v2" =>
       ServerIds(disk'.param) \ (ServerIds(disk.param) \cup {0}) \subseteq disk'.keys]_vars

\* A client starts with the configuration that was stored last as a whole, or
\* with none but the bootstrap server, never with a mixture of two, however the
\* power was lost (bootstrapConfiguration.c 553-732).
StartsWhole ==
  [][~On /\ On' =>
       mem'.config \in {[disk.param EXCEPT !.version = "v2"], Default, Zero}]_vars

\* A client that has lost its bootstrap server, which an interrupted deletion of
\* the credentials can make happen, has it again after some restarts.
BootstrapServerReturns ==
  (On /\ Accounts(mem.config) = <<>>) ~> (On /\ Accounts(mem.config) # <<>>)
=============================================================================
