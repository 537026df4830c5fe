--------------------------- MODULE RoutersProofs ---------------------------
(***************************************************************************)
(* Proofs about Routers and ZipFs, for any directories, configurations and *)
(* requests: an archive that can be opened is whole, what it serves is     *)
(* what was packed, and AdpRouter's map holds exactly what rules justify.  *)
(***************************************************************************)
EXTENDS Routers, TLAPS

(* The files hybrid-zip has dealt with and packed.                         *)
Dealt(n) == {dir[i] : i \in {j \in 1 .. n : Packed(dir[j])}}
EntriesOf(files) == {Entry(f) : f \in files}
RawOf(files) == {f.name : f \in {g \in files : ~Compressed(g)}}

Packing ==
  /\ packing # Idle =>
       meta = NoMeta /\ entries = EntriesOf(Dealt(packing)) /\ info = RawOf(Dealt(packing))
  /\ packing = Idle /\ meta # NoMeta =>
       entries = EntriesOf(PackedFiles) /\ meta = RawOf(PackedFiles)
  /\ zip # "no" => packing = Idle /\ meta # NoMeta

(* No request comes before New is done; what was found blocked is in the   *)
(* map, and what is in the map has a rule.                                 *)
Blocking ==
  /\ node = "new" => /\ \A r \in Requests : pc[r] = "none"
                     /\ \A i \in DOMAIN config : found[i] = {}
  /\ \A i \in DOMAIN config :
       /\ found[i] \subseteq blockedIps[i]
       /\ blockedIps[i] \subseteq config[i].match \union HostsBlocked(config[i])
  /\ \A r \in Requests :
       /\ pc[r] \in {"match", "store"} => at[r] \in DOMAIN config /\ ~knew[r]
       /\ pc[r] = "store" => req[r].host \in config[at[r]].match
       /\ knew[r] => verdict[r] # "passed"

(* The routers that New has made have proxies; a request is given to the   *)
(* file client by its Route only.                                          *)
Routed ==
  /\ \A i \in 1 .. routers : Resolves(config[i])
  /\ node \in {"up", "closed"} => routers = Len(config) /\ zip # "no"
  /\ \A r \in Requests :
       /\ pc[r] # "none" => node \in {"up", "closed"} /\ req[r] \in Request
       /\ pc[r] \in {"do", "done"} /\ proxy[r] = "file" => FileRoutes(req[r])

IInv == TypeOK /\ Packing /\ Blocking /\ Routed

(* The names of a directory and of its index, and what .gz does to names.  *)
LEMMA NameFacts ==
  /\ Root \in Names /\ Index \in Names /\ Root # Index
  /\ \A n \in Names : Gz(n) \in Names /\ Gz(n) # Root /\ Gz(n) # n
  /\ \A m, n \in Names : Gz(m) = Gz(n) => m = n
<1>1. Root \in Names /\ Index \in Names
      BY ZipFsAssumption, Zenon DEF Root, Index, Names
<1>2. Root # Index
  <2>1. Root.base = "" /\ Index.base = "index" BY Zenon DEF Root, Index
  <2> QED BY <2>1, Zenon
<1>3. ASSUME NEW n \in Names
      PROVE  /\ Gz(n) \in Names /\ Gz(n).base = n.base /\ Gz(n).gz = n.gz + 1
             /\ Gz(n) # Root /\ Gz(n) # n
  <2>1. n.gz \in Nat BY Zenon DEF Names
  <2>2. Gz(n) \in Names /\ Gz(n).base = n.base /\ Gz(n).gz = n.gz + 1 BY DEF Gz, Names
  <2>3. Root.gz = 0 BY Zenon DEF Root
  <2> QED BY <2>1, <2>2, <2>3
<1>4. ASSUME NEW m \in Names, NEW n \in Names, Gz(m) = Gz(n) PROVE m = n
  <2>1. m.base = n.base /\ m.gz = n.gz BY <1>3, <1>4 DEF Names
  <2> QED BY <2>1 DEF Names
<1> QED BY <1>1, <1>2, <1>3, <1>4, Zenon

(* Sequences of files and of routers.                                      *)
LEMMA DirIsSeq ==
  ASSUME dir \in Dirs
  PROVE  /\ Len(dir) \in Nat /\ DOMAIN dir = 1 .. Len(dir)
         /\ \A i \in DOMAIN dir : dir[i] \in [name : Names, kind : Kinds]
         /\ \A i \in DOMAIN dir : Entry(dir[i]) \in [name : Names, of : Names, gz : BOOLEAN]
<1>1. dir \in Seq([name : Names, kind : Kinds])
      BY ZipFsAssumption, Zenon
<1>2. Len(dir) \in Nat /\ DOMAIN dir = 1 .. Len(dir)
      BY <1>1
<1>3. ASSUME NEW i \in DOMAIN dir PROVE dir[i] \in [name : Names, kind : Kinds]
  <2> DEFINE F == [name : Names, kind : Kinds]
  <2> HIDE DEF F
  <2>1. dir \in Seq(F) /\ i \in 1 .. Len(dir) BY <1>1, <1>2, <1>3, Zenon DEF F
  <2>2. dir[i] \in F BY <2>1
  <2> QED BY <2>2, Zenon DEF F
<1>4. ASSUME NEW f \in [name : Names, kind : Kinds]
      PROVE  Entry(f) \in [name : Names, of : Names, gz : BOOLEAN]
      BY NameFacts, Zenon DEF Entry, Compressed
<1> QED BY <1>2, <1>3, <1>4, Zenon

(* A configuration is a sequence of routers.                               *)
LEMMA ConfigIsSeq ==
  ASSUME config \in Configs
  PROVE  /\ Len(config) \in Nat /\ DOMAIN config = 1 .. Len(config)
         /\ \A i \in DOMAIN config : config[i] \in RouterItem
<1>1. config \in Seq(RouterItem)
      BY RoutersAssumption, Zenon
<1> QED BY <1>1

(* The rules' addresses are hosts.                                         *)
LEMMA RulesAreHosts ==
  ASSUME NEW item \in RouterItem
  PROVE  HostsBlocked(item) \subseteq Hosts /\ item.match \subseteq Hosts
BY RoutersAssumption, Zenon DEF HostsBlocked, RouterItem

(* Nothing is packed and no node is made yet.                              *)
LEMMA InitInv == Init => IInv
<1> SUFFICES ASSUME Init PROVE IInv
    BY Zenon
<1>1. TypeOK
  <2>1. ZipTypeOK
    <3>1. dir \in Dirs BY Zenon DEF Init, ZipInit
    <3>2. packing \in 0 .. Idle /\ packs \in 0 .. MaxPacks
      <4>1. Len(dir) \in Nat /\ MaxPacks \in Nat BY <3>1, DirIsSeq, ZipFsAssumption, Zenon
      <4> QED BY <4>1 DEF Init, ZipInit, Idle
    <3>3. meta \in SUBSET Names BY NameFacts, Zenon DEF Init, ZipInit, NoMeta
    <3> QED BY <3>1, <3>2, <3>3, Zenon DEF Init, ZipInit, ZipTypeOK
  <2>2. config \in Configs /\ routers \in 0 .. Len(config) /\ at \in [Requests -> 1 .. Len(config) + 1]
        BY ConfigIsSeq DEF Init
  <2>3. answer \in [Requests -> [code : Codes, of : Names, ok : BOOLEAN]]
        BY NameFacts, Zenon DEF Init, NoAnswer, Answer, Codes
  <2>4. /\ req \in [Requests -> Request \union {NoRequest}]
        /\ proxy \in [Requests -> Proxies \union {"file", Nil}]
        /\ pc \in [Requests -> {"none", "route", "match", "store", "do", "done"}]
        /\ verdict \in [Requests -> {"none", "blocked", "passed"}]
        BY Zenon DEF Init
  <2>5. knew \in [Requests -> BOOLEAN]
        BY Zenon DEF Init
  <2>6. /\ blockedIps \in [DOMAIN config -> SUBSET Hosts] /\ found \in [DOMAIN config -> SUBSET Hosts]
        /\ node = "new" /\ zip = "no"
        BY Zenon DEF Init
  <2> QED BY <2>1, <2>2, <2>3, <2>4, <2>5, <2>6, Zenon DEF TypeOK
<1>2. Packing
      BY Zenon DEF Init, ZipInit, Packing
<1>3. Blocking
      BY Zenon DEF Init, Blocking
<1>4. Routed
      BY DEF Init, Routed
<1> QED BY <1>1, <1>2, <1>3, <1>4, Zenon DEF IInv

----------------------------------------------------------------------------
(* What one more file adds.                                                *)
LEMMA DealtFacts ==
  ASSUME dir \in Dirs
  PROVE  /\ Dealt(0) = {} /\ Dealt(Len(dir)) = PackedFiles
         /\ \A n \in 0 .. Len(dir) - 1 :
              Dealt(n + 1) = Dealt(n) \union (IF Packed(dir[n + 1]) THEN {dir[n + 1]} ELSE {})
<1>1. Len(dir) \in Nat /\ DOMAIN dir = 1 .. Len(dir)
      BY DirIsSeq, Zenon
<1>2. Dealt(0) = {} /\ Dealt(Len(dir)) = PackedFiles
      BY <1>1 DEF Dealt, PackedFiles
<1>3. ASSUME NEW n \in 0 .. Len(dir) - 1
      PROVE  Dealt(n + 1) = Dealt(n) \union (IF Packed(dir[n + 1]) THEN {dir[n + 1]} ELSE {})
  <2>1. 1 .. n + 1 = (1 .. n) \union {n + 1} BY <1>1
  <2> QED BY <2>1, Zenon DEF Dealt
<1> QED BY <1>2, <1>3, Zenon

(* What one more file adds to the entries and to the names listed as raw.  *)
LEMMA AddFile ==
  ASSUME NEW S, NEW f
  PROVE  /\ EntriesOf({}) = {} /\ RawOf({}) = {}
         /\ EntriesOf(S \union {f}) = EntriesOf(S) \union {Entry(f)}
         /\ RawOf(S \union {f}) = RawOf(S) \union (IF Compressed(f) THEN {} ELSE {f.name})
BY Zenon DEF EntriesOf, RawOf

(* A step of hybrid-zip keeps the types and what is known of the archive.  *)
LEMMA PackKeeps ==
  ASSUME ZipTypeOK, Packing, zip = "no", zip' = zip, Pack
  PROVE  ZipTypeOK' /\ Packing'
<1>1. dir \in Dirs /\ Len(dir) \in Nat /\ MaxPacks \in Nat /\ packing \in 0 .. Len(dir) + 1
      BY DirIsSeq, ZipFsAssumption, Zenon DEF ZipTypeOK, Idle
<1>2. dir' = dir /\ Idle' = Idle /\ Idle = Len(dir) + 1 /\ PackedFiles' = PackedFiles
      BY Zenon
      DEF Pack, Idle, PackedFiles, GzipThenZip, ProcessFile, ReadFails, WriteFails, Generate
<1>3. \A n \in Nat : Dealt(n)' = Dealt(n)
      BY <1>2, Zenon DEF Dealt
<1>4. CASE GzipThenZip
  <2>1. ZipTypeOK'
    <3>1. packing' \in 0 .. Idle' /\ packs' \in 0 .. MaxPacks
          BY <1>1, <1>2, <1>4 DEF GzipThenZip, ZipTypeOK
    <3>2. meta' \in SUBSET Names
          BY <1>4, NameFacts, Zenon DEF GzipThenZip, NoMeta
    <3> QED BY <1>1, <1>2, <1>4, <3>1, <3>2, Zenon DEF GzipThenZip, ZipTypeOK
  <2>2. Packing'
        BY <1>1, <1>2, <1>3, <1>4, DealtFacts, AddFile, Zenon DEF GzipThenZip, Packing
  <2> QED BY <2>1, <2>2, Zenon
<1>5. CASE ProcessFile
  <2> DEFINE f == dir[packing + 1]
  <2>1. packing \in 0 .. Len(dir) - 1 /\ packing # Idle /\ packing' = packing + 1 /\ packing' # Idle
        BY <1>1, <1>2, <1>5 DEF ProcessFile
  <2>2. f \in [name : Names, kind : Kinds] /\ Entry(f) \in [name : Names, of : Names, gz : BOOLEAN]
        BY <1>1, <2>1, DirIsSeq
  <2>3. ZipTypeOK'
        BY <1>1, <1>2, <1>5, <2>1, <2>2 DEF ProcessFile, ZipTypeOK
  <2>4. Dealt(packing + 1) = Dealt(packing) \union (IF Packed(f) THEN {f} ELSE {})
        BY <1>1, <2>1, DealtFacts, Zenon
  <2>5. entries' = EntriesOf(Dealt(packing + 1)) /\ info' = RawOf(Dealt(packing + 1))
    <3>1. entries = EntriesOf(Dealt(packing)) /\ info = RawOf(Dealt(packing))
          BY <2>1, Zenon DEF Packing
    <3>2. CASE Packed(f)
      <4>1. /\ EntriesOf(Dealt(packing) \union {f}) = EntriesOf(Dealt(packing)) \union {Entry(f)}
            /\ RawOf(Dealt(packing) \union {f}) =
                 RawOf(Dealt(packing)) \union (IF Compressed(f) THEN {} ELSE {f.name})
            BY AddFile, Zenon
      <4> QED BY <1>5, <2>4, <3>1, <3>2, <4>1, Zenon DEF ProcessFile
    <3>3. CASE ~Packed(f)
          BY <1>5, <2>4, <3>1, <3>3, Zenon DEF ProcessFile
    <3> QED BY <3>2, <3>3, Zenon
  <2>6. Dealt(packing)' = Dealt(packing + 1)
        BY <1>2, <2>1, Zenon DEF Dealt
  <2>7. meta' = NoMeta /\ NoMeta' = NoMeta
        BY <1>5, <2>1, Zenon DEF ProcessFile, Packing, NoMeta
  <2>8. /\ EntriesOf(Dealt(packing))' = EntriesOf(Dealt(packing + 1))
        /\ RawOf(Dealt(packing))' = RawOf(Dealt(packing + 1))
        BY <2>6, Zenon DEF EntriesOf, RawOf
  <2> QED BY <1>2, <2>1, <2>3, <2>5, <2>7, <2>8, Zenon DEF Packing
<1>6. CASE ReadFails
  <2>1. packing \in 0 .. Len(dir) - 1 /\ packing # Idle /\ packing' = Idle
        BY <1>1, <1>2, <1>6 DEF ReadFails
  <2>2. Entry(dir[packing + 1]) \in [name : Names, of : Names, gz : BOOLEAN]
        BY <1>1, <2>1, DirIsSeq
  <2>3. ZipTypeOK'
    <3>1. packing' \in 0 .. Idle' BY <1>1, <1>2, <2>1
    <3>2. entries' \in SUBSET [name : Names, of : Names, gz : BOOLEAN]
          BY <1>6, <2>2, Zenon DEF ReadFails, ZipTypeOK
    <3> QED BY <1>1, <1>2, <1>6, <3>1, <3>2, Zenon DEF ReadFails, ZipTypeOK
  <2>4. meta' = NoMeta'
        BY <1>6, <2>1, Zenon DEF ReadFails, Packing, NoMeta
  <2> QED BY <1>2, <2>1, <2>3, <2>4, Zenon DEF Packing
<1>7. CASE WriteFails
  <2>1. packing # Idle /\ packing' = Idle
        BY <1>1, <1>2, <1>7 DEF WriteFails
  <2>2. ZipTypeOK'
        BY <1>1, <1>2, <1>7 DEF WriteFails, ZipTypeOK
  <2>3. meta' = NoMeta'
        BY <1>7, <2>1, Zenon DEF WriteFails, Packing, NoMeta
  <2> QED BY <1>2, <2>1, <2>2, <2>3, Zenon DEF Packing
<1>8. CASE Generate
  <2>1. packing # Idle /\ packing = Len(dir) /\ packing' = Idle
        BY <1>1, <1>2, <1>8 DEF Generate
  <2>2. ZipTypeOK'
    <3>1. packing' \in 0 .. Idle' BY <1>1, <1>2, <2>1
    <3> QED BY <1>1, <1>2, <1>8, <3>1, Zenon DEF Generate, ZipTypeOK
  <2>3. entries' = EntriesOf(PackedFiles) /\ meta' = RawOf(PackedFiles)
        BY <1>1, <1>8, <2>1, DealtFacts, Zenon DEF Generate, Packing
  <2>4. EntriesOf(PackedFiles)' = EntriesOf(PackedFiles) /\ RawOf(PackedFiles)' = RawOf(PackedFiles)
        BY <1>2, Zenon DEF EntriesOf, RawOf
  <2> QED BY <1>2, <2>1, <2>2, <2>3, <2>4, Zenon DEF Packing
<1> QED BY <1>4, <1>5, <1>6, <1>7, <1>8, Zenon DEF Pack

(* Hybrid-zip runs before New has opened the archive only.                 *)
LEMMA PacksInv ==
  ASSUME IInv, Packs PROVE IInv'
<1>1. ZipTypeOK' /\ Packing'
      BY PackKeeps, Zenon DEF IInv, TypeOK, Packs, nodeVars
<1>2. TypeOK'
      BY <1>1, Zenon DEF IInv, TypeOK, Packs, nodeVars, requestVars
<1>3. Blocking'
      BY Zenon DEF IInv, Blocking, Packs, nodeVars, requestVars, HostsBlocked
<1>4. Routed'
      BY Zenon DEF IInv, Routed, Packs, nodeVars, requestVars, Resolves
<1> QED BY <1>1, <1>2, <1>3, <1>4, Zenon DEF IInv

(* The other steps leave the archive alone.                                *)
LEMMA ZipKept ==
  ASSUME IInv, UNCHANGED zipVars, zip' # "no" => zip # "no" \/ CanOpen
  PROVE  /\ ZipTypeOK' /\ Packing'
         /\ \A q : FileRoutes(q)' <=> FileRoutes(q)
<1>1. /\ dir' = dir /\ packing' = packing /\ info' = info /\ entries' = entries
      /\ sealed' = sealed /\ meta' = meta /\ packs' = packs
      BY Zenon DEF zipVars
<1>2. ZipTypeOK'
      BY <1>1, Zenon DEF IInv, TypeOK, ZipTypeOK, Idle
<1>3. Packing'
      BY <1>1, Zenon DEF IInv, Packing, Idle, NoMeta, Dealt, PackedFiles, EntriesOf, RawOf, CanOpen
<1>4. ASSUME NEW q PROVE FileRoutes(q)' <=> FileRoutes(q)
      BY <1>1, Zenon DEF FileRoutes, CanRequest, Exists, gz, IsRaw
<1> QED BY <1>2, <1>3, <1>4, Zenon

(* node.New and Close.                                                     *)
LEMMA NodeInv ==
  ASSUME IInv, New \/ Close PROVE IInv'
<1>1. UNCHANGED zipVars /\ (zip' # "no" => zip # "no" \/ CanOpen)
      BY Zenon
      DEF New, Close, OpenFileClient, NewRouter, NewRouterFails, NewFails, NewDone, IInv, Routed
<1>2. ZipTypeOK' /\ Packing' /\ \A q : FileRoutes(q)' <=> FileRoutes(q)
      BY <1>1, ZipKept, Zenon
<1>3. /\ config' = config /\ UNCHANGED requestVars
      /\ Len(config) \in Nat /\ DOMAIN config = 1 .. Len(config)
      BY ConfigIsSeq, Zenon
      DEF New, Close, OpenFileClient, NewRouter, NewRouterFails, NewFails, NewDone, IInv, TypeOK
<1>4. CASE NewRouter
  <2>1. routers + 1 \in DOMAIN config /\ config[routers + 1] \in RouterItem
    <3>1. routers + 1 \in 1 .. Len(config)
          BY <1>3, <1>4 DEF NewRouter, IInv, TypeOK
    <3> QED BY <1>3, <3>1, ConfigIsSeq, Zenon DEF IInv, TypeOK
  <2>2. PICK blocked \in SUBSET HostsBlocked(config[routers + 1]) :
           blockedIps' = [blockedIps EXCEPT ![routers + 1] = blocked]
        BY <1>4, Zenon DEF NewRouter
  <2>3. blocked \subseteq Hosts BY <2>1, <2>2, RulesAreHosts, Zenon
  <2>4. TypeOK'
        BY <1>2, <1>3, <1>4, <2>1, <2>2, <2>3 DEF NewRouter, requestVars, IInv, TypeOK
  <2>5. Blocking'
    <3>1. /\ pc' = pc /\ found' = found /\ knew' = knew /\ verdict' = verdict /\ node = "new"
          /\ \A r \in Requests : pc[r] = "none"
          /\ \A i \in DOMAIN config : found[i] = {} /\ HostsBlocked(config[i])' = HostsBlocked(config[i])
          BY <1>3, <1>4, Zenon DEF NewRouter, requestVars, IInv, Blocking, HostsBlocked
    <3>2. \A i \in DOMAIN config :
             blockedIps'[i] \subseteq config[i].match \union HostsBlocked(config[i])
          BY <2>1, <2>2, Zenon DEF IInv, TypeOK, Blocking
    <3> QED BY <1>3, <3>1, <3>2, Zenon DEF IInv, Blocking
  <2>6. Routed'
    <3>1. /\ routers' = routers + 1 /\ routers \in Nat /\ node' = "new"
          /\ pc' = pc /\ \A r \in Requests : pc[r] = "none"
          BY <1>3, <1>4 DEF NewRouter, requestVars, IInv, TypeOK, Blocking
    <3>2. \A i \in 1 .. routers + 1 : Resolves(config[i])'
          BY <1>3, <1>4, <3>1 DEF NewRouter, IInv, Routed, Resolves
    <3> QED BY <3>1, <3>2, Zenon DEF Routed
  <2> QED BY <1>2, <2>4, <2>5, <2>6, Zenon DEF IInv
<1>5. CASE OpenFileClient \/ NewRouterFails \/ NewFails \/ NewDone \/ Close
  <2>1. blockedIps' = blockedIps /\ routers' = routers /\ (node' = "new" => node = "new")
        /\ node' \in {"new", "up", "failed", "closed"} /\ zip' \in {"no", "open", "closed"}
        BY <1>5, Zenon DEF OpenFileClient, NewRouterFails, NewFails, NewDone, Close, IInv, TypeOK
  <2>2. TypeOK'
        BY <1>2, <1>3, <2>1, Zenon DEF requestVars, IInv, TypeOK
  <2>3. Blocking'
        BY <1>3, <2>1, Zenon DEF requestVars, IInv, TypeOK, Blocking, HostsBlocked
  <2>4. Routed'
        BY <1>2, <1>3, <1>5, <2>1, Zenon DEF requestVars, IInv, TypeOK, Blocking, Routed, Resolves, 
           OpenFileClient, NewRouterFails, NewFails, NewDone, Close
  <2> QED BY <1>2, <2>2, <2>3, <2>4, Zenon DEF IInv
<1> QED BY <1>4, <1>5, Zenon DEF New

----------------------------------------------------------------------------
(* A router returns: the next one is asked, or the proxy is used.          *)
LEMMA ReturnsTypes ==
  ASSUME TypeOK, NEW r \in Requests, at[r] \in DOMAIN config, NEW p \in Proxies \union {"file", Nil},
         Returns(r, p)
  PROVE  /\ proxy' \in [Requests -> Proxies \union {"file", Nil}]
         /\ at' \in [Requests -> 1 .. Len(config) + 1]
         /\ pc' \in [Requests -> {"none", "route", "match", "store", "do", "done"}]
         /\ pc'[r] \in {"route", "do"} /\ proxy'[r] = p
         /\ \A s \in Requests \ {r} : pc'[s] = pc[s] /\ at'[s] = at[s] /\ proxy'[s] = proxy[s]
<1>1. Len(config) \in Nat /\ DOMAIN config = 1 .. Len(config)
      BY ConfigIsSeq, Zenon DEF TypeOK
<1> QED BY <1>1 DEF TypeOK, Returns

(* The router that a request is at has proxies that exist.                 *)
LEMMA RouterHasProxies ==
  ASSUME IInv, NEW r \in Requests, pc[r] # "none", at[r] \in DOMAIN config
  PROVE  {Router(r).yes, Router(r).no} \subseteq Proxies \union {Nil}
<1>1. at[r] \in 1 .. routers
      BY ConfigIsSeq, Zenon DEF IInv, TypeOK, Routed
<1> QED BY <1>1, Zenon DEF IInv, Routed, Resolves, Router

(* What AdpRouter's verdict does.                                          *)
LEMMA FoundTypes ==
  ASSUME IInv, NEW r \in Requests, pc[r] # "none", at[r] \in DOMAIN config,
         NEW b \in BOOLEAN, Found(r, b)
  PROVE  /\ proxy' \in [Requests -> Proxies \union {"file", Nil}]
         /\ at' \in [Requests -> 1 .. Len(config) + 1]
         /\ pc' \in [Requests -> {"none", "route", "match", "store", "do", "done"}]
         /\ verdict' \in [Requests -> {"none", "blocked", "passed"}]
         /\ found' \in [DOMAIN config -> SUBSET Hosts]
         /\ pc'[r] \in {"route", "do"} /\ proxy'[r] # "file"
         /\ verdict'[r] = (IF b THEN "blocked" ELSE "passed")
         /\ \A s \in Requests \ {r} :
              pc'[s] = pc[s] /\ at'[s] = at[s] /\ proxy'[s] = proxy[s] /\ verdict'[s] = verdict[s]
         /\ \A i \in DOMAIN config :
              found'[i] = found[i] \union (IF b /\ i = at[r] THEN {req[r].host} ELSE {})
<1> DEFINE p == IF b THEN Router(r).yes ELSE Router(r).no
<1>1. {Router(r).yes, Router(r).no} \subseteq Proxies \union {Nil}
      BY RouterHasProxies, Zenon
<1>2. p \in Proxies \union {"file", Nil} /\ p # "file" /\ Returns(r, p)
      BY <1>1, RoutersAssumption, Zenon DEF Found
<1> HIDE DEF p
<1>3. /\ proxy' \in [Requests -> Proxies \union {"file", Nil}]
      /\ at' \in [Requests -> 1 .. Len(config) + 1]
      /\ pc' \in [Requests -> {"none", "route", "match", "store", "do", "done"}]
      /\ pc'[r] \in {"route", "do"} /\ proxy'[r] = p
      /\ \A s \in Requests \ {r} : pc'[s] = pc[s] /\ at'[s] = at[s] /\ proxy'[s] = proxy[s]
      BY <1>2, ReturnsTypes, Zenon DEF IInv
<1>4. req[r].host \in Hosts
      BY Zenon DEF IInv, Routed, Request
<1>5. /\ verdict' \in [Requests -> {"none", "blocked", "passed"}]
      /\ verdict'[r] = (IF b THEN "blocked" ELSE "passed")
      /\ \A s \in Requests \ {r} : verdict'[s] = verdict[s]
      BY Zenon DEF Found, IInv, TypeOK
<1>6. /\ found' \in [DOMAIN config -> SUBSET Hosts]
      /\ \A i \in DOMAIN config :
            found'[i] = found[i] \union (IF b /\ i = at[r] THEN {req[r].host} ELSE {})
      BY <1>4, Zenon DEF Found, IInv, TypeOK
<1> QED BY <1>2, <1>3, <1>5, <1>6, Zenon

(* A verdict of a router about a host keeps what is known of the blocked   *)
(* hosts.                                                                  *)
LEMMA FoundBlocking ==
  ASSUME IInv, NEW r \in Requests, pc[r] # "none", at[r] \in DOMAIN config,
         NEW b \in BOOLEAN, Found(r, b),
         UNCHANGED nodeVars, req' = req,
         \A i \in DOMAIN config :
            /\ blockedIps[i] \subseteq blockedIps'[i]
            /\ blockedIps'[i] \subseteq config[i].match \union HostsBlocked(config[i]),
         b => req[r].host \in blockedIps'[at[r]],
         ~b => ~knew'[r],
         \A s \in Requests \ {r} : knew'[s] = knew[s]
  PROVE  Blocking'
<1>1. /\ pc'[r] \in {"route", "do"} /\ verdict'[r] = (IF b THEN "blocked" ELSE "passed")
      /\ \A s \in Requests \ {r} :
           pc'[s] = pc[s] /\ at'[s] = at[s] /\ proxy'[s] = proxy[s] /\ verdict'[s] = verdict[s]
      /\ \A i \in DOMAIN config :
           found'[i] = found[i] \union (IF b /\ i = at[r] THEN {req[r].host} ELSE {})
      BY FoundTypes, Zenon
<1>2. /\ config' = config /\ node' # "new"
      /\ \A i \in DOMAIN config : HostsBlocked(config[i])' = HostsBlocked(config[i])
      BY Zenon DEF nodeVars, IInv, Blocking, HostsBlocked
<1>3. ASSUME NEW i \in DOMAIN config
      PROVE  /\ found'[i] \subseteq blockedIps'[i]
             /\ blockedIps'[i] \subseteq config'[i].match \union HostsBlocked(config[i])'
      BY <1>1, <1>2 DEF IInv, Blocking
<1>4. ASSUME NEW s \in Requests
      PROVE  /\ pc'[s] \in {"match", "store"} => at'[s] \in DOMAIN config' /\ ~knew'[s]
             /\ pc'[s] = "store" => req'[s].host \in config'[at'[s]].match
             /\ knew'[s] => verdict'[s] # "passed"
  <2>1. CASE s = r  BY <1>1, <2>1, Zenon
  <2>2. CASE s # r  BY <1>1, <1>2, <2>2 DEF IInv, Blocking
  <2> QED BY <2>1, <2>2, Zenon
<1> QED BY <1>2, <1>3, <1>4, Zenon DEF Blocking

(* What the file client can answer.                                        *)
LEMMA AnswerType ==
  ASSUME NEW code \in Codes, NEW of \in Names, NEW ok \in BOOLEAN
  PROVE  Answer(code, of, ok) \in [code : Codes, of : Names, ok : BOOLEAN]
BY Zenon DEF Answer

(* The parts of an answer.                                                 *)
LEMMA AnswerFields ==
  \A code, of, ok :
     /\ Answer(code, of, ok).code = code /\ Answer(code, of, ok).of = of
     /\ Answer(code, of, ok).ok = ok
BY Zenon DEF Answer

(* What RoundTrip can answer: a redirect, a listing, not found, or an      *)
(* entry of the archive.                                                   *)
LEMMA RoundTripAnswers ==
  ASSUME ZipTypeOK, NEW path \in Names, NEW a \in RoundTrip(path)
  PROVE  LET opened == IF path = Root THEN Index ELSE path
         IN  \/ path = Index /\ a = Answer("301", Root, TRUE)
             \/ /\ path = Root /\ ~\E e \in entries : e.name = gz(opened)
                /\ a = Answer("200", Root, ~Encoding(path))
             \/ /\ path # Root /\ ~\E e \in entries : e.name = gz(opened)
                /\ a = Answer("404", path, TRUE)
             \/ \E e \in entries : e.name = gz(opened) /\ a = FromEntry(path, e)
BY Zenon DEF RoundTrip

(* Whatever the file client is asked, its answer has the type of one.      *)
LEMMA FileDoTypes ==
  ASSUME ZipTypeOK, NEW q \in Request
  PROVE  FileDo(q) \subseteq [code : Codes, of : Names, ok : BOOLEAN]
<1>1. q.path \in Names /\ Served(q) \in Names /\ Root \in Names
      BY NameFacts, RoutersAssumption, Zenon DEF Request, Served
<1>2. {"200", "301", "404", "500", "cut", "panic"} \subseteq Codes
      BY Zenon DEF Codes
<1>3. ASSUME NEW path \in Names, NEW a \in RoundTrip(path)
      PROVE  a \in [code : Codes, of : Names, ok : BOOLEAN]
  <2>1. (~Encoding(path)) \in BOOLEAN
        BY Zenon DEF Encoding
  <2>2. ASSUME NEW e \in entries PROVE e.of \in Names /\ (e.gz = Encoding(path)) \in BOOLEAN
        BY Zenon DEF ZipTypeOK
  <2>3. ASSUME NEW e \in entries PROVE FromEntry(path, e) \in [code : Codes, of : Names, ok : BOOLEAN]
        BY <1>2, <2>2, AnswerType, Zenon DEF FromEntry
  <2>4. /\ Answer("301", Root, TRUE) \in [code : Codes, of : Names, ok : BOOLEAN]
        /\ Answer("200", Root, ~Encoding(path)) \in [code : Codes, of : Names, ok : BOOLEAN]
        /\ Answer("404", path, TRUE) \in [code : Codes, of : Names, ok : BOOLEAN]
        BY <1>1, <1>2, <2>1, AnswerType, Zenon
  <2>5. CASE \E e \in entries : a = FromEntry(path, e)
        BY <2>3, <2>5, Zenon
  <2>6. CASE a \in {Answer("301", Root, TRUE), Answer("200", Root, ~Encoding(path)),
                    Answer("404", path, TRUE)}
        BY <2>4, <2>6, Zenon
  <2> QED BY <1>3, <2>5, <2>6, RoundTripAnswers, Zenon
<1>4. \A c \in {"301", "500", "cut", "panic"} :
         Answer(c, q.path, TRUE) \in [code : Codes, of : Names, ok : BOOLEAN]
      BY <1>1, <1>2, AnswerType, Zenon
<1>5. RoundTrip(Served(q)) \subseteq [code : Codes, of : Names, ok : BOOLEAN]
      BY <1>1, <1>3, Zenon
<1> QED BY <1>4, <1>5, Zenon DEF FileDo

(* The steps of a request.                                                 *)
LEMMA RequestInv ==
  ASSUME IInv, NEW r \in Requests, Arrive(r) \/ Handle(r) PROVE IInv'
<1>1. UNCHANGED zipVars /\ UNCHANGED nodeVars
      BY Zenon
      DEF Arrive, Handle, SkipDisabled, NoRouterLeft, NetRoute, AdpLookup, AdpMatch, AdpStore,
             DoOther, DoFile
<1>2. ZipTypeOK' /\ Packing' /\ \A q : FileRoutes(q)' <=> FileRoutes(q)
      BY <1>1, ZipKept, Zenon DEF nodeVars
<1>3. /\ config' = config /\ node' = node /\ routers' = routers /\ zip' = zip
      /\ config \in Configs /\ Len(config) \in Nat /\ DOMAIN config = 1 .. Len(config)
      /\ \A i \in DOMAIN config : HostsBlocked(config[i])' = HostsBlocked(config[i])
      BY <1>1, ConfigIsSeq, Zenon DEF nodeVars, IInv, TypeOK, HostsBlocked
<1>4. CASE Arrive(r)
  <2>1. TypeOK'   BY <1>2, <1>3, <1>4 DEF Arrive, IInv, TypeOK
  <2>2. Blocking' BY <1>3, <1>4, Zenon DEF Arrive, IInv, TypeOK, Blocking
  <2>3. Routed'   BY <1>2, <1>3, <1>4, Zenon DEF Arrive, IInv, TypeOK, Routed, Resolves
  <2> QED BY <1>2, <2>1, <2>2, <2>3, Zenon DEF IInv
<1>5. CASE SkipDisabled(r)
  <2>1. TypeOK'   BY <1>2, <1>3, <1>5 DEF SkipDisabled, Asked, IInv, TypeOK
  <2>2. Blocking' BY <1>3, <1>5, Zenon DEF SkipDisabled, Asked, IInv, TypeOK, Blocking
  <2>3. Routed'   BY <1>2, <1>3, <1>5, Zenon DEF SkipDisabled, IInv, TypeOK, Routed, Resolves
  <2> QED BY <1>2, <2>1, <2>2, <2>3, Zenon DEF IInv
<1>6. CASE NoRouterLeft(r)
  <2>1. TypeOK'   BY <1>2, <1>3, <1>6, RoutersAssumption, Zenon DEF NoRouterLeft, IInv, TypeOK
  <2>2. Blocking' BY <1>3, <1>6, Zenon DEF NoRouterLeft, IInv, TypeOK, Blocking
  <2>3. Routed'   BY <1>2, <1>3, <1>6, RoutersAssumption, Zenon
                  DEF NoRouterLeft, IInv, TypeOK, Routed, Resolves
  <2> QED BY <1>2, <2>1, <2>2, <2>3, Zenon DEF IInv
<1>7. CASE DoOther(r)
  <2>1. TypeOK'   BY <1>2, <1>3, <1>7, Zenon DEF DoOther, IInv, TypeOK
  <2>2. Blocking' BY <1>3, <1>7, Zenon DEF DoOther, IInv, TypeOK, Blocking
  <2>3. Routed'   BY <1>2, <1>3, <1>7, Zenon DEF DoOther, IInv, TypeOK, Routed, Resolves
  <2> QED BY <1>2, <2>1, <2>2, <2>3, Zenon DEF IInv
<1>8. CASE DoFile(r)
  <2>1. req[r] \in Request
        BY <1>8, Zenon DEF DoFile, IInv, Routed
  <2>2. FileDo(req[r]) \subseteq [code : Codes, of : Names, ok : BOOLEAN]
        BY <2>1, FileDoTypes, Zenon DEF IInv, TypeOK
  <2>3. TypeOK'   BY <1>2, <1>3, <1>8, <2>2, Zenon DEF DoFile, IInv, TypeOK
  <2>4. Blocking' BY <1>3, <1>8, Zenon DEF DoFile, IInv, TypeOK, Blocking
  <2>5. Routed'   BY <1>2, <1>3, <1>8, Zenon DEF DoFile, IInv, TypeOK, Routed, Resolves
  <2> QED BY <1>2, <2>3, <2>4, <2>5, Zenon DEF IInv
<1>9. CASE NetRoute(r)
  <2> DEFINE p == IF req[r].host \notin Router(r).match THEN Router(r).no
                  ELSE IF Router(r).fileTest /\ FileRoutes(req[r]) THEN "file"
                  ELSE Router(r).yes
  <2>1. at[r] \in DOMAIN config /\ pc[r] = "route"
    <3>1. at[r] <= Len(config) /\ pc[r] = "route" /\ at[r] \in 1 .. Len(config) + 1
          BY <1>9, Zenon DEF NetRoute, Asked, IInv, TypeOK
    <3> QED BY <1>3, <3>1
  <2>2. {Router(r).yes, Router(r).no} \subseteq Proxies \union {Nil}
        BY <2>1, RouterHasProxies, Zenon
  <2>3. p \in Proxies \union {"file", Nil} /\ (p = "file" => FileRoutes(req[r])) /\ Returns(r, p)
        BY <1>9, <2>2, RoutersAssumption, Zenon DEF NetRoute
  <2> HIDE DEF p
  <2>4. /\ proxy' \in [Requests -> Proxies \union {"file", Nil}]
        /\ at' \in [Requests -> 1 .. Len(config) + 1]
        /\ pc' \in [Requests -> {"none", "route", "match", "store", "do", "done"}]
        /\ pc'[r] \in {"route", "do"} /\ proxy'[r] = p
        /\ \A s \in Requests \ {r} : pc'[s] = pc[s] /\ at'[s] = at[s] /\ proxy'[s] = proxy[s]
        BY <2>1, <2>3, ReturnsTypes, Zenon DEF IInv
  <2>5. TypeOK'   BY <1>2, <1>3, <1>9, <2>4, Zenon DEF NetRoute, IInv, TypeOK
  <2>6. Blocking' BY <1>3, <1>9, <2>1, <2>4, Zenon DEF NetRoute, IInv, TypeOK, Blocking
  <2>7. Routed'   BY <1>2, <1>3, <1>9, <2>1, <2>3, <2>4, Zenon
                  DEF NetRoute, IInv, TypeOK, Routed, Resolves
  <2> QED BY <1>2, <2>5, <2>6, <2>7, Zenon DEF IInv
<1>10. CASE AdpLookup(r)
  <2>1. at[r] \in DOMAIN config /\ pc[r] = "route"
    <3>1. at[r] <= Len(config) /\ pc[r] = "route" /\ at[r] \in 1 .. Len(config) + 1
          BY <1>10, Zenon DEF AdpLookup, Asked, IInv, TypeOK
    <3> QED BY <1>3, <3>1
  <2>2. knew' \in [Requests -> BOOLEAN] /\ \A s \in Requests \ {r} : knew'[s] = knew[s]
        BY <1>10 DEF AdpLookup, IInv, TypeOK
  <2>3. CASE req[r].host \in blockedIps[at[r]]
    <3>1. Found(r, TRUE) /\ TRUE \in BOOLEAN
          BY <1>10, <2>3, Zenon DEF AdpLookup
    <3>2. TypeOK'   BY <1>2, <1>3, <1>10, <2>1, <2>2, <3>1, FoundTypes, Zenon
                    DEF AdpLookup, IInv, TypeOK
    <3>3. Blocking'
          BY <1>1, <1>10, <2>1, <2>2, <2>3, <3>1, FoundBlocking, Zenon DEF AdpLookup, IInv, Blocking
    <3>4. Routed'
      <4>1. /\ pc'[r] \in {"route", "do"} /\ proxy'[r] # "file" /\ req' = req
            /\ \A s \in Requests \ {r} : pc'[s] = pc[s] /\ proxy'[s] = proxy[s]
            BY <1>10, <2>1, <3>1, FoundTypes, Zenon DEF AdpLookup
      <4> QED BY <1>2, <1>3, <2>1, <4>1, Zenon DEF IInv, Routed, Resolves
    <3> QED BY <1>2, <3>2, <3>3, <3>4, Zenon DEF IInv
  <2>4. CASE req[r].host \notin blockedIps[at[r]]
    <3>1. ~knew'[r]
          BY <1>10, <2>1, <2>4, Zenon DEF AdpLookup, IInv, TypeOK, Blocking
    <3>2. TypeOK'   BY <1>2, <1>3, <1>10, <2>2, <2>4, Zenon DEF AdpLookup, IInv, TypeOK
    <3>3. Blocking' BY <1>3, <1>10, <2>1, <2>2, <2>4, <3>1 DEF AdpLookup, IInv, TypeOK, Blocking
    <3>4. Routed'   BY <1>2, <1>3, <1>10, <2>1, <2>4, Zenon
                    DEF AdpLookup, IInv, TypeOK, Routed, Resolves
    <3> QED BY <1>2, <3>2, <3>3, <3>4, Zenon DEF IInv
  <2> QED BY <2>3, <2>4, Zenon
<1>11. CASE AdpMatch(r)
  <2>1. pc[r] = "match" /\ at[r] \in DOMAIN config /\ ~knew[r]
        BY <1>11, Zenon DEF AdpMatch, IInv, Blocking
  <2>2. CASE Found(r, FALSE)
    <3>1. FALSE \in BOOLEAN
          BY Zenon
    <3>2. TypeOK'   BY <1>2, <1>3, <1>11, <2>1, <2>2, <3>1, FoundTypes, Zenon
                    DEF AdpMatch, IInv, TypeOK
    <3>3. Blocking'
          BY <1>1, <1>11, <2>1, <2>2, <3>1, FoundBlocking, Zenon DEF AdpMatch, IInv, Blocking
    <3>4. Routed'
      <4>1. /\ pc'[r] \in {"route", "do"} /\ proxy'[r] # "file" /\ req' = req
            /\ \A s \in Requests \ {r} : pc'[s] = pc[s] /\ proxy'[s] = proxy[s]
            BY <1>11, <2>1, <2>2, <3>1, FoundTypes, Zenon DEF AdpMatch
      <4> QED BY <1>2, <1>3, <2>1, <4>1, Zenon DEF IInv, Routed, Resolves
    <3> QED BY <1>2, <3>2, <3>3, <3>4, Zenon DEF IInv
  <2>3. CASE /\ req[r].host \in Router(r).match
             /\ pc' = [pc EXCEPT ![r] = "store"]
             /\ UNCHANGED <<at, proxy, verdict, found>>
    <3>1. TypeOK'   BY <1>2, <1>3, <1>11, <2>3, Zenon DEF AdpMatch, IInv, TypeOK
    <3>2. Blocking' BY <1>3, <1>11, <2>1, <2>3, Zenon DEF AdpMatch, IInv, TypeOK, Blocking, Router
    <3>3. Routed'   BY <1>2, <1>3, <1>11, <2>1, <2>3, Zenon
                    DEF AdpMatch, IInv, TypeOK, Routed, Resolves
    <3> QED BY <1>2, <3>1, <3>2, <3>3, Zenon DEF IInv
  <2> QED BY <1>11, <2>2, <2>3, Zenon DEF AdpMatch
<1>12. CASE AdpStore(r)
  <2>1. pc[r] = "store" /\ at[r] \in DOMAIN config /\ ~knew[r] /\ req[r].host \in config[at[r]].match
        BY <1>12, Zenon DEF AdpStore, IInv, Blocking
  <2>2. Found(r, TRUE) /\ TRUE \in BOOLEAN
        BY <1>12, Zenon DEF AdpStore
  <2>3. req[r].host \in Hosts
        BY <2>1, Zenon DEF IInv, Routed, Request
  <2>4. TypeOK'   BY <1>2, <1>3, <1>12, <2>1, <2>2, <2>3, FoundTypes, Zenon
                  DEF AdpStore, IInv, TypeOK
  <2>5. Blocking'
    <3>1. \A i \in DOMAIN config :
             /\ blockedIps[i] \subseteq blockedIps'[i]
             /\ blockedIps'[i] \subseteq config[i].match \union HostsBlocked(config[i])
          BY <1>12, <2>1, Zenon DEF AdpStore, IInv, TypeOK, Blocking
    <3>2. req[r].host \in blockedIps'[at[r]] /\ knew' = knew /\ req' = req
          BY <1>12, <2>1, Zenon DEF AdpStore, IInv, TypeOK
    <3> QED BY <1>1, <2>1, <2>2, <3>1, <3>2, FoundBlocking, Zenon
  <2>6. Routed'
    <3>1. /\ pc'[r] \in {"route", "do"} /\ proxy'[r] # "file" /\ req' = req
          /\ \A s \in Requests \ {r} : pc'[s] = pc[s] /\ proxy'[s] = proxy[s]
          BY <1>12, <2>1, <2>2, FoundTypes, Zenon DEF AdpStore
    <3> QED BY <1>2, <1>3, <2>1, <3>1, Zenon DEF IInv, Routed, Resolves
  <2> QED BY <1>2, <2>4, <2>5, <2>6, Zenon DEF IInv
<1> QED BY <1>4, <1>5, <1>6, <1>7, <1>8, <1>9, <1>10, <1>11, <1>12, Zenon DEF Handle

----------------------------------------------------------------------------
(* IInv is an invariant of the node, its routers and its archive.          *)
THEOREM RoutersInvariance == Spec => []IInv
<1>1. ASSUME IInv, [Next]_vars PROVE IInv'
  <2>1. CASE Packs  BY <1>1, <2>1, PacksInv, Zenon
  <2>2. CASE New \/ Close  BY <1>1, <2>2, NodeInv, Zenon
  <2>3. CASE \E r \in Requests : Arrive(r) \/ Handle(r)  BY <1>1, <2>3, RequestInv, Zenon
  <2>4. CASE UNCHANGED vars
    <3>1. /\ ZipTypeOK' /\ Packing' /\ \A q : FileRoutes(q)' <=> FileRoutes(q)
          BY <1>1, <2>4, ZipKept, Zenon DEF vars, nodeVars
    <3>2. TypeOK'   BY <1>1, <2>4, <3>1, Zenon DEF vars, nodeVars, requestVars, IInv, TypeOK
    <3>3. Blocking' BY <1>1, <2>4, Zenon
                    DEF vars, nodeVars, requestVars, IInv, Blocking, HostsBlocked
    <3>4. Routed'   BY <1>1, <2>4, <3>1, Zenon
                    DEF vars, nodeVars, requestVars, IInv, Routed, Resolves
    <3> QED BY <3>1, <3>2, <3>3, <3>4, Zenon DEF IInv
  <2> QED BY <1>1, <2>1, <2>2, <2>3, <2>4, Zenon DEF Next
<1> QED BY <1>1, InitInv, PTL DEF Spec

(* Types.                                                                  *)
THEOREM RoutersTypes == Spec => []TypeOK
BY RoutersInvariance, PTL DEF IInv

(* A node that has opened an archive has opened a whole one, for any       *)
(* directory and whatever runs of hybrid-zip failed before.                *)
THEOREM OpenedArchivesAreWhole == Spec => []OpenedIsWhole
<1>1. IInv => OpenedIsWhole
      BY Zenon DEF IInv, Packing, OpenedIsWhole, EntriesOf, RawOf
<1> QED BY <1>1, RoutersInvariance, PTL

(* What AdpRouter has found blocked stays so, for any number of concurrent *)
(* requests.                                                               *)
THEOREM BlockedHostsStay == Spec => []BlockedStays
<1>1. IInv => BlockedStays
      BY Zenon DEF IInv, Blocking, BlockedStays
<1> QED BY <1>1, RoutersInvariance, PTL

(* AdpRouter blocks by its rules only.                                     *)
THEOREM BlockedByRule == Spec => []BlockedIsRuled
<1>1. IInv => BlockedIsRuled
      BY Zenon DEF IInv, Blocking, BlockedIsRuled
<1> QED BY <1>1, RoutersInvariance, PTL

----------------------------------------------------------------------------
(* What the file client may have answered, before or after a Close.        *)
Answers(q) ==
  IF q.path \in Redirect
  THEN {Answer(c, q.path, TRUE) : c \in {"301", "panic"}}
  ELSE RoundTrip(Served(q)) \union {Answer(c, q.path, TRUE) : c \in {"500", "cut"}}

Serving ==
  \A r \in Requests :
     IF pc[r] = "done" /\ proxy[r] = "file" THEN answer[r] \in Answers(req[r])
                                           ELSE answer[r] = NoAnswer

(* Answers depend on nothing but the archive.                              *)
LEMMA AnswersKept ==
  ASSUME UNCHANGED zipVars PROVE \A q : Answers(q)' = Answers(q)
<1>1. entries' = entries /\ meta' = meta
      BY Zenon DEF zipVars
<1> QED BY <1>1 DEF Answers, RoundTrip, FromEntry, Encoding, gz, IsRaw, Served

(* The archive does not change once there are requests.                    *)
LEMMA ServingKept ==
  ASSUME IInv, Serving, [Next]_vars PROVE Serving'
<1>1. CASE Packs
  <2>1. \A r \in Requests : pc[r] = "none" /\ pc' = pc /\ answer' = answer
        BY <1>1, Zenon DEF Packs, IInv, Routed, requestVars
  <2> QED BY <2>1, Zenon DEF Serving, NoAnswer, Answer, Root
<1>2. CASE New \/ Close \/ UNCHANGED vars
  <2>1. UNCHANGED zipVars /\ UNCHANGED requestVars
        BY <1>2, Zenon
        DEF New, Close, OpenFileClient, NewRouter, NewRouterFails, NewFails, NewDone, vars
  <2>2. \A q : Answers(q)' = Answers(q)
        BY <2>1, AnswersKept, Zenon
  <2> QED BY <2>1, <2>2, Zenon DEF Serving, requestVars, NoAnswer, Answer, Root
<1>3. ASSUME NEW r \in Requests, Arrive(r) \/ Handle(r) PROVE Serving'
  <2>1. UNCHANGED zipVars
        BY <1>3, Zenon
        DEF Arrive, Handle, SkipDisabled, NoRouterLeft, NetRoute, AdpLookup, AdpMatch,
                    AdpStore, DoOther, DoFile
  <2>2. \A q : Answers(q)' = Answers(q)
        BY <2>1, AnswersKept, Zenon
  <2>3. NoAnswer' = NoAnswer
        BY Zenon DEF NoAnswer, Answer, Root
  <2>4. ASSUME NEW s \in Requests, s # r
        PROVE  pc'[s] = pc[s] /\ proxy'[s] = proxy[s] /\ answer'[s] = answer[s] /\ req'[s] = req[s]
        BY <1>3, <2>4 DEF Arrive, Handle, SkipDisabled, NoRouterLeft, NetRoute, AdpLookup, AdpMatch,
                    AdpStore, DoOther, DoFile, Found, Returns, IInv, TypeOK
  <2>5. CASE DoFile(r)
    <3>1. answer'[r] \in FileDo(req[r]) /\ pc'[r] = "done" /\ proxy'[r] = "file" /\ req' = req
          BY <2>5, Zenon DEF DoFile, IInv, TypeOK
    <3>2. FileDo(req[r]) \subseteq Answers(req[r])
          BY Zenon DEF FileDo, Answers
    <3> QED BY <2>2, <2>3, <2>4, <3>1, <3>2, Zenon DEF Serving
  <2>6. CASE DoOther(r)
    <3>1. answer'[r] = NoAnswer /\ proxy'[r] # "file"
          BY <2>6, Zenon DEF DoOther, Serving
    <3> QED BY <2>2, <2>3, <2>4, <3>1, Zenon DEF Serving
  <2>7. CASE ~DoFile(r) /\ ~DoOther(r)
    <3>1. answer' = answer /\ pc[r] # "done" /\ pc'[r] # "done"
          BY <1>3, <2>7, Zenon
          DEF Arrive, Handle, SkipDisabled, NoRouterLeft, NetRoute, AdpLookup, AdpMatch,
                    AdpStore, Asked, Found, Returns, IInv, TypeOK
    <3>2. answer'[r] = NoAnswer BY <3>1, Zenon DEF Serving
    <3> QED BY <2>2, <2>3, <2>4, <3>1, <3>2, Zenon DEF Serving
  <2> QED BY <2>5, <2>6, <2>7, Zenon
<1> QED BY <1>1, <1>2, <1>3, Zenon DEF Next

(* Every answer given is one that FileDo gives for its request.            *)
LEMMA ServingInvariance == Spec => []Serving
<1>1. Init => Serving
      BY Zenon DEF Init, Serving
<1> QED BY <1>1, ServingKept, RoutersInvariance, PTL DEF Spec

(* A name is that of one file, and says with ContentInfo.toml how the file *)
(* is stored.                                                              *)
LEMMA StoredFiles ==
  ASSUME IInv, zip # "no"
  PROVE  /\ \A f \in PackedFiles :
              f.name \in Names /\ f.name # Root /\ (IsRaw(f.name) <=> ~Compressed(f))
         /\ \A f, g \in PackedFiles : f.name = g.name => f = g
         /\ \A e \in entries : \E f \in PackedFiles : e = Entry(f)
         /\ \A f \in PackedFiles : Entry(f) \in entries
         /\ ~IsRaw(Root)
<1>1. dir \in Dirs
      BY Zenon DEF IInv, TypeOK, ZipTypeOK
<1>2. entries = EntriesOf(PackedFiles) /\ meta = RawOf(PackedFiles)
      BY Zenon DEF IInv, Packing
<1>3. ASSUME NEW f \in PackedFiles PROVE f.name \in Names /\ f.name # Root
      BY <1>1, DirIsSeq, ZipFsAssumption, Zenon DEF PackedFiles
<1>4. ASSUME NEW f \in PackedFiles, NEW g \in PackedFiles, f.name = g.name PROVE f = g
      BY <1>1, <1>4, DirIsSeq, ZipFsAssumption, Zenon DEF PackedFiles
<1>5. ASSUME NEW f \in PackedFiles PROVE IsRaw(f.name) <=> ~Compressed(f)
      BY <1>2, <1>4, Zenon DEF IsRaw, RawOf
<1>6. ~IsRaw(Root)
      BY <1>2, <1>3, Zenon DEF IsRaw, RawOf
<1> QED BY <1>2, <1>3, <1>4, <1>5, <1>6, Zenon DEF EntriesOf

(* A request that the file client has answered, and the answer.            *)
LEMMA AnsweredRequest ==
  ASSUME IInv, Serving, NEW r \in Requests, answer[r] # NoAnswer
  PROVE  /\ req[r] \in Request /\ req[r].path \in Names /\ zip # "no"
         /\ Served(req[r]) \in Names \ {Index}
         /\ answer[r] \in Answers(req[r]) /\ FileRoutes(req[r])
<1>1. pc[r] = "done" /\ proxy[r] = "file" /\ answer[r] \in Answers(req[r])
      BY Zenon DEF Serving
<1>2. req[r] \in Request /\ zip # "no" /\ FileRoutes(req[r])
      BY <1>1, Zenon DEF IInv, Routed
<1>3. req[r].path \in Names
      BY <1>2, RoutersAssumption, Zenon DEF Request
<1> QED BY <1>1, <1>2, <1>3, NameFacts, Zenon DEF Served

(* What the file client answers is what was packed, for any directory.     *)
THEOREM FilesAreServedRight == Spec => []ServedRight
<1>1. ASSUME IInv, Serving PROVE ServedRight
  <2> SUFFICES ASSUME NEW r \in Requests,
                      NEW path, path = Served(req[r]),
                      NEW asked, asked = (IF path = Root THEN Index ELSE path),
                      answer[r].code = "200", StoredAlone(asked),
                      path = Root => \E f \in PackedFiles : f.name = Index /\ Compressed(f)
               PROVE  answer[r].of = asked /\ answer[r].ok
      BY Zenon DEF ServedRight
  <2>1. answer[r] # NoAnswer
        BY SMTT(20) DEF NoAnswer, Answer
  <2>2. /\ zip # "no" /\ path \in Names /\ path # Index /\ answer[r] \in Answers(req[r])
        BY <1>1, <2>1, AnsweredRequest, Zenon
  <2>3. answer[r] \in RoundTrip(path)
    <3>1. \A c \in {"301", "panic", "500", "cut"} : answer[r] # Answer(c, req[r].path, TRUE)
          BY DEF Answer
    <3> QED BY <2>2, <3>1, Zenon DEF Answers
  <2>4. ~(path = Root /\ ~\E e \in entries : e.name = gz(asked))
    <3>1. SUFFICES ASSUME path = Root PROVE \E e \in entries : e.name = gz(asked)
          BY Zenon
    <3>2. PICK f \in PackedFiles : f.name = Index /\ Compressed(f)
          BY <3>1, Zenon
    <3>3. Entry(f) \in entries /\ ~IsRaw(Index)
          BY <1>1, <2>2, <3>2, StoredFiles, Zenon
    <3> QED BY <3>1, <3>2, <3>3, Zenon DEF gz, Entry
  <2>5. ZipTypeOK
        BY <1>1, Zenon DEF IInv, TypeOK
  <2>6. PICK e \in entries : e.name = gz(asked) /\ answer[r] = FromEntry(path, e)
    <3>1. answer[r].code # "301" /\ answer[r].code # "404" BY SMT, Zenon
    <3>2. answer[r] # Answer("301", Root, TRUE) /\ answer[r] # Answer("404", path, TRUE)
          BY <3>1 DEF Answer
    <3> QED BY <2>2, <2>3, <2>4, <2>5, <3>2, RoundTripAnswers, Zenon
  <2>7. PICK f \in PackedFiles : e = Entry(f)
        BY <1>1, <2>2, StoredFiles, Zenon
  <2>8. f.name = asked
        BY <2>6, <2>7, Zenon DEF gz, StoredAlone
  <2>9. e.of = asked /\ (e.gz <=> Compressed(f))
        BY <2>7, <2>8, Zenon DEF Entry
  <2>10. Compressed(f) <=> Encoding(path)
    <3>1. CASE path = Root
      <4>1. ~IsRaw(path) BY <1>1, <2>2, <3>1, StoredFiles, Zenon
      <4>2. Compressed(f) BY <1>1, <2>2, <2>8, <3>1, StoredFiles, Zenon
      <4> QED BY <4>1, <4>2, Zenon DEF Encoding
    <3>2. CASE path # Root
          BY <1>1, <2>2, <2>8, <3>2, StoredFiles, Zenon DEF Encoding
    <3> QED BY <3>1, <3>2, Zenon
  <2>11. answer[r].of = e.of /\ answer[r].ok = (e.gz = Encoding(path))
    <3>1. PICK ok : ok = (e.gz = Encoding(path)) /\ answer[r] = Answer("200", e.of, ok)
          BY <2>6, Zenon DEF FromEntry
    <3>2. answer[r].of = e.of /\ answer[r].ok = ok
          BY <3>1, AnswerFields
    <3> QED BY <3>1, <3>2, Zenon
  <2>12. e.gz = Encoding(path)
    <3>1. e.gz = Compressed(f) BY <2>7, Zenon DEF Entry
    <3>2. Compressed(f) = Encoding(path) BY <2>10, Zenon DEF Compressed, Encoding
    <3> QED BY <3>1, <3>2, Zenon
  <2> QED BY <2>9, <2>11, <2>12, Zenon
<1> QED BY <1>1, RoutersInvariance, ServingInvariance, PTL

(* Route's test and Do agree, for any directory and any redirects.         *)
THEOREM FileClientsAnswer == Spec => []FileClientAnswers
<1>1. ASSUME IInv, Serving PROVE FileClientAnswers
  <2> SUFFICES ASSUME NEW r \in Requests, proxy[r] = "file", pc[r] = "done"
               PROVE  /\ answer[r].code = "404" =>
                            \E i \in DOMAIN dir : Compressed(dir[i]) /\ Gz(dir[i].name) = req[r].path
                      /\ answer[r].code = "301" => req[r].path \in Redirect
      BY Zenon DEF FileClientAnswers
  <2> DEFINE path == Served(req[r])
  <2>0. ASSUME req[r].path \in Redirect PROVE answer[r].code # "404"
    <3>1. PICK c \in {"301", "panic"} : answer[r] = Answer(c, req[r].path, TRUE)
          BY <1>1, <2>0, Zenon DEF Serving, Answers
    <3> QED BY <3>1 DEF Answer
  <2>1. SUFFICES ASSUME answer[r].code \in {"404", "301"}, req[r].path \notin Redirect
                 PROVE  /\ answer[r].code = "404"
                        /\ \E i \in DOMAIN dir : Compressed(dir[i]) /\ Gz(dir[i].name) = req[r].path
        BY <2>0, Zenon
  <2>2. answer[r] # NoAnswer
        BY <2>1, SMTT(20) DEF NoAnswer, Answer
  <2>3. /\ zip # "no" /\ path \in Names /\ path # Index /\ req[r].path \in Names
        /\ answer[r] \in Answers(req[r]) /\ CanRequest(req[r].path)
        BY <1>1, <2>1, <2>2, AnsweredRequest, Zenon DEF FileRoutes
  <2>4. answer[r] \in RoundTrip(path)
    <3>1. \A c \in {"500", "cut"} : answer[r] # Answer(c, req[r].path, TRUE)
          BY <2>1 DEF Answer
    <3> QED BY <2>1, <2>3, <3>1, Zenon DEF Answers
  <2>5. ZipTypeOK
        BY <1>1, Zenon DEF IInv, TypeOK
  <2> HIDE DEF path
  <2>6. path # Root /\ answer[r].code = "404" /\ ~\E e \in entries : e.name = gz(path)
    <3>1. answer[r].code # "200"
          BY <2>1, Zenon
    <3>2. /\ answer[r] # Answer("200", Root, ~Encoding(path))
          /\ \A e \in entries : answer[r] # FromEntry(path, e)
          BY <3>1, AnswerFields DEF FromEntry
    <3>3. /\ path # Root /\ ~\E e \in entries : e.name = gz(path)
          /\ answer[r] = Answer("404", path, TRUE)
          BY <2>3, <2>4, <2>5, <3>2, RoundTripAnswers, Zenon
    <3> QED BY <3>3 DEF Answer
  <2>7. req[r].path = path
        BY <2>6, Zenon DEF path, Served
  <2>8. gz(path) # Root
        BY <2>3, <2>6, NameFacts, Zenon DEF gz
  <2>9. PICK e \in entries : e.name = path
        BY <2>3, <2>6, <2>7, <2>8, Zenon DEF CanRequest, Exists
  <2>10. PICK f \in PackedFiles : e = Entry(f)
        BY <1>1, <2>3, StoredFiles, Zenon
  <2>11. Compressed(f)
    <3>1. SUFFICES ASSUME ~Compressed(f) PROVE FALSE
          BY Zenon
    <3>2. f.name = path BY <2>9, <2>10, <3>1, Zenon DEF Entry
    <3>3. IsRaw(path) BY <1>1, <2>3, <3>1, <3>2, StoredFiles, Zenon
    <3> QED BY <2>6, <2>9, <3>3, Zenon DEF gz
  <2>12. Gz(f.name) = path
        BY <2>9, <2>10, <2>11, Zenon DEF Entry
  <2> QED BY <2>6, <2>7, <2>11, <2>12, Zenon DEF PackedFiles
<1> QED BY <1>1, RoutersInvariance, ServingInvariance, PTL
============================================================================
