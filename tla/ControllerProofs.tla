-------------------------- MODULE ControllerProofs --------------------------
(***************************************************************************)
(* Proofs about how a controller gets its keys and its configuration, for  *)
(* any values of the constants.                                            *)
(***************************************************************************)
EXTENDS JoinCluster, ConfigPipeline, TLAPS

\* Zenon is the prover, and SMT that of the leaves that name it.
USE ZenonT(60)

-----------------------------------------------------------------------------
(***************************************************************************)
(* The keys of the controllers belong together (cmd/controller).  The      *)
(* inductive invariant says how far each controller has got with its       *)
(* files, where a crash may leave it, and that nobody has keys of the      *)
(* first controller before these are complete.                             *)
(***************************************************************************)

Keys == (Nodes \cup {"no key"}) \X Nat

FoundingPhases == {"off", "ca", "ca made", "sa", "sa made", "leaf", "up"}
JoiningPhases == {"off", "asking", "ca", "sa", "sa made", "leaf", "up"} \cup PkiFiles
WorkerPhases == {"off", "bootstrapping", "bootstrapped", "failed", "up"}

JoinTypes ==
    /\ jcPhase \in [Nodes -> FoundingPhases \cup JoiningPhases \cup WorkerPhases]
    /\ DOMAIN jcHeld = Nodes /\ jcHeld[First] = 0
    /\ jcFiles \in [Controllers -> [PkiFiles -> Keys]]
    /\ jcGot \in [Nodes -> [PkiFiles -> Keys]]
    /\ jcMade \in Nat
    /\ DOMAIN jcLeaf = Controllers
    /\ DOMAIN jcData = Nodes

HasCA(n) == jcFiles[n]["ca.key"] # NoKey /\ jcFiles[n]["ca.crt"] # NoKey
Complete(n) == \A f \in PkiFiles : jcFiles[n][f] # NoKey

\* A key comes before what is made from it, and a certificate is made from its key.
Pairs(n) ==
    /\ jcFiles[n]["ca.crt"] # NoKey => jcFiles[n]["ca.key"] = jcFiles[n]["ca.crt"]
    /\ jcFiles[n]["sa.pub"] # NoKey => jcFiles[n]["sa.key"] = jcFiles[n]["sa.pub"]

\* The first controller makes its own keys, once.
Founding ==
    /\ jcPhase[First] \in FoundingPhases
    /\ Pairs(First)
    /\ jcPhase[First] = "ca made" => jcFiles[First]["ca.key"] # NoKey /\ jcFiles[First]["ca.crt"] = NoKey
    /\ jcPhase[First] = "sa made" => jcFiles[First]["sa.key"] # NoKey /\ jcFiles[First]["sa.pub"] = NoKey
    /\ jcPhase[First] \in {"sa", "sa made", "leaf", "up"} => HasCA(First)
    /\ jcPhase[First] \in {"leaf", "up"} => Complete(First)

\* What a joining controller has on its disk, whatever it is doing: files of the first
\* one, and, unless etcd tells whether it has joined, perhaps service account keys of
\* its own.
Copies(n) ==
    /\ \A f \in PkiFiles : jcFiles[n][f] # NoKey => Complete(First)
    /\ \A f \in {"ca.key", "ca.crt"} : jcFiles[n][f] \in {NoKey, jcFiles[First][f]}
    /\ jcFiles[n]["ca.crt"] # NoKey => jcFiles[n]["ca.key"] # NoKey
    /\ jcStorage = "etcd" =>
         /\ \A f \in PkiFiles : jcFiles[n][f] \in {NoKey, jcFiles[First][f]}
         /\ jcData[n] => Complete(n)
    /\ jcStorage # "etcd" =>
         /\ jcFiles[n]["sa.pub"] # NoKey => jcFiles[n]["sa.key"] = jcFiles[n]["sa.pub"]
         /\ jcFiles[n]["sa.key"] # NoKey => HasCA(n)

\* How far it has got.
Joining(n) ==
    /\ jcPhase[n] \in JoiningPhases
    /\ jcPhase[n] \in PkiFiles => Complete(First) /\ jcGot[n] = jcFiles[First]
    /\ jcPhase[n] \in {"ca.crt", "sa.key", "sa.pub"} => jcFiles[n]["ca.key"] # NoKey
    /\ jcPhase[n] \in {"sa.key", "sa.pub", "ca", "sa", "sa made", "leaf", "up"} => HasCA(n)
    /\ jcPhase[n] = "sa.pub" => jcFiles[n]["sa.key"] = jcFiles[First]["sa.key"]
    /\ jcPhase[n] = "sa made" => jcFiles[n]["sa.key"] # NoKey /\ jcFiles[n]["sa.pub"] = NoKey
    /\ jcPhase[n] \in {"leaf", "up"} => Complete(n)
    /\ jcStorage = "etcd" /\ jcPhase[n] \in {"ca", "sa", "sa made", "leaf", "up"} => Complete(n)
    /\ jcStorage # "etcd" =>
         /\ jcPhase[n] \in {"asking", "ca.key", "ca.crt"} => jcFiles[n]["ca.crt"] = NoKey
         /\ jcPhase[n] = "sa.key" => jcFiles[n]["sa.key"] = NoKey
         /\ jcPhase[n] = "sa.pub" => jcFiles[n]["sa.pub"] = NoKey

Leaves == \A n \in Controllers : jcPhase[n] = "up" => jcLeaf[n] = jcFiles[n]["ca.key"]

JoinInv ==
    /\ JoinTypes
    /\ Founding
    /\ \A n \in Joiners : Copies(n) /\ Joining(n)
    /\ Leaves

-----------------------------------------------------------------------------
(***************************************************************************)
(* Initially nobody has any keys (JcInit).                                 *)
(***************************************************************************)
LEMMA JoinInvInit == JcInit => JoinInv
<1> SUFFICES ASSUME JcInit PROVE JoinInv
  OBVIOUS
<1>1. JoinTypes
  BY DEF JcInit, JoinTypes, Keys, NoKey, Nodes, Controllers, FoundingPhases
<1>2. Founding
  BY DEF JcInit, Founding, FoundingPhases, Pairs, HasCA, Complete, Nodes, Controllers, PkiFiles
<1>3. ASSUME NEW n \in Joiners PROVE Copies(n) /\ Joining(n)
  BY <1>3 DEF JcInit, Copies, Joining, JoiningPhases, HasCA, Complete, Nodes, Controllers, PkiFiles
<1>4. Leaves
  BY DEF JcInit, Leaves, Nodes, Controllers
<1> QED
  BY <1>1, <1>2, <1>3, <1>4 DEF JoinInv

(***************************************************************************)
(* Tokens are created, invalidated and handed out, and workers start,      *)
(* without touching what controllers have (CreateToken to RemoveBootstrap).*)
(***************************************************************************)
LEMMA OthersKeep ==
    ASSUME JoinInv,
           jcFiles' = jcFiles, jcStorage' = jcStorage, jcGot' = jcGot, jcMade' = jcMade,
           jcLeaf' = jcLeaf, DOMAIN jcHeld' = Nodes, jcHeld'[First] = 0, DOMAIN jcData' = Nodes,
           jcPhase' \in [Nodes -> FoundingPhases \cup JoiningPhases \cup WorkerPhases],
           \A n \in Controllers : jcPhase'[n] = jcPhase[n] /\ jcData'[n] = jcData[n]
    PROVE  JoinInv'
<1>1. JoinTypes'
  BY DEF JoinInv, JoinTypes
<1>2. Founding'
  BY DEF JoinInv, Founding, Pairs, HasCA, Complete, Controllers
<1>3. ASSUME NEW n \in Joiners PROVE Copies(n)'
  BY <1>3 DEF JoinInv, Copies, HasCA, Complete, Controllers
<1>4. ASSUME NEW n \in Joiners PROVE Joining(n)'
  BY <1>4 DEF JoinInv, Joining, HasCA, Complete, Controllers
<1>5. Leaves'
  BY DEF JoinInv, Leaves, Controllers
<1> QED
  BY <1>1, <1>2, <1>3, <1>4, <1>5 DEF JoinInv

(***************************************************************************)
(* A controller that starts and need not join has what it needs of the     *)
(* cluster's keys (needToJoin).                                            *)
(***************************************************************************)
LEMMA StartControllerKeeps ==
    ASSUME JoinInv, NEW n \in Controllers, StartController(n) PROVE JoinInv'
<1> USE DEF StartController, GoOn, jcSecrets, jcDisk, jcVars
<1>1. JoinTypes'
  BY DEF JoinInv, JoinTypes, Nodes, FoundingPhases, JoiningPhases
<1>2. Founding'
  BY JoinAssumption DEF JoinInv, JoinTypes, Founding, FoundingPhases, Pairs, HasCA, Complete, Nodes, Controllers
<1>3. ASSUME NEW m \in Joiners PROVE Copies(m)'
  BY <1>3 DEF JoinInv, Copies, HasCA, Complete
<1>4. ASSUME NEW m \in Joiners PROVE Joining(m)'
  <2>1. CASE m = n
    BY <1>4, <2>1, JoinAssumption DEF JoinInv, JoinTypes, Joining, Copies, JoiningPhases, NeedToJoin,
       HasCA, Complete, Nodes, Controllers, PkiFiles
  <2>2. CASE m # n
    BY <1>4, <2>2 DEF JoinInv, JoinTypes, Joining, HasCA, Complete, Nodes, Controllers
  <2> QED
    BY <2>1, <2>2
<1>5. Leaves'
  BY DEF JoinInv, JoinTypes, Leaves, Nodes
<1> QED
  BY <1>1, <1>2, <1>3, <1>4, <1>5 DEF JoinInv

(***************************************************************************)
(* The first controller answers when it is up, and then it is complete.    *)
(***************************************************************************)
LEMMA JoinControllerKeeps ==
    ASSUME JoinInv, NEW n \in Controllers, JoinController(n) PROVE JoinInv'
<1> USE DEF JoinController, GoOn, GetCA, CaHandler, jcSecrets, jcDisk
<1>0. n \in Joiners /\ n # First
  BY JoinAssumption DEF JoinInv, Founding, FoundingPhases, Controllers
<1>1. JoinTypes'
  BY <1>0 DEF JoinInv, JoinTypes, Nodes, Controllers, FoundingPhases, JoiningPhases, PkiFiles
<1>2. Founding'
  BY <1>0 DEF JoinInv, JoinTypes, Founding, Pairs, HasCA, Complete, Nodes, Controllers
<1>3. ASSUME NEW m \in Joiners PROVE Copies(m)'
  BY <1>3 DEF JoinInv, Copies, HasCA, Complete
<1>4. ASSUME NEW m \in Joiners PROVE Joining(m)'
  <2>1. CASE m = n
    BY <1>4, <2>1, JoinAssumption DEF JoinInv, JoinTypes, Joining, JoiningPhases,
       HasCA, Complete, Nodes, Controllers, PkiFiles
  <2>2. CASE m # n
    BY <1>4, <2>2 DEF JoinInv, JoinTypes, Joining, HasCA, Complete, Nodes, Controllers
  <2> QED
    BY <2>1, <2>2
<1>5. Leaves'
  BY DEF JoinInv, JoinTypes, Leaves, Nodes
<1> QED
  BY <1>1, <1>2, <1>3, <1>4, <1>5 DEF JoinInv

(***************************************************************************)
(* A joining controller writes the files it has got, one by one            *)
(* (writeCerts).                                                           *)
(***************************************************************************)
LEMMA WriteCertsKeeps ==
    ASSUME JoinInv, NEW n \in Controllers, WriteCerts(n) PROVE JoinInv'
<1>0. n \in Joiners /\ n # First /\ jcPhase[n] \in PkiFiles
  BY JoinAssumption DEF WriteCerts, JoinInv, Founding, FoundingPhases, Controllers, PkiFiles
<1>s. /\ jcStorage' = jcStorage /\ jcGot' = jcGot /\ jcData' = jcData /\ jcLeaf' = jcLeaf
      /\ jcHeld' = jcHeld /\ jcMade' = jcMade
  BY DEF WriteCerts, jcSecrets
<1>b. jcGot[n] = jcFiles[First] /\ Complete(First)
  BY <1>0 DEF JoinInv, Joining
<1>c. /\ jcFiles'[n] = [jcFiles[n] EXCEPT ![jcPhase[n]] = jcFiles[First][jcPhase[n]]]
      /\ DOMAIN jcFiles[n] = PkiFiles
      /\ \A m \in Controllers : m # n => jcFiles'[m] = jcFiles[m]
      /\ DOMAIN jcFiles' = Controllers
  BY <1>0, <1>b DEF WriteCerts, JoinInv, JoinTypes, Controllers
<1>p. /\ jcPhase[n] = "ca.key" => jcPhase'[n] = "ca.crt"
      /\ jcPhase[n] = "ca.crt" => jcPhase'[n] = "sa.key"
      /\ jcPhase[n] = "sa.key" => jcPhase'[n] = "sa.pub"
      /\ jcPhase[n] = "sa.pub" => jcPhase'[n] = "ca"
      /\ \A m \in Nodes : m # n => jcPhase'[m] = jcPhase[m]
      /\ DOMAIN jcPhase' = Nodes
  BY <1>0 DEF WriteCerts, GoOn, JoinInv, JoinTypes, Nodes, Controllers
<1>q. jcPhase' = [m \in Nodes |-> jcPhase'[m]] /\ jcFiles' = [m \in Controllers |-> jcFiles'[m]]
  BY <1>0 DEF WriteCerts, GoOn, JoinInv, JoinTypes
<1>1. JoinTypes'
  <2>1. jcPhase' \in [Nodes -> FoundingPhases \cup JoiningPhases \cup WorkerPhases]
    BY <1>0, <1>p, <1>q DEF JoinInv, JoinTypes, FoundingPhases, JoiningPhases, PkiFiles
  <2>2. jcFiles'[n] \in [PkiFiles -> Keys]
    BY SMTT(30), <1>0, <1>c DEF JoinInv, JoinTypes, Controllers
  <2>3. jcFiles' \in [Controllers -> [PkiFiles -> Keys]]
    BY <1>0, <1>c, <1>q, <2>2 DEF JoinInv, JoinTypes
  <2> QED
    BY <1>s, <2>1, <2>3 DEF JoinInv, JoinTypes
<1>a. jcFiles'[First] = jcFiles[First] /\ jcPhase'[First] = jcPhase[First]
  BY <1>0, <1>c, <1>p DEF Nodes, Controllers
<1>2. Founding'
  BY <1>s, <1>a DEF JoinInv, Founding, Pairs, HasCA, Complete
<1>3. ASSUME NEW m \in Joiners, m # n PROVE (Copies(m) /\ Joining(m))'
  <2>1. jcFiles'[m] = jcFiles[m] /\ jcPhase'[m] = jcPhase[m]
    BY <1>3, <1>c, <1>p DEF Nodes, Controllers
  <2>2. Copies(m)'
    BY SMTT(30), <1>3, <1>s, <1>a, <2>1 DEF JoinInv, Copies, HasCA, Complete
  <2>3. Joining(m)'
    BY <1>3, <1>s, <1>a, <2>1 DEF JoinInv, Joining, HasCA, Complete
  <2> QED
    BY <2>2, <2>3
<1>e. \A f \in PkiFiles : jcFiles'[n][f] = IF f = jcPhase[n] THEN jcFiles[First][f] ELSE jcFiles[n][f]
  BY <1>c
<1>f. /\ Complete(First)'
      /\ \A f \in PkiFiles : jcFiles[n][f] # NoKey => jcFiles'[n][f] # NoKey
  BY <1>a, <1>b, <1>e DEF Complete
<1>g. \A f \in {"ca.key", "ca.crt"} : jcFiles'[n][f] \in {NoKey, jcFiles'[First][f]}
  BY <1>0, <1>a, <1>e DEF JoinInv, Copies, PkiFiles
<1>h. jcStorage' = "etcd" =>
         /\ \A f \in PkiFiles : jcFiles'[n][f] \in {NoKey, jcFiles'[First][f]}
         /\ jcData'[n] => Complete(n)'
  <2> SUFFICES ASSUME jcStorage = "etcd"
               PROVE  /\ \A f \in PkiFiles : jcFiles'[n][f] \in {NoKey, jcFiles'[First][f]}
                      /\ jcData[n] => Complete(n)'
    BY <1>s
  <2>1. \A f \in PkiFiles : jcFiles[n][f] \in {NoKey, jcFiles[First][f]}
    BY <1>0 DEF JoinInv, Copies
  <2>2. jcData[n] => Complete(n)
    BY <1>0 DEF JoinInv, Copies
  <2>3. Complete(n) => Complete(n)'
    BY <1>f DEF Complete
  <2>4. ASSUME NEW f \in PkiFiles PROVE jcFiles'[n][f] \in {NoKey, jcFiles'[First][f]}
    BY <1>a, <1>e, <2>1
  <2> QED
    BY <2>2, <2>3, <2>4
<1>4. (Copies(n) /\ Joining(n))'
  <2>1. CASE jcPhase[n] = "ca.key"
    <3>1. /\ jcFiles'[n]["ca.key"] = jcFiles[First]["ca.key"]
          /\ jcFiles'[n]["ca.crt"] = jcFiles[n]["ca.crt"]
          /\ jcFiles'[n]["sa.key"] = jcFiles[n]["sa.key"]
          /\ jcFiles'[n]["sa.pub"] = jcFiles[n]["sa.pub"]
          /\ jcPhase'[n] = "ca.crt"
      BY <1>e, <1>p, <2>1 DEF PkiFiles
    <3>a. /\ jcFiles'[n]["ca.crt"] # NoKey => jcFiles'[n]["ca.key"] # NoKey
          /\ jcStorage' # "etcd" =>
               /\ jcFiles'[n]["sa.pub"] # NoKey => jcFiles'[n]["sa.key"] = jcFiles'[n]["sa.pub"]
               /\ jcFiles'[n]["sa.key"] # NoKey => HasCA(n)'
      BY <1>0, <1>s, <1>b, <2>1, <3>1 DEF JoinInv, Copies, Joining, Founding, Pairs, HasCA, Complete, PkiFiles
    <3>2. Copies(n)'
      BY <1>f, <1>g, <1>h, <3>a DEF Copies
    <3>3. Joining(n)'
      BY <1>0, <1>s, <1>a, <1>b, <2>1, <3>1 DEF JoinInv, Copies, Joining, JoiningPhases, Founding,
         Pairs, HasCA, Complete, PkiFiles
    <3> QED
      BY <3>2, <3>3
  <2>2. CASE jcPhase[n] = "ca.crt"
    <3>1. /\ jcFiles'[n]["ca.key"] = jcFiles[n]["ca.key"]
          /\ jcFiles'[n]["ca.crt"] = jcFiles[First]["ca.crt"]
          /\ jcFiles'[n]["sa.key"] = jcFiles[n]["sa.key"]
          /\ jcFiles'[n]["sa.pub"] = jcFiles[n]["sa.pub"]
          /\ jcPhase'[n] = "sa.key"
      BY <1>e, <1>p, <2>2 DEF PkiFiles
    <3>a. /\ jcFiles'[n]["ca.crt"] # NoKey => jcFiles'[n]["ca.key"] # NoKey
          /\ jcStorage' # "etcd" =>
               /\ jcFiles'[n]["sa.pub"] # NoKey => jcFiles'[n]["sa.key"] = jcFiles'[n]["sa.pub"]
               /\ jcFiles'[n]["sa.key"] # NoKey => HasCA(n)'
      BY <1>0, <1>s, <1>b, <2>2, <3>1 DEF JoinInv, Copies, Joining, Founding, Pairs, HasCA, Complete, PkiFiles
    <3>2. Copies(n)'
      BY <1>f, <1>g, <1>h, <3>a DEF Copies
    <3>3. Joining(n)'
      BY <1>0, <1>s, <1>a, <1>b, <2>2, <3>1 DEF JoinInv, Copies, Joining, JoiningPhases, Founding,
         Pairs, HasCA, Complete, PkiFiles
    <3> QED
      BY <3>2, <3>3
  <2>3. CASE jcPhase[n] = "sa.key"
    <3>1. /\ jcFiles'[n]["ca.key"] = jcFiles[n]["ca.key"]
          /\ jcFiles'[n]["ca.crt"] = jcFiles[n]["ca.crt"]
          /\ jcFiles'[n]["sa.key"] = jcFiles[First]["sa.key"]
          /\ jcFiles'[n]["sa.pub"] = jcFiles[n]["sa.pub"]
          /\ jcPhase'[n] = "sa.pub"
      BY <1>e, <1>p, <2>3 DEF PkiFiles
    <3>a. /\ jcFiles'[n]["ca.crt"] # NoKey => jcFiles'[n]["ca.key"] # NoKey
          /\ jcStorage' # "etcd" =>
               /\ jcFiles'[n]["sa.pub"] # NoKey => jcFiles'[n]["sa.key"] = jcFiles'[n]["sa.pub"]
               /\ jcFiles'[n]["sa.key"] # NoKey => HasCA(n)'
      BY <1>0, <1>s, <1>b, <2>3, <3>1 DEF JoinInv, Copies, Joining, Founding, Pairs, HasCA, Complete, PkiFiles
    <3>2. Copies(n)'
      BY <1>f, <1>g, <1>h, <3>a DEF Copies
    <3>3. Joining(n)'
      BY <1>0, <1>s, <1>a, <1>b, <2>3, <3>1 DEF JoinInv, Copies, Joining, JoiningPhases, Founding,
         Pairs, HasCA, Complete, PkiFiles
    <3> QED
      BY <3>2, <3>3
  <2>4. CASE jcPhase[n] = "sa.pub"
    <3>1. /\ jcFiles'[n]["ca.key"] = jcFiles[n]["ca.key"]
          /\ jcFiles'[n]["ca.crt"] = jcFiles[n]["ca.crt"]
          /\ jcFiles'[n]["sa.key"] = jcFiles[n]["sa.key"]
          /\ jcFiles'[n]["sa.pub"] = jcFiles[First]["sa.pub"]
          /\ jcPhase'[n] = "ca"
      BY <1>e, <1>p, <2>4 DEF PkiFiles
    <3>a. /\ jcFiles'[n]["ca.crt"] # NoKey => jcFiles'[n]["ca.key"] # NoKey
          /\ jcStorage' # "etcd" =>
               /\ jcFiles'[n]["sa.pub"] # NoKey => jcFiles'[n]["sa.key"] = jcFiles'[n]["sa.pub"]
               /\ jcFiles'[n]["sa.key"] # NoKey => HasCA(n)'
      BY <1>0, <1>s, <1>b, <2>4, <3>1 DEF JoinInv, Copies, Joining, Founding, Pairs, HasCA, Complete, PkiFiles
    <3>2. Copies(n)'
      BY <1>f, <1>g, <1>h, <3>a DEF Copies
    <3>b. Complete(n)'
      BY <1>0, <1>b, <2>4, <3>1 DEF JoinInv, Joining, HasCA, Complete, PkiFiles
    <3>3. Joining(n)'
      BY <3>1, <3>b DEF Joining, JoiningPhases, HasCA, Complete, PkiFiles
    <3> QED
      BY <3>2, <3>3
  <2> QED
    BY <1>0, <2>1, <2>2, <2>3, <2>4 DEF PkiFiles
<1>6. Leaves'
  BY <1>0, <1>s, <1>c, <1>p DEF JoinInv, Leaves, Nodes, Controllers, PkiFiles
<1> QED
  BY <1>1, <1>2, <1>3, <1>4, <1>6 DEF JoinInv

(***************************************************************************)
(* The effect of writing a file, of going on and of generating a key.      *)
(***************************************************************************)
LEMMA FileWritten ==
    ASSUME JoinTypes, NEW n \in Controllers, NEW f \in PkiFiles, NEW k \in Keys,
           jcFiles' = [jcFiles EXCEPT ![n][f] = k]
    PROVE  /\ jcFiles' \in [Controllers -> [PkiFiles -> Keys]]
           /\ jcFiles'[n][f] = k
           /\ \A g \in PkiFiles : g # f => jcFiles'[n][g] = jcFiles[n][g]
           /\ \A m \in Controllers : m # n => jcFiles'[m] = jcFiles[m]
BY DEF JoinTypes

LEMMA WentOn ==
    ASSUME JoinTypes, NEW n \in Controllers,
           NEW phase \in FoundingPhases \cup JoiningPhases, GoOn(n, phase)
    PROVE  /\ jcPhase' \in [Nodes -> FoundingPhases \cup JoiningPhases \cup WorkerPhases]
           /\ jcPhase'[n] = phase
           /\ \A m \in Nodes : m # n => jcPhase'[m] = jcPhase[m]
BY DEF JoinTypes, GoOn, Nodes

LEMMA KeyMade ==
    ASSUME NEW n \in Controllers, NEW made \in Nat
    PROVE  made + 1 \in Nat /\ <<n, made + 1>> \in Keys /\ <<n, made + 1>> # NoKey
<1>1. made + 1 \in Nat /\ made + 1 # 0
  BY SMTT(30)
<1>2. n \in Nodes \cup {"no key"}
  BY DEF Nodes
<1> QED
  BY <1>1, <1>2 DEF Keys, NoKey

(***************************************************************************)
(* A joining controller is not disturbed as long as the first one keeps    *)
(* its files, or is not complete yet.                                      *)
(***************************************************************************)
LEMMA BystanderKeeps ==
    ASSUME JoinInv, NEW m \in Joiners,
           jcFiles'[First] = jcFiles[First] \/ ~Complete(First),
           jcFiles'[m] = jcFiles[m], jcPhase'[m] = jcPhase[m],
           jcStorage' = jcStorage, jcGot'[m] = jcGot[m], jcData'[m] = jcData[m]
    PROVE  (Copies(m) /\ Joining(m))'
<1>1. CASE jcFiles'[First] = jcFiles[First]
  <2>1. Copies(m)'
    BY SMTT(30), <1>1 DEF JoinInv, Copies, HasCA, Complete
  <2>2. Joining(m)'
    BY <1>1 DEF JoinInv, Joining, HasCA, Complete
  <2> QED
    BY <2>1, <2>2
<1>2. CASE ~Complete(First)
  <2>1. \A f \in PkiFiles : jcFiles[m][f] = NoKey
    BY <1>2 DEF JoinInv, Copies
  <2>2. jcPhase[m] \in {"off", "asking"}
    BY <1>2, <2>1 DEF JoinInv, Joining, JoiningPhases, HasCA, PkiFiles
  <2>3. jcStorage = "etcd" => ~jcData[m]
    BY <2>1 DEF JoinInv, Copies, Complete, PkiFiles
  <2>4. Copies(m)'
    BY <2>1, <2>3 DEF Copies, PkiFiles
  <2>5. Joining(m)'
    BY <2>1, <2>2 DEF Joining, JoiningPhases, PkiFiles
  <2> QED
    BY <2>4, <2>5
<1> QED
  BY <1>1, <1>2

(***************************************************************************)
(* Only the first controller makes a CA, and while it does, nobody has     *)
(* files of it (EnsureCA).                                                 *)
(***************************************************************************)
LEMMA EnsureCAKeeps ==
    ASSUME JoinInv, NEW n \in Controllers, EnsureCA(n) PROVE JoinInv'
<1>s. /\ jcStorage' = jcStorage /\ jcGot' = jcGot /\ jcData' = jcData /\ jcLeaf' = jcLeaf
      /\ jcHeld' = jcHeld
  BY DEF EnsureCA, jcSecrets
<1>t. JoinTypes /\ First \in Controllers /\ Joiners \subseteq Controllers /\ Controllers \subseteq Nodes
  BY DEF JoinInv, Controllers, Nodes
<1>1. CASE HasCA(n) /\ jcPhase[n] = "ca"
  <2>1. jcFiles' = jcFiles /\ jcMade' = jcMade /\ GoOn(n, "sa")
    BY <1>1 DEF EnsureCA, HasCA
  <2>2. /\ jcPhase' \in [Nodes -> FoundingPhases \cup JoiningPhases \cup WorkerPhases]
        /\ jcPhase'[n] = "sa"
        /\ \A m \in Nodes : m # n => jcPhase'[m] = jcPhase[m]
    BY <2>1, <1>t, WentOn DEF FoundingPhases
  <2>3. JoinTypes'
    BY <1>s, <1>t, <2>1, <2>2 DEF JoinTypes
  <2>4. Founding'
    BY <1>1, <1>t, <2>1, <2>2 DEF JoinInv, Founding, FoundingPhases, Pairs, HasCA, Complete
  <2>5. ASSUME NEW m \in Joiners PROVE (Copies(m) /\ Joining(m))'
    <3>1. CASE m # n
      BY <1>s, <1>t, <2>1, <2>2, <2>5, <3>1, BystanderKeeps
    <3>2. CASE m = n
      <4>1. Copies(n)'
        BY <1>s, <2>1, <2>5, <3>2 DEF JoinInv, Copies, HasCA, Complete
      <4>2. Joining(n)'
        BY <1>1, <1>s, <2>1, <2>2, <2>5, <3>2 DEF JoinInv, Joining, JoiningPhases, HasCA, Complete, PkiFiles
      <4> QED
        BY <3>2, <4>1, <4>2
    <3> QED
      BY <3>1, <3>2
  <2>6. Leaves'
    BY <1>s, <1>t, <2>1, <2>2 DEF JoinInv, Leaves
  <2> QED
    BY <2>3, <2>4, <2>5, <2>6 DEF JoinInv
<1>2. CASE ~(HasCA(n) /\ jcPhase[n] = "ca")
  <2>1. n = First
    BY <1>2 DEF EnsureCA, Controllers, JoinInv, Joining, JoiningPhases, HasCA, PkiFiles
  <2>2. ~Complete(First)
    BY <1>2, <2>1 DEF EnsureCA, JoinInv, Founding, HasCA, Complete, PkiFiles
  <2> DEFINE key == <<n, jcMade + 1>>
  <2>3. /\ jcMade' \in Nat
        /\ \E f \in {"ca.key", "ca.crt"}, k \in Keys, phase \in FoundingPhases :
              /\ jcFiles' = [jcFiles EXCEPT ![n][f] = k] /\ k # NoKey
              /\ GoOn(n, phase)
              /\ \/ f = "ca.key" /\ phase = "ca made" /\ jcFiles[n]["ca.crt"] = NoKey
                 \/ f = "ca.crt" /\ phase = "sa" /\ k = jcFiles[n]["ca.key"]
    <3>1. CASE jcPhase[n] = "ca"
      <4>1. jcMade' = jcMade + 1 /\ jcFiles' = [jcFiles EXCEPT ![n]["ca.key"] = key] /\ GoOn(n, "ca made")
        BY <1>2, <3>1 DEF EnsureCA, HasCA
      <4>2. jcMade + 1 \in Nat /\ key \in Keys /\ key # NoKey
        BY <1>t, KeyMade DEF JoinTypes
      <4>3. jcFiles[n]["ca.crt"] = NoKey
        BY <1>2, <2>1, <3>1 DEF JoinInv, Founding, Pairs, HasCA
      <4> HIDE DEF key
      <4> QED
        BY <4>1, <4>2, <4>3 DEF FoundingPhases
    <3>2. CASE jcPhase[n] = "ca made"
      <4>1. jcMade' = jcMade /\ jcFiles' = [jcFiles EXCEPT ![n]["ca.crt"] = jcFiles[n]["ca.key"]] /\ GoOn(n, "sa")
        BY <3>2 DEF EnsureCA
      <4>2. jcFiles[n]["ca.key"] \in Keys /\ jcFiles[n]["ca.key"] # NoKey
        BY <1>t, <2>1, <3>2 DEF JoinTypes, JoinInv, Founding, PkiFiles
      <4>3. jcMade \in Nat
        BY <1>t DEF JoinTypes
      <4> QED
        BY <4>1, <4>2, <4>3 DEF FoundingPhases
    <3> QED
      BY <3>1, <3>2 DEF EnsureCA
  <2>4. PICK f \in {"ca.key", "ca.crt"}, k \in Keys, phase \in FoundingPhases :
              /\ jcFiles' = [jcFiles EXCEPT ![n][f] = k] /\ k # NoKey
              /\ GoOn(n, phase)
              /\ \/ f = "ca.key" /\ phase = "ca made" /\ jcFiles[n]["ca.crt"] = NoKey
                 \/ f = "ca.crt" /\ phase = "sa" /\ k = jcFiles[n]["ca.key"]
    BY <2>3
  <2>5. /\ jcFiles' \in [Controllers -> [PkiFiles -> Keys]]
        /\ jcFiles'[n][f] = k
        /\ \A g \in PkiFiles : g # f => jcFiles'[n][g] = jcFiles[n][g]
        /\ \A m \in Controllers : m # n => jcFiles'[m] = jcFiles[m]
    <3>1. f \in PkiFiles
      BY DEF PkiFiles
    <3> QED
      BY <1>t, <2>4, <3>1, FileWritten
  <2>6. /\ jcPhase' \in [Nodes -> FoundingPhases \cup JoiningPhases \cup WorkerPhases]
        /\ jcPhase'[n] = phase
        /\ \A m \in Nodes : m # n => jcPhase'[m] = jcPhase[m]
    BY <1>t, <2>4, WentOn
  <2>7. JoinTypes'
    BY <1>s, <1>t, <2>3, <2>5, <2>6 DEF JoinTypes
  <2>8. Founding'
    <3>1. CASE f = "ca.key"
      <4>1. /\ jcPhase'[First] = "ca made"
            /\ jcFiles'[First]["ca.key"] # NoKey
            /\ jcFiles'[First]["ca.crt"] = NoKey
            /\ jcFiles'[First]["sa.key"] = jcFiles[First]["sa.key"]
            /\ jcFiles'[First]["sa.pub"] = jcFiles[First]["sa.pub"]
        BY <2>1, <2>4, <2>5, <2>6, <3>1 DEF PkiFiles
      <4> QED
        BY <4>1 DEF JoinInv, Founding, FoundingPhases, Pairs
    <3>2. CASE f = "ca.crt"
      <4>1. /\ jcPhase'[First] = "sa"
            /\ jcFiles'[First]["ca.key"] = jcFiles'[First]["ca.crt"]
            /\ jcFiles'[First]["ca.crt"] # NoKey
            /\ jcFiles'[First]["sa.key"] = jcFiles[First]["sa.key"]
            /\ jcFiles'[First]["sa.pub"] = jcFiles[First]["sa.pub"]
        BY <2>1, <2>4, <2>5, <2>6, <3>2 DEF PkiFiles
      <4> QED
        BY <4>1 DEF JoinInv, Founding, FoundingPhases, Pairs, HasCA
    <3> QED
      BY <3>1, <3>2
  <2>9. ASSUME NEW m \in Joiners PROVE (Copies(m) /\ Joining(m))'
    BY <1>s, <1>t, <2>1, <2>2, <2>5, <2>6, <2>9, BystanderKeeps, JoinAssumption
  <2>10. Leaves'
    <3>1. jcPhase'[n] # "up"
      BY <2>4, <2>6
    <3>2. ASSUME NEW m \in Controllers, m # n
          PROVE  jcPhase'[m] = jcPhase[m] /\ jcFiles'[m] = jcFiles[m] /\ jcLeaf'[m] = jcLeaf[m]
      BY <1>s, <1>t, <2>5, <2>6, <3>2
    <3> QED
      BY <3>1, <3>2 DEF JoinInv, Leaves
  <2> QED
    BY <2>7, <2>8, <2>9, <2>10 DEF JoinInv
<1> QED
  BY <1>1, <1>2

(***************************************************************************)
(* The service account keys are made by the first controller before it is  *)
(* complete, or by a joining one that has none (CreateKeyPair).            *)
(***************************************************************************)
LEMMA CreateKeyPairKeeps ==
    ASSUME JoinInv, NEW n \in Controllers, CreateKeyPair(n) PROVE JoinInv'
<1>s. /\ jcStorage' = jcStorage /\ jcGot' = jcGot /\ jcData' = jcData /\ jcLeaf' = jcLeaf
      /\ jcHeld' = jcHeld
  BY DEF CreateKeyPair, jcSecrets
<1>t. JoinTypes /\ First \in Controllers /\ Joiners \subseteq Controllers /\ Controllers \subseteq Nodes
  BY DEF JoinInv, Controllers, Nodes
<1>h. HasCA(n)
  BY DEF CreateKeyPair, JoinInv, Founding, Joining, Controllers
<1> DEFINE HasSA == jcFiles[n]["sa.key"] # NoKey /\ jcFiles[n]["sa.pub"] # NoKey
<1>1. CASE HasSA /\ jcPhase[n] = "sa"
  <2>1. jcFiles' = jcFiles /\ jcMade' = jcMade /\ GoOn(n, "leaf")
    BY <1>1 DEF CreateKeyPair
  <2>2. /\ jcPhase' \in [Nodes -> FoundingPhases \cup JoiningPhases \cup WorkerPhases]
        /\ jcPhase'[n] = "leaf"
        /\ \A m \in Nodes : m # n => jcPhase'[m] = jcPhase[m]
    BY <2>1, <1>t, WentOn DEF FoundingPhases
  <2>3. JoinTypes'
    BY <1>s, <1>t, <2>1, <2>2 DEF JoinTypes
  <2>c. Complete(n)
    BY <1>1, <1>h DEF HasCA, Complete, PkiFiles
  <2>4. Founding'
    BY <1>h, <1>t, <2>c, <2>1, <2>2 DEF JoinInv, Founding, FoundingPhases, Pairs, HasCA, Complete
  <2>5. ASSUME NEW m \in Joiners PROVE (Copies(m) /\ Joining(m))'
    <3>1. CASE m # n
      BY <1>s, <1>t, <2>1, <2>2, <2>5, <3>1, BystanderKeeps
    <3>2. CASE m = n
      <4>1. Copies(n)'
        BY <1>s, <2>1, <2>5, <3>2 DEF JoinInv, Copies, HasCA, Complete
      <4>2. Joining(n)'
        BY <1>h, <1>s, <2>c, <2>1, <2>2 DEF Joining, JoiningPhases, HasCA, Complete, PkiFiles
      <4> QED
        BY <3>2, <4>1, <4>2
    <3> QED
      BY <3>1, <3>2
  <2>6. Leaves'
    BY <1>s, <1>t, <2>1, <2>2 DEF JoinInv, Leaves
  <2> QED
    BY <2>3, <2>4, <2>5, <2>6 DEF JoinInv
<1>2. CASE ~(HasSA /\ jcPhase[n] = "sa")
  <2> DEFINE key == <<n, jcMade + 1>>
  <2>1. jcFiles[n]["sa.pub"] = NoKey /\ (jcPhase[n] = "sa made" => jcFiles[n]["sa.key"] # NoKey)
    <3>1. CASE n = First
      BY <1>2, <3>1 DEF CreateKeyPair, JoinInv, Founding, Pairs
    <3>2. CASE n \in Joiners /\ jcPhase[n] = "sa made"
      BY <3>2 DEF JoinInv, Joining
    <3>3. CASE n \in Joiners /\ jcPhase[n] = "sa"
      <4>1. jcStorage # "etcd"
        BY <1>2, <3>3 DEF JoinInv, Joining, Complete, PkiFiles
      <4> QED
        BY <1>2, <3>3, <4>1 DEF JoinInv, Copies
    <3> QED
      BY <3>1, <3>2, <3>3 DEF CreateKeyPair, Controllers
  <2>e. n \in Joiners => jcStorage # "etcd"
    BY <2>1 DEF CreateKeyPair, JoinInv, Joining, Complete, PkiFiles
  <2>2. n = First => ~Complete(First)
    BY <2>1 DEF Complete, PkiFiles
  <2>3. /\ jcMade' \in Nat
        /\ \E f \in {"sa.key", "sa.pub"}, k \in Keys, phase \in {"sa made", "leaf"} :
              /\ jcFiles' = [jcFiles EXCEPT ![n][f] = k] /\ k # NoKey
              /\ GoOn(n, phase)
              /\ \/ f = "sa.key" /\ phase = "sa made"
                 \/ f = "sa.pub" /\ phase = "leaf" /\ k = jcFiles[n]["sa.key"]
    <3>1. CASE jcPhase[n] = "sa"
      <4>1. jcMade' = jcMade + 1 /\ jcFiles' = [jcFiles EXCEPT ![n]["sa.key"] = key] /\ GoOn(n, "sa made")
        BY <1>2, <3>1 DEF CreateKeyPair
      <4>2. jcMade + 1 \in Nat /\ key \in Keys /\ key # NoKey
        BY <1>t, KeyMade DEF JoinTypes
      <4> HIDE DEF key
      <4> QED
        BY <4>1, <4>2
    <3>2. CASE jcPhase[n] = "sa made"
      <4>1. jcMade' = jcMade /\ jcFiles' = [jcFiles EXCEPT ![n]["sa.pub"] = jcFiles[n]["sa.key"]] /\ GoOn(n, "leaf")
        BY <3>2 DEF CreateKeyPair
      <4>2. jcFiles[n]["sa.key"] \in Keys /\ jcFiles[n]["sa.key"] # NoKey
        <5>1. jcFiles[n]["sa.key"] \in Keys
          BY SMTT(30), <1>t DEF JoinTypes, PkiFiles
        <5> QED
          BY <2>1, <3>2, <5>1
      <4>3. jcMade \in Nat
        BY <1>t DEF JoinTypes
      <4> QED
        BY <4>1, <4>2, <4>3
    <3> QED
      BY <3>1, <3>2 DEF CreateKeyPair
  <2>4. PICK f \in {"sa.key", "sa.pub"}, k \in Keys, phase \in {"sa made", "leaf"} :
              /\ jcFiles' = [jcFiles EXCEPT ![n][f] = k] /\ k # NoKey
              /\ GoOn(n, phase)
              /\ \/ f = "sa.key" /\ phase = "sa made"
                 \/ f = "sa.pub" /\ phase = "leaf" /\ k = jcFiles[n]["sa.key"]
    BY <2>3
  <2>5. /\ jcFiles' \in [Controllers -> [PkiFiles -> Keys]]
        /\ jcFiles'[n][f] = k
        /\ \A g \in PkiFiles : g # f => jcFiles'[n][g] = jcFiles[n][g]
        /\ \A m \in Controllers : m # n => jcFiles'[m] = jcFiles[m]
    <3>1. f \in PkiFiles
      BY DEF PkiFiles
    <3> QED
      BY <1>t, <2>4, <3>1, FileWritten
  <2>6. /\ jcPhase' \in [Nodes -> FoundingPhases \cup JoiningPhases \cup WorkerPhases]
        /\ jcPhase'[n] = phase
        /\ \A m \in Nodes : m # n => jcPhase'[m] = jcPhase[m]
    <3>1. phase \in FoundingPhases \cup JoiningPhases
      BY DEF FoundingPhases
    <3> QED
      BY <1>t, <2>4, <3>1, WentOn
  <2>7. JoinTypes'
    BY <1>s, <1>t, <2>3, <2>5, <2>6 DEF JoinTypes
  <2>n. /\ jcFiles'[n]["ca.key"] = jcFiles[n]["ca.key"]
        /\ jcFiles'[n]["ca.crt"] = jcFiles[n]["ca.crt"]
        /\ \/ /\ jcPhase'[n] = "sa made"
              /\ jcFiles'[n]["sa.key"] # NoKey /\ jcFiles'[n]["sa.pub"] = NoKey
           \/ /\ jcPhase'[n] = "leaf" /\ Complete(n)'
              /\ jcFiles'[n]["sa.key"] = jcFiles'[n]["sa.pub"]
    BY <1>h, <2>1, <2>4, <2>5, <2>6 DEF HasCA, Complete, PkiFiles
  <2>8. Founding'
    <3>1. CASE n = First
      BY <1>h, <2>n, <3>1 DEF JoinInv, Founding, FoundingPhases, Pairs, HasCA
    <3>2. CASE n # First
      BY <1>t, <2>5, <2>6, <3>2 DEF JoinInv, Founding, Pairs, HasCA, Complete
    <3> QED
      BY <3>1, <3>2
  <2>9. ASSUME NEW m \in Joiners PROVE (Copies(m) /\ Joining(m))'
    <3>1. CASE m # n
      <4>1. jcFiles'[First] = jcFiles[First] \/ ~Complete(First)
        BY <1>t, <2>2, <2>5
      <4> QED
        BY <1>s, <1>t, <2>5, <2>6, <2>9, <3>1, <4>1, BystanderKeeps
    <3>2. CASE m = n
      <4>1. jcFiles'[First] = jcFiles[First] /\ Complete(First)
        BY <1>h, <1>t, <2>5, <2>9, <3>2, JoinAssumption DEF JoinInv, Copies, HasCA, PkiFiles
      <4>2. jcStorage' # "etcd"
        BY <1>s, <2>e, <2>9, <3>2
      <4>3. Copies(n)'
        <5>1. \A g \in {"ca.key", "ca.crt"} : jcFiles'[n][g] \in {NoKey, jcFiles'[First][g]}
          BY <2>n, <2>9, <3>2, <4>1 DEF JoinInv, Copies
        <5>2. Complete(First)'
          BY <4>1 DEF Complete
        <5>3. HasCA(n)'
          BY <1>h, <2>n DEF HasCA
        <5> QED
          BY <2>n, <4>2, <5>1, <5>2, <5>3 DEF Copies, HasCA
      <4>4. Joining(n)'
        BY <1>h, <2>n, <4>2 DEF Joining, JoiningPhases, HasCA, PkiFiles
      <4> QED
        BY <3>2, <4>3, <4>4
    <3> QED
      BY <3>1, <3>2
  <2>10. Leaves'
    <3>1. jcPhase'[n] # "up"
      BY <2>n
    <3>2. ASSUME NEW m \in Controllers, m # n
          PROVE  jcPhase'[m] = jcPhase[m] /\ jcFiles'[m] = jcFiles[m] /\ jcLeaf'[m] = jcLeaf[m]
      BY <1>s, <1>t, <2>5, <2>6, <3>2
    <3> QED
      BY <3>1, <3>2 DEF JoinInv, Leaves
  <2> QED
    BY <2>7, <2>8, <2>9, <2>10 DEF JoinInv
<1> QED
  BY <1>1, <1>2

(***************************************************************************)
(* A controller comes up when its files are complete, and then it has      *)
(* joined (EnsureCertificate).                                             *)
(***************************************************************************)
LEMMA EnsureCertificateKeeps ==
    ASSUME JoinInv, NEW n \in Controllers, EnsureCertificate(n) PROVE JoinInv'
<1>s. /\ jcStorage' = jcStorage /\ jcGot' = jcGot /\ jcFiles' = jcFiles /\ jcMade' = jcMade
      /\ jcHeld' = jcHeld
  BY DEF EnsureCertificate, jcSecrets
<1>t. JoinTypes /\ First \in Controllers /\ Joiners \subseteq Controllers /\ Controllers \subseteq Nodes
  BY DEF JoinInv, Controllers, Nodes
<1>c. Complete(n)
  BY DEF EnsureCertificate, JoinInv, Founding, Joining, Controllers
<1>p. /\ jcPhase' \in [Nodes -> FoundingPhases \cup JoiningPhases \cup WorkerPhases]
      /\ jcPhase'[n] = "up"
      /\ \A m \in Nodes : m # n => jcPhase'[m] = jcPhase[m]
  BY <1>t, WentOn DEF EnsureCertificate, FoundingPhases
<1>d. /\ DOMAIN jcData' = Nodes /\ DOMAIN jcLeaf' = Controllers
      /\ \A m \in Nodes : m # n => jcData'[m] = jcData[m]
      /\ \A m \in Controllers : m # n => jcLeaf'[m] = jcLeaf[m]
      /\ jcLeaf'[n] = jcFiles[n]["ca.key"]
  BY <1>t DEF EnsureCertificate, JoinTypes
<1>1. JoinTypes'
  BY <1>s, <1>t, <1>p, <1>d DEF JoinTypes
<1>2. Founding'
  BY <1>s, <1>t, <1>c, <1>p DEF JoinInv, Founding, FoundingPhases, Pairs, HasCA, Complete, PkiFiles
<1>3. ASSUME NEW m \in Joiners PROVE (Copies(m) /\ Joining(m))'
  <2>1. CASE m # n
    BY <1>s, <1>t, <1>p, <1>d, <1>3, <2>1, BystanderKeeps
  <2>2. CASE m = n
    <3>1. Copies(n)'
      BY <1>s, <1>c, <1>3, <2>2 DEF JoinInv, Copies, HasCA, Complete
    <3>2. Joining(n)'
      BY <1>s, <1>c, <1>p DEF Joining, JoiningPhases, HasCA, Complete, PkiFiles
    <3> QED
      BY <2>2, <3>1, <3>2
  <2> QED
    BY <2>1, <2>2
<1>4. Leaves'
  BY <1>s, <1>t, <1>p, <1>d DEF JoinInv, Leaves
<1> QED
  BY <1>1, <1>2, <1>3, <1>4 DEF JoinInv

(***************************************************************************)
(* A crash leaves the files as they are, whatever the node was doing       *)
(* (NodeCrashes).                                                          *)
(***************************************************************************)
LEMMA NodeCrashesKeeps ==
    ASSUME JoinInv, NEW n \in Nodes, NodeCrashes(n) PROVE JoinInv'
<1>s. /\ jcStorage' = jcStorage /\ jcData' = jcData /\ jcFiles' = jcFiles /\ jcMade' = jcMade
      /\ jcHeld' = jcHeld /\ jcLeaf' = jcLeaf
  BY DEF NodeCrashes, jcSecrets
<1>t. JoinTypes /\ First \in Nodes /\ Joiners \subseteq Nodes /\ Controllers \subseteq Nodes
  BY DEF JoinInv, Controllers, Nodes
<1>p. /\ jcPhase' \in [Nodes -> FoundingPhases \cup JoiningPhases \cup WorkerPhases]
      /\ jcPhase'[n] = "off"
      /\ \A m \in Nodes : m # n => jcPhase'[m] = jcPhase[m]
  BY <1>t DEF NodeCrashes, GoOn, JoinTypes, FoundingPhases
<1>g. /\ jcGot' \in [Nodes -> [PkiFiles -> Keys]]
      /\ \A m \in Nodes : m # n => jcGot'[m] = jcGot[m]
  <2>1. NoKey \in Keys
    BY DEF NoKey, Keys
  <2>2. [f \in PkiFiles |-> NoKey] \in [PkiFiles -> Keys]
    BY <2>1
  <2> QED
    BY <1>t, <2>2 DEF NodeCrashes, JoinTypes
<1>1. JoinTypes'
  BY <1>s, <1>t, <1>p, <1>g DEF JoinTypes
<1>2. Founding'
  BY <1>s, <1>t, <1>p DEF JoinInv, Founding, FoundingPhases, Pairs, HasCA, Complete
<1>3. ASSUME NEW m \in Joiners PROVE (Copies(m) /\ Joining(m))'
  <2>1. CASE m # n
    BY <1>s, <1>t, <1>p, <1>g, <1>3, <2>1, BystanderKeeps
  <2>2. CASE m = n
    <3>1. Copies(n)'
      BY <1>s, <1>3, <2>2 DEF JoinInv, Copies, HasCA, Complete
    <3>2. Joining(n)'
      BY <1>p DEF Joining, JoiningPhases, PkiFiles
    <3> QED
      BY <2>2, <3>1, <3>2
  <2> QED
    BY <2>1, <2>2
<1>4. Leaves'
  BY <1>s, <1>t, <1>p DEF JoinInv, Leaves
<1> QED
  BY <1>1, <1>2, <1>3, <1>4 DEF JoinInv

(***************************************************************************)
(* Every step preserves the invariant.                                     *)
(***************************************************************************)
LEMMA JoinInvNext == JoinInv /\ [JcNext]_jcVars => JoinInv'
<1> SUFFICES ASSUME JoinInv, [JcNext]_jcVars PROVE JoinInv'
  OBVIOUS
<1>t. JoinTypes
  BY DEF JoinInv
<1>1. ASSUME NEW role, CreateToken(role) PROVE JoinInv'
  BY <1>1, <1>t, OthersKeep DEF CreateToken, jcDisk, JoinTypes
<1>2. ASSUME NEW id, InvalidateToken(id) PROVE JoinInv'
  BY <1>2, <1>t, OthersKeep DEF InvalidateToken, jcDisk, JoinTypes
<1>3. ASSUME NEW id, NEW n \in Nodes, HandToken(n, id) PROVE JoinInv'
  <2>1. DOMAIN jcHeld' = Nodes /\ jcHeld'[First] = 0
    BY SMTT(30), <1>3, <1>t DEF HandToken, JoinTypes
  <2> QED
    BY <1>3, <1>t, <2>1, OthersKeep DEF HandToken, jcDisk, JoinTypes
<1>4. ASSUME NEW n \in Controllers, ControllerStep(n) PROVE JoinInv'
  BY <1>4, StartControllerKeeps, JoinControllerKeeps, WriteCertsKeeps, EnsureCAKeeps, CreateKeyPairKeeps,
     EnsureCertificateKeeps DEF ControllerStep
<1>5. ASSUME NEW n \in Workers, WorkerStep(n) PROVE JoinInv'
  <2>1. /\ jcFiles' = jcFiles /\ jcStorage' = jcStorage /\ jcGot' = jcGot /\ jcMade' = jcMade
        /\ jcLeaf' = jcLeaf /\ jcHeld' = jcHeld
    BY <1>5 DEF WorkerStep, StartWorker, LoadClientCert, RemoveBootstrap, jcSecrets
  <2>2. \E phase \in WorkerPhases : GoOn(n, phase)
    BY <1>5 DEF WorkerStep, StartWorker, LoadClientCert, RemoveBootstrap, WorkerPhases
  <2>3. jcData' = jcData \/ jcData' = [jcData EXCEPT ![n] = TRUE]
    BY <1>5 DEF WorkerStep, StartWorker, LoadClientCert, RemoveBootstrap
  <2>4. \A m \in Controllers : m # n /\ m \in Nodes
    BY JoinAssumption DEF Nodes
  <2>5. /\ jcPhase' \in [Nodes -> FoundingPhases \cup JoiningPhases \cup WorkerPhases]
        /\ \A m \in Controllers : jcPhase'[m] = jcPhase[m]
    BY <1>t, <2>2, <2>4 DEF GoOn, JoinTypes
  <2>6. DOMAIN jcData' = Nodes /\ \A m \in Controllers : jcData'[m] = jcData[m]
    BY <1>t, <2>3, <2>4 DEF JoinTypes
  <2> QED
    BY <1>t, <2>1, <2>5, <2>6, OthersKeep DEF JoinTypes
<1>6. ASSUME NEW n \in Nodes, NodeCrashes(n) PROVE JoinInv'
  BY <1>6, NodeCrashesKeeps
<1>7. CASE UNCHANGED jcVars
  BY <1>7, <1>t, OthersKeep DEF jcVars, JoinTypes
<1> QED
  BY <1>1, <1>2, <1>3, <1>4, <1>5, <1>6, <1>7 DEF JcNext

(***************************************************************************)
(* A controller that is up has keys that belong together: in a cluster     *)
(* with managed etcd those of the cluster, wherever it has crashed before  *)
(* (cmd/controller, needToJoin, joinController and writeCerts).            *)
(***************************************************************************)
THEOREM KeysStayTogether == JcSpec => []KeysBelongTogether
<1>1. JoinInv => KeysBelongTogether
  <2> SUFFICES ASSUME JoinInv, NEW n \in Controllers, jcPhase[n] = "up"
               PROVE  /\ jcFiles[n]["ca.key"] = jcFiles[n]["ca.crt"]
                      /\ jcFiles[n]["sa.key"] = jcFiles[n]["sa.pub"]
                      /\ jcLeaf[n] = jcFiles[n]["ca.crt"]
                      /\ jcStorage = "etcd" => jcFiles[n] = jcFiles[First]
    BY DEF KeysBelongTogether
  <2>1. Complete(n) /\ jcLeaf[n] = jcFiles[n]["ca.key"]
    BY DEF JoinInv, Founding, Joining, Leaves, Controllers
  <2>2. CASE n = First
    BY <2>1, <2>2 DEF JoinInv, Founding, Pairs, Complete, PkiFiles
  <2>3. CASE n \in Joiners
    <3>1. jcFiles[n]["ca.key"] = jcFiles[n]["ca.crt"]
      BY <2>1, <2>3 DEF JoinInv, Copies, Founding, Pairs, Complete, PkiFiles
    <3>2. CASE jcStorage = "etcd"
      <4>1. \A f \in PkiFiles : jcFiles[n][f] = jcFiles[First][f]
        BY <2>1, <2>3, <3>2 DEF JoinInv, Copies, Complete
      <4>2. jcFiles[n] = jcFiles[First]
        BY SMTT(30), <4>1 DEF JoinInv, JoinTypes, Controllers
      <4> QED
        BY <2>1, <3>1, <4>2 DEF JoinInv, Founding, Pairs, Complete, PkiFiles
    <3>3. CASE jcStorage # "etcd"
      BY <2>1, <2>3, <3>1, <3>3 DEF JoinInv, Copies, Complete, PkiFiles
    <3> QED
      BY <3>2, <3>3
  <2> QED
    BY <2>2, <2>3 DEF Controllers
<1> QED
  BY <1>1, JoinInvInit, JoinInvNext, PTL DEF JcSpec


-----------------------------------------------------------------------------
(***************************************************************************)
(* The configuration is written back and reported in order.  The inductive *)
(* invariant orders the versions that are on their way from the object     *)
(* through the watch, the source and the reconciler into the status.       *)
(***************************************************************************)

Objects == [rv : Nat, content : Content]

PipeTypes ==
    /\ api \in Objects \cup {None} /\ watch \in Seq(Objects)
    /\ src \in [observed : Nat, tried : Nat, sanitized : Objects \cup {None},
                pending : Objects \cup {None}]
    /\ DOMAIN rc = {"cfg", "pos", "failed"} /\ rc.cfg \in Objects \cup {None}
    /\ status \in [rv : Nat, ok : BOOLEAN] \cup {None}
    /\ DOMAIN used = {"edits", "trouble", "gaveUp"} /\ used.edits \in Nat

\* The object is there once its initializer is done; with a static configuration there
\* is none, and nothing is ever observed.
Settings ==
    /\ source \in {"api", "static"}
    /\ source = "api" /\ init = "done" => api # None
    /\ source = "static" => init = "done" /\ api = None
    /\ api = None => watch = <<>> /\ src.sanitized = None /\ src.observed = 0

\* What is still to be observed is newer than what was, comes in its order, and is the
\* object if it has its version.
Queued ==
    /\ \A i \in 1..Len(watch) :
         /\ watch[i].rv <= api.rv /\ src.observed <= watch[i].rv
         /\ watch[i].rv = api.rv => watch[i] = api
    /\ \A i, j \in 1..Len(watch) : i < j => watch[i].rv < watch[j].rv

\* What is to be written back is the object with its feature gates sanitized if it has
\* its version.
Sanitizing ==
    /\ api # None => src.observed <= api.rv
    /\ src.sanitized # None => src.sanitized.rv <= api.rv
    /\ src.sanitized # None /\ src.sanitized.rv = api.rv =>
         src.sanitized.content = [api.content EXCEPT !.sane = TRUE]

\* The versions that are waiting, worked on and reported are newer in this order, and
\* none of them newer than what was observed.
Pending ==
    /\ src.pending # None /\ rc.cfg # None => rc.cfg.rv < src.pending.rv
    /\ src.pending # None /\ status # None => status.rv < src.pending.rv
    /\ rc.cfg # None /\ status # None => status.rv < rc.cfg.rv
    /\ source = "api" => /\ src.pending # None => src.pending.rv <= src.observed
                         /\ rc.cfg # None => rc.cfg.rv <= src.observed
                         /\ status # None => status.rv <= src.observed

PipeInv == PipeTypes /\ Settings /\ Queued /\ Sanitizing /\ Pending

\* What the components leave alone.
Untouched ==
    /\ UNCHANGED <<source, init, api, watch, src, status>>
    /\ DOMAIN rc' = DOMAIN rc /\ rc'.cfg = rc.cfg
    /\ DOMAIN used' = DOMAIN used /\ used'.edits = used.edits

ComponentSteps ==
    \/ ReconcileKubeProxy \/ ReconcileCalico \/ ReconcileKubeRouter \/ ReconcileMetrics
    \/ ReconcileMetricServer \/ ReconcileAgent
    \/ \E c \in Supervised : ReconcileSupervised(c)
    \/ DNSList("manager") \/ DNSWrite("manager") \/ DNSRecord("manager")
    \/ KubeProxy \/ Calico \/ CoreDNSTicker \/ MetricServer \/ Agent

LEMMA ComponentsLeaveItAlone ==
    ASSUME PipeTypes, ComponentSteps \/ NodesChange \/ ServersChange \/ CountWindows
    PROVE  Untouched
<1>1. \A site : Fail(site) => DOMAIN used' = DOMAIN used /\ used'.edits = used.edits
  BY DEF Fail, PipeTypes
<1>2. \A err : Return(err) => DOMAIN rc' = DOMAIN rc /\ rc'.cfg = rc.cfg
  BY DEF Return, PipeTypes
<1>3. UNCHANGED <<source, init, api, watch, src, status>>
  BY DEF ComponentSteps, ReconcileKubeProxy, ReconcileCalico, ReconcileKubeRouter, ReconcileMetrics,
         ReconcileMetricServer, ReconcileAgent, ReconcileSupervised, DNSList, DNSWrite, DNSRecord, DNSRest,
         KubeProxy, Calico, CoreDNSTicker, MetricServer, Agent, Wake, ProcessKubeProxy, ProcessCalico,
         MetricServerTick, MetricServerWrite, AgentWake, AgentWrite, Rest, env, pipe,
         NodesChange, ServersChange, CountWindows
<1>4. DOMAIN rc' = DOMAIN rc /\ rc'.cfg = rc.cfg
  BY <1>2 DEF ComponentSteps, ReconcileKubeProxy, ReconcileCalico, ReconcileKubeRouter, ReconcileMetrics,
         ReconcileMetricServer, ReconcileAgent, ReconcileSupervised, DNSList, DNSWrite, DNSRecord, DNSReturn,
         KubeProxy, Calico, CoreDNSTicker, MetricServer, Agent, Wake, ProcessKubeProxy, ProcessCalico,
         MetricServerTick, MetricServerWrite, AgentWake, AgentWrite, pipe,
         NodesChange, ServersChange, CountWindows
<1>5. DOMAIN used' = DOMAIN used /\ used'.edits = used.edits
  <2>1. Use("trouble") => DOMAIN used' = DOMAIN used /\ used'.edits = used.edits BY DEF Use, PipeTypes
  <2> QED
    BY <1>1, <2>1 DEF ComponentSteps, ReconcileKubeProxy, ReconcileCalico, ReconcileKubeRouter, ReconcileMetrics,
         ReconcileMetricServer, ReconcileAgent, ReconcileSupervised, DNSList, DNSWrite, DNSRecord, DumpCRDs,
         KubeProxy, Calico, CoreDNSTicker, MetricServer, Agent, Wake, ProcessKubeProxy, ProcessCalico,
         MetricServerTick, MetricServerWrite, AgentWake, AgentWrite,
         NodesChange, ServersChange, CountWindows
<1> QED BY <1>3, <1>4, <1>5 DEF Untouched

LEMMA UntouchedIsKept == PipeInv /\ Untouched => PipeInv'
<1> SUFFICES ASSUME PipeInv, Untouched PROVE PipeInv'
  OBVIOUS
<1>1. PipeTypes' BY DEF PipeInv, PipeTypes, Untouched
<1>2. Settings' BY DEF PipeInv, Settings, Untouched
<1>3. Queued' BY DEF PipeInv, Queued, Untouched
<1>4. Sanitizing' BY DEF PipeInv, Sanitizing, Untouched
<1>5. Pending' BY DEF PipeInv, Pending, Untouched
<1> QED BY <1>1, <1>2, <1>3, <1>4, <1>5 DEF PipeInv

\* A new version of the object is behind all that is on its way.
LEMMA StoreStep ==
    ASSUME PipeInv, NEW content \in Content, Store(content), source = "api",
           UNCHANGED <<source, init, rc, status>>,
           src' = [src EXCEPT !.tried = src'.tried], src'.tried \in Nat,
           DOMAIN used' = DOMAIN used, used'.edits \in Nat
    PROVE  PipeInv'
<1>0. /\ src' \in [observed : Nat, tried : Nat, sanitized : Objects \cup {None}, pending : Objects \cup {None}]
      /\ src'.observed = src.observed /\ src'.sanitized = src.sanitized /\ src'.pending = src.pending
  BY DEF PipeInv, PipeTypes
<1>1. /\ api' \in Objects /\ api' # None /\ api'.content = content
      /\ api = None => api'.rv = 1
      /\ api # None => api \in Objects /\ api'.rv = api.rv + 1
  <2>1. api # None => api.rv + 1 \in Nat BY SMTT(30) DEF PipeInv, PipeTypes, Objects
  <2>2. 1 \in Nat BY SMTT(30)
  <2>3. None \notin Objects BY PipelineAssumption DEF Objects
  <2>4. CASE api = None
    <3>1. api' = [rv |-> 1, content |-> content] BY <2>4 DEF Store
    <3>2. api' \in Objects /\ api'.content = content /\ api'.rv = 1 BY <2>2, <3>1, SMTT(30) DEF Objects
    <3> QED BY <2>3, <2>4, <3>2
  <2>5. CASE api # None
    <3>1. api' = [rv |-> api.rv + 1, content |-> content] BY <2>5 DEF Store
    <3>2. api \in Objects BY <2>5 DEF PipeInv, PipeTypes
    <3>3. api' \in Objects /\ api'.content = content /\ api'.rv = api.rv + 1
      BY <2>1, <2>5, <3>1, SMTT(30) DEF Objects
    <3> QED BY <2>3, <2>5, <3>2, <3>3
  <2> QED BY <2>4, <2>5
<1>2. CASE api = None
  <2>1. watch = <<>> /\ src.sanitized = None /\ src.observed = 0 /\ init # "done" /\ watch' = <<>>
    BY <1>2 DEF PipeInv, Settings, Store
  <2>2. PipeTypes' BY <1>0, <1>1, <2>1 DEF PipeInv, PipeTypes
  <2>3. Settings' BY <1>1, <2>1 DEF PipeInv, Settings
  <2>4. Queued' BY <2>1, SMTT(30) DEF Queued
  <2>5. Sanitizing' BY <1>0, <1>1, <2>1, SMTT(30) DEF Sanitizing, Objects
  <2>6. Pending' BY <1>0 DEF PipeInv, Pending
  <2> QED BY <2>2, <2>3, <2>4, <2>5, <2>6 DEF PipeInv
<1>3. CASE api # None
  <2>0. api \in Objects /\ api.rv \in Nat /\ api'.rv = api.rv + 1 /\ watch \in Seq(Objects)
    BY <1>1, <1>3 DEF PipeInv, PipeTypes, Objects
  <2>1. watch' = watch \/ watch' = Append(watch, api') BY DEF Store
  <2>2. watch' \in Seq(Objects) BY <1>1, <2>0, <2>1, SMTT(30)
  <2>3. PipeTypes' BY <1>0, <1>1, <2>2 DEF PipeInv, PipeTypes
  <2>4. Settings' BY <1>1, <1>3 DEF PipeInv, Settings
  <2>5. Queued'
    <3>1. \A i \in 1..Len(watch) : /\ watch[i] \in Objects /\ watch[i].rv \in Nat
                                   /\ watch[i].rv < api'.rv /\ src'.observed <= watch[i].rv
      <4> TAKE i \in 1..Len(watch)
      <4>1. watch[i] \in Objects BY <2>0, SMTT(30)
      <4>2. watch[i].rv \in Nat /\ watch[i].rv <= api.rv /\ src'.observed <= watch[i].rv
        BY <1>0, <4>1 DEF PipeInv, Queued, Objects
      <4> QED BY <2>0, <4>1, <4>2, SMTT(30)
    <3>2. src'.observed <= api'.rv
      <4>1. src.observed \in Nat /\ src.observed <= api.rv BY <1>3 DEF PipeInv, PipeTypes, Sanitizing
      <4> QED BY <1>0, <2>0, <4>1, SMTT(30)
    <3>3. \A i, j \in 1..Len(watch) : i < j => watch[i].rv < watch[j].rv BY DEF PipeInv, Queued
    <3>4. CASE watch' = watch BY <2>0, <3>1, <3>3, <3>4, SMTT(30) DEF Queued
    <3>5. CASE watch' = Append(watch, api')
      <4>1. /\ Len(watch) \in Nat /\ Len(watch') = Len(watch) + 1 /\ watch'[Len(watch) + 1] = api'
            /\ \A i \in 1..Len(watch) : watch'[i] = watch[i]
        BY <1>1, <2>0, <3>5, SMTT(30)
      <4>2. \A i \in 1..Len(watch') : i \in 1..Len(watch) \/ i = Len(watch) + 1 BY <4>1, SMTT(30)
      <4>3. api'.rv \in Nat BY <1>1 DEF Objects
      <4>4. \A i \in 1..Len(watch') : /\ watch'[i].rv <= api'.rv /\ src'.observed <= watch'[i].rv
                                      /\ watch'[i].rv = api'.rv => watch'[i] = api'
        BY <3>1, <3>2, <4>1, <4>2, <4>3, SMTT(30)
      <4>5. \A i, j \in 1..Len(watch') : i < j => watch'[i].rv < watch'[j].rv
        <5> SUFFICES ASSUME NEW i \in 1..Len(watch'), NEW j \in 1..Len(watch'), i < j
                     PROVE  watch'[i].rv < watch'[j].rv
          OBVIOUS
        <5>1. i \in 1..Len(watch) BY <4>1, SMTT(30)
        <5> QED BY <3>1, <3>3, <4>1, <4>2, <5>1
      <4> QED BY <4>4, <4>5 DEF Queued
    <3> QED BY <2>1, <3>4, <3>5
  <2>6. Sanitizing'
    <3>1. src.observed \in Nat /\ (src.sanitized # None => src.sanitized \in Objects /\ src.sanitized.rv \in Nat)
      BY DEF PipeInv, PipeTypes, Objects
    <3> QED BY <1>0, <1>1, <1>3, <2>0, <3>1, SMTT(30) DEF PipeInv, Sanitizing
  <2>7. Pending' BY <1>0 DEF PipeInv, Pending
  <2> QED BY <2>3, <2>4, <2>5, <2>6, <2>7 DEF PipeInv
<1> QED BY <1>2, <1>3

\* The watch starts over with the object.
LEMMA WatchStarts ==
    ASSUME PipeInv, api' \in Objects, api' # None, watch' = <<api'>>, source = "api",
           api = None \/ api' = api, api = None => api'.rv = 1,
           UNCHANGED <<source, src, rc, status>>,
           DOMAIN used' = DOMAIN used, used'.edits = used.edits
    PROVE  PipeInv'
<1>1. PipeTypes'
  <2>1. watch' \in Seq(Objects) BY SMTT(30)
  <2> QED BY <2>1 DEF PipeInv, PipeTypes
<1>2. Settings' BY DEF PipeInv, Settings
<1>3. src.observed \in Nat /\ src.observed <= api'.rv
  <2>1. CASE api = None
    <3>1. src.observed = 0 /\ api'.rv = 1 BY <2>1 DEF PipeInv, Settings
    <3> QED BY <3>1, SMTT(30)
  <2>2. CASE api # None BY <2>2 DEF PipeInv, PipeTypes, Sanitizing
  <2> QED BY <2>1, <2>2
<1>4. Queued'
  <2>1. Len(watch') = 1 /\ watch'[1] = api' BY SMTT(30)
  <2>2. api'.rv \in Nat BY DEF Objects
  <2>3. 1..1 = {1} BY SMTT(30)
  <2> QED BY <1>3, <2>1, <2>2, <2>3, SMTT(30) DEF Queued
<1>5. Sanitizing'
  <2>1. CASE api = None
    <3>1. src.sanitized = None BY <2>1 DEF PipeInv, Settings
    <3> QED BY <1>3, <3>1 DEF Sanitizing
  <2>2. CASE api # None BY <2>2 DEF PipeInv, Sanitizing
  <2> QED BY <2>1, <2>2
<1>6. Pending' BY DEF PipeInv, Pending
<1> QED BY <1>1, <1>2, <1>4, <1>5, <1>6 DEF PipeInv

\* The next version is newer than all that was observed before.
LEMMA ObserveStep ==
    ASSUME PipeInv, SourceObserve
    PROVE  PipeInv'
<1> DEFINE object == Head(watch)
<1>0. /\ watch \in Seq(Objects) /\ watch # <<>> /\ watch' = Tail(watch) /\ src.pending = None
      /\ src \in [observed : Nat, tried : Nat, sanitized : Objects \cup {None}, pending : Objects \cup {None}]
      /\ UNCHANGED <<source, init, api, rc, status, used>>
  BY DEF SourceObserve, env, PipeInv, PipeTypes
<1>1. /\ 1 \in 1..Len(watch) /\ object = watch[1] /\ object \in Objects /\ watch' \in Seq(Objects)
      /\ Len(watch) \in Nat /\ Len(watch') = Len(watch) - 1
      /\ \A i \in 1..Len(watch') : watch'[i] = watch[i + 1] /\ i + 1 \in 1..Len(watch) /\ 1 < i + 1
  BY <1>0, SMTT(30)
<1>2. source = "api" /\ api # None /\ api \in Objects BY <1>0 DEF PipeInv, PipeTypes, Settings
<1>3. /\ object.rv \in Nat /\ object.rv <= api.rv /\ src.observed <= object.rv
      /\ object.rv = api.rv => object = api
  <2>1. object.rv \in Nat BY <1>1 DEF Objects
  <2> QED BY <1>1, <2>1 DEF PipeInv, Queued
<1> HIDE DEF object
<1>4. \A i \in 1..Len(watch') :
        /\ watch'[i] \in Objects /\ object.rv < watch'[i].rv
        /\ watch'[i].rv <= api.rv /\ src.observed <= watch'[i].rv /\ (watch'[i].rv = api.rv => watch'[i] = api)
  <2> TAKE i \in 1..Len(watch')
  <2>1. watch'[i] \in Objects BY <1>1, SMTT(30)
  <2>2. object.rv < watch[i + 1].rv BY <1>1 DEF PipeInv, Queued
  <2> QED BY <1>1, <2>1, <2>2 DEF PipeInv, Queued
<1>5. \A i, j \in 1..Len(watch') : i < j => watch'[i].rv < watch'[j].rv
  <2> SUFFICES ASSUME NEW i \in 1..Len(watch'), NEW j \in 1..Len(watch'), i < j
               PROVE  watch'[i].rv < watch'[j].rv
    OBVIOUS
  <2>1. i + 1 < j + 1 BY <1>1, SMTT(30)
  <2> QED BY <1>1, <2>1 DEF PipeInv, Queued
<1>6. CASE src' = src
  <2>1. PipeTypes' BY <1>0, <1>1, <1>6 DEF PipeInv, PipeTypes
  <2>2. Settings' BY <1>0, <1>2, <1>6 DEF PipeInv, Settings
  <2>3. Queued' BY <1>0, <1>4, <1>5, <1>6 DEF Queued
  <2>4. Sanitizing' /\ Pending' BY <1>0, <1>6 DEF PipeInv, Sanitizing, Pending
  <2> QED BY <2>1, <2>2, <2>3, <2>4 DEF PipeInv
<1>7. CASE /\ object.rv # src.observed
           /\ src' = [src EXCEPT !.observed = object.rv,
                                 !.sanitized = IF object.content.sane THEN None ELSE Sanitized(object),
                                 !.pending = Sanitized(object)]
  <2>1. /\ Sanitized(object) \in Objects /\ Sanitized(object).rv = object.rv
        /\ Sanitized(object).content = [object.content EXCEPT !.sane = TRUE]
    BY <1>1 DEF Sanitized, Objects, Content
  <2>2. /\ src' \in [observed : Nat, tried : Nat, sanitized : Objects \cup {None}, pending : Objects \cup {None}]
        /\ src'.observed = object.rv /\ src'.sanitized \in {None, Sanitized(object)}
        /\ src'.pending = Sanitized(object)
    BY <1>0, <1>3, <1>7, <2>1
  <2>3. PipeTypes' BY <1>0, <1>1, <2>2 DEF PipeInv, PipeTypes
  <2>4. Settings' BY <1>0, <1>2 DEF PipeInv, Settings
  <2>5. Queued'
    <3>1. \A i \in 1..Len(watch') : object.rv <= watch'[i].rv
      <4> TAKE i \in 1..Len(watch')
      <4>1. watch'[i].rv \in Nat /\ object.rv < watch'[i].rv BY <1>4 DEF Objects
      <4> QED BY <1>3, <4>1, SMTT(30)
    <3> QED BY <1>0, <1>4, <1>5, <2>2, <3>1 DEF Queued
  <2>6. Sanitizing' BY <1>0, <1>2, <1>3, <2>1, <2>2 DEF Sanitizing
  <2>7. Pending'
    <3>1. src.observed \in Nat /\ src.observed < object.rv BY <1>0, <1>3, <1>7, SMTT(30)
    <3>2. rc.cfg # None => rc.cfg.rv \in Nat /\ rc.cfg.rv <= src.observed
      BY <1>2 DEF PipeInv, PipeTypes, Pending, Objects
    <3>3. status # None => status.rv \in Nat /\ status.rv <= src.observed
      BY <1>2 DEF PipeInv, PipeTypes, Pending
    <3>4. rc.cfg # None /\ status # None => status.rv < rc.cfg.rv BY DEF PipeInv, Pending
    <3> QED BY <1>0, <1>3, <2>1, <2>2, <3>1, <3>2, <3>3, <3>4, SMTT(30) DEF Pending
  <2> QED BY <2>3, <2>4, <2>5, <2>6, <2>7 DEF PipeInv
<1> QED BY <1>6, <1>7 DEF SourceObserve, object

\* A configuration goes from the source to the reconciler, and from there into the
\* status.
LEMMA HandOverStep ==
    ASSUME PipeInv, Receive \/ Report
    PROVE  PipeInv' /\ (status' # status => status = None \/ status'.rv > status.rv)
<1>1. CASE Receive
  <2>0. /\ src.pending # None /\ rc.cfg = None /\ src' = [src EXCEPT !.pending = None]
        /\ UNCHANGED <<source, init, api, watch, used>>
    BY <1>1 DEF Receive, env
  <2>1. /\ src' \in [observed : Nat, tried : Nat, sanitized : Objects \cup {None}, pending : Objects \cup {None}]
        /\ src'.observed = src.observed /\ src'.sanitized = src.sanitized /\ src'.pending = None
        /\ src.pending \in Objects /\ src.pending.rv \in Nat
    BY <2>0 DEF PipeInv, PipeTypes, Objects
  <2>2. Settings' /\ Queued' /\ Sanitizing' BY <2>0, <2>1 DEF PipeInv, Settings, Queued, Sanitizing
  <2>3. CASE rc' = [cfg |-> src.pending, pos |-> 1, failed |-> FALSE] /\ UNCHANGED status
    <3>1. DOMAIN rc' = {"cfg", "pos", "failed"} /\ rc'.cfg = src.pending BY <2>3
    <3>2. PipeTypes' BY <2>0, <2>1, <2>3, <3>1 DEF PipeInv, PipeTypes
    <3>3. Pending' BY <2>0, <2>1, <2>3, <3>1 DEF PipeInv, Pending
    <3> QED BY <2>2, <2>3, <3>2, <3>3 DEF PipeInv
  <2>4. CASE status' = [rv |-> src.pending.rv, ok |-> FALSE] /\ UNCHANGED rc
    <3>1. status' \in [rv : Nat, ok : BOOLEAN] /\ status'.rv = src.pending.rv BY <2>1, <2>4
    <3>2. PipeTypes' BY <2>0, <2>1, <2>4, <3>1 DEF PipeInv, PipeTypes
    <3>3. Pending' BY <2>0, <2>1, <2>4, <3>1 DEF PipeInv, Pending
    <3>4. status = None \/ status'.rv > status.rv
      <4>1. status # None => status.rv < src.pending.rv /\ status.rv \in Nat
        BY <2>0 DEF PipeInv, PipeTypes, Pending
      <4> QED BY <2>1, <3>1, <4>1, SMTT(30)
    <3> QED BY <2>2, <3>2, <3>3, <3>4 DEF PipeInv
  <2> QED BY <1>1, <2>3, <2>4 DEF Receive
<1>2. CASE Report
  <2>0. /\ rc.cfg # None /\ rc' = [rc EXCEPT !.cfg = None] /\ status' = [rv |-> rc.cfg.rv, ok |-> ~rc.failed]
        /\ UNCHANGED <<source, init, api, watch, src, used>>
    BY <1>2 DEF Report, env
  <2>1. /\ DOMAIN rc' = {"cfg", "pos", "failed"} /\ rc'.cfg = None /\ rc.cfg.rv \in Nat
    BY <2>0 DEF PipeInv, PipeTypes, Objects
  <2>2. status' \in [rv : Nat, ok : BOOLEAN] /\ status'.rv = rc.cfg.rv BY <2>0, <2>1
  <2>3. PipeTypes' BY <2>0, <2>1, <2>2 DEF PipeInv, PipeTypes
  <2>4. Settings' /\ Queued' /\ Sanitizing' BY <2>0 DEF PipeInv, Settings, Queued, Sanitizing
  <2>5. Pending' BY <2>0, <2>1, <2>2 DEF PipeInv, Pending
  <2>6. status = None \/ status'.rv > status.rv
    <3>1. status # None => status.rv < rc.cfg.rv /\ status.rv \in Nat
      BY <2>0 DEF PipeInv, PipeTypes, Pending
    <3> QED BY <2>1, <2>2, <3>1, SMTT(30)
  <2> QED BY <2>3, <2>4, <2>5, <2>6 DEF PipeInv
<1> QED BY <1>1, <1>2

\* What is written back is the object with its feature gates sanitized, unless a newer
\* version is there.
LEMMA WriteBackStep ==
    ASSUME PipeInv, WriteSanitized
    PROVE  PipeInv' /\ (api # None => [api'.content EXCEPT !.sane = api.content.sane] = api.content)
<1>0. /\ src.sanitized # None /\ src' = [src EXCEPT !.tried = src.sanitized.rv]
      /\ UNCHANGED <<source, init, rc, status, used>>
  BY DEF WriteSanitized, env
<1>1. /\ src.sanitized \in Objects /\ src.sanitized.rv \in Nat /\ src.sanitized.content \in Content
      /\ src' = [src EXCEPT !.tried = src'.tried] /\ src'.tried \in Nat
      /\ src' \in [observed : Nat, tried : Nat, sanitized : Objects \cup {None}, pending : Objects \cup {None}]
      /\ src'.observed = src.observed /\ src'.sanitized = src.sanitized /\ src'.pending = src.pending
  BY <1>0 DEF PipeInv, PipeTypes, Objects
<1>2. source = "api" /\ api # None /\ api \in Objects BY <1>0 DEF PipeInv, PipeTypes, Settings
<1>3. CASE api.rv = src.sanitized.rv /\ Store(src.sanitized.content)
  <2>1. PipeInv' BY <1>0, <1>1, <1>2, <1>3, StoreStep DEF PipeInv, PipeTypes
  <2>2. api'.content = src.sanitized.content BY <1>2, <1>3 DEF Store
  <2>3. src.sanitized.content = [api.content EXCEPT !.sane = TRUE] BY <1>0, <1>3 DEF PipeInv, Sanitizing
  <2>4. api.content \in Content BY <1>2 DEF Objects
  <2>5. [[api.content EXCEPT !.sane = TRUE] EXCEPT !.sane = api.content.sane] = api.content
    BY <2>4 DEF Content
  <2> QED BY <2>1, <2>2, <2>3, <2>5
<1>4. CASE UNCHANGED <<api, watch>>
  <2>1. PipeTypes' BY <1>0, <1>1, <1>4 DEF PipeInv, PipeTypes
  <2>2. Settings' /\ Queued' BY <1>0, <1>1, <1>4 DEF PipeInv, Settings, Queued
  <2>3. Sanitizing' /\ Pending' BY <1>0, <1>1, <1>4 DEF PipeInv, Sanitizing, Pending
  <2>4. [api'.content EXCEPT !.sane = api.content.sane] = api.content
    BY <1>2, <1>4 DEF Objects, Content
  <2> QED BY <2>1, <2>2, <2>3, <2>4 DEF PipeInv
<1> QED BY <1>3, <1>4 DEF WriteSanitized

\* The initializer, and what goes on around the controller.
LEMMA AroundStep ==
    ASSUME PipeInv, Initialize \/ WatchRestart \/ LeadChanges
    PROVE  PipeInv' /\ UNCHANGED status /\ (api # None => api' = api)
<1>0. None \notin Objects BY PipelineAssumption DEF Objects
<1>1. Use("trouble") => DOMAIN used' = DOMAIN used /\ used'.edits = used.edits BY DEF Use, PipeInv, PipeTypes
<1>2. Fail("initializer") => DOMAIN used' = DOMAIN used /\ used'.edits = used.edits BY DEF Fail, PipeInv, PipeTypes
<1>3. CASE WatchRestart
  <2>1. api # None /\ api \in Objects BY <1>3 DEF WatchRestart, PipeInv, PipeTypes, Settings
  <2>2. /\ source = "api" /\ watch' = <<api'>> /\ api' = api /\ UNCHANGED <<source, src, rc, status>>
        /\ DOMAIN used' = DOMAIN used /\ used'.edits = used.edits
    BY <1>1, <1>3 DEF WatchRestart, env
  <2> QED BY <2>1, <2>2, WatchStarts
<1>4. CASE LeadChanges
  <2>1. /\ src' = [src EXCEPT !.tried = 0] /\ UNCHANGED <<source, init, api, watch, rc, status>>
        /\ DOMAIN used' = DOMAIN used /\ used'.edits = used.edits
    BY <1>1, <1>4 DEF LeadChanges, env
  <2>2. 0 \in Nat BY SMTT(30)
  <2>3. /\ src' \in [observed : Nat, tried : Nat, sanitized : Objects \cup {None}, pending : Objects \cup {None}]
        /\ src'.observed = src.observed /\ src'.sanitized = src.sanitized /\ src'.pending = src.pending
    BY <2>1, <2>2 DEF PipeInv, PipeTypes
  <2>4. PipeTypes' BY <2>1, <2>3 DEF PipeInv, PipeTypes
  <2>5. Settings' /\ Queued' BY <2>1, <2>3 DEF PipeInv, Settings, Queued
  <2>6. Sanitizing' /\ Pending' BY <2>1, <2>3 DEF PipeInv, Sanitizing, Pending
  <2> QED BY <2>1, <2>4, <2>5, <2>6 DEF PipeInv
<1>5. CASE Initialize
  <2>1. /\ source = "api" /\ UNCHANGED <<source, src, rc, status>>
        /\ DOMAIN used' = DOMAIN used /\ used'.edits = used.edits
    BY <1>2, <1>5 DEF Initialize, InitCheck, InitLead, PipeInv, Settings, env
  <2>2. CASE init' = "done"
    <3>1. watch' = <<api'>> /\ (api = None \/ api' = api) BY <1>5, <2>2 DEF Initialize, InitCheck, InitLead, InitDone
    <3>2. CASE api = None
      <4>1. PICK content \in InitialContents : api' = [rv |-> 1, content |-> content]
        BY <1>5, <2>2, <3>2 DEF Initialize, InitCheck, InitLead
      <4>2. content \in Content BY PipelineAssumption
      <4>3. api' \in Objects /\ api'.rv = 1 BY <4>1, <4>2, SMTT(30) DEF Objects
      <4> QED BY <1>0, <2>1, <3>1, <3>2, <4>3, WatchStarts
    <3>3. CASE api # None
      <4>1. api' \in Objects /\ api' # None BY <3>1, <3>3 DEF PipeInv, PipeTypes
      <4> QED BY <2>1, <3>1, <3>3, <4>1, WatchStarts
    <3> QED BY <3>2, <3>3
  <2>3. CASE init' # "done"
    <3>1. UNCHANGED <<api, watch>> BY <1>5, <2>3 DEF Initialize, InitCheck, InitLead, InitDone
    <3>2. PipeTypes' BY <2>1, <3>1 DEF PipeInv, PipeTypes
    <3>3. Settings' BY <2>1, <2>3, <3>1 DEF PipeInv, Settings
    <3>4. Queued' /\ Sanitizing' /\ Pending' BY <2>1, <3>1 DEF PipeInv, Queued, Sanitizing, Pending
    <3> QED BY <2>1, <3>1, <3>2, <3>3, <3>4 DEF PipeInv
  <2> QED BY <2>2, <2>3
<1> QED BY <1>3, <1>4, <1>5

KeepsUserEdits ==
    (api # None /\ used'.edits = used.edits)
      => [api'.content EXCEPT !.sane = api.content.sane] = api.content

ReportsNewer == status' # status => status = None \/ status'.rv > status.rv

LEMMA PipeStep ==
    ASSUME PipeInv, [Next]_vars
    PROVE  PipeInv' /\ KeepsUserEdits /\ ReportsNewer
<1>1. api # None /\ api' = api => KeepsUserEdits
  BY DEF KeepsUserEdits, PipeInv, PipeTypes, Objects, Content
<1>2. CASE UNCHANGED vars
  <2>1. Untouched BY <1>2 DEF vars, env, pipe, Untouched
  <2> QED BY <1>1, <2>1, UntouchedIsKept DEF Untouched, ReportsNewer, KeepsUserEdits
<1>3. CASE ComponentSteps \/ NodesChange \/ ServersChange \/ CountWindows
  <2>1. Untouched BY <1>3, ComponentsLeaveItAlone DEF PipeInv
  <2> QED BY <1>1, <2>1, UntouchedIsKept DEF Untouched, ReportsNewer, KeepsUserEdits
<1>4. ASSUME NEW content \in Contents, Edit(content) PROVE PipeInv' /\ KeepsUserEdits /\ ReportsNewer
  <2>1. /\ source = "api" /\ Store(content) /\ UNCHANGED <<source, init, src, rc, status>>
        /\ used' = [used EXCEPT !["edits"] = @ + 1]
    BY <1>4 DEF Edit, env, Use
  <2>2. content \in Content BY PipelineAssumption
  <2>3. used.edits + 1 \in Nat /\ used.edits + 1 # used.edits BY SMTT(30) DEF PipeInv, PipeTypes
  <2>4. DOMAIN used' = DOMAIN used /\ used'.edits = used.edits + 1 BY <2>1 DEF PipeInv, PipeTypes
  <2>5. src' = [src EXCEPT !.tried = src'.tried] /\ src'.tried \in Nat BY <2>1 DEF PipeInv, PipeTypes
  <2>6. PipeInv' BY <2>1, <2>2, <2>3, <2>4, <2>5, StoreStep
  <2> QED BY <2>1, <2>3, <2>4, <2>6 DEF KeepsUserEdits, ReportsNewer
<1>5. ASSUME NEW content \in InitialContents, OtherCreates(content) PROVE PipeInv' /\ KeepsUserEdits /\ ReportsNewer
  <2>1. /\ source = "api" /\ Store(content) /\ UNCHANGED <<source, init, src, rc, status, used>> /\ api = None
    BY <1>5 DEF OtherCreates, env
  <2>2. content \in Content BY PipelineAssumption
  <2>3. /\ src' = [src EXCEPT !.tried = src'.tried] /\ src'.tried \in Nat /\ used'.edits \in Nat
    BY <2>1 DEF PipeInv, PipeTypes
  <2>4. PipeInv' BY <2>1, <2>2, <2>3, StoreStep
  <2> QED BY <2>1, <2>4 DEF KeepsUserEdits, ReportsNewer
<1>6. CASE Initialize \/ WatchRestart \/ LeadChanges
  BY <1>1, <1>6, AroundStep DEF KeepsUserEdits, ReportsNewer
<1>7. CASE SourceObserve
  BY <1>1, <1>7, ObserveStep DEF SourceObserve, KeepsUserEdits, ReportsNewer
<1>8. CASE WriteSanitized
  BY <1>8, WriteBackStep DEF WriteSanitized, KeepsUserEdits, ReportsNewer
<1>9. CASE Receive \/ Report
  BY <1>1, <1>9, HandOverStep DEF Receive, Report, KeepsUserEdits, ReportsNewer
<1> QED
  BY <1>2, <1>3, <1>4, <1>5, <1>6, <1>7, <1>8, <1>9 DEF Next, Environment, Reconcile, ComponentSteps

LEMMA PipeInitially == Init => PipeInv
<1> SUFFICES ASSUME Init PROVE PipeInv
  OBVIOUS
<1>1. PICK content \in InitialContents :
        src = [observed |-> 0, tried |-> 0, sanitized |-> None,
               pending |-> IF source = "api" THEN None ELSE [rv |-> 1, content |-> content]]
  BY DEF Init, StaticSource
<1>2. [rv |-> 1, content |-> content] \in Objects BY PipelineAssumption, SMTT(30) DEF Objects
<1>3. 0 \in Nat /\ <<>> \in Seq(Objects) /\ 1..Len(<<>>) = {} BY SMTT(30)
<1>4. PipeTypes BY <1>1, <1>2, <1>3 DEF Init, PipeTypes
<1>5. Settings BY <1>1, PipelineAssumption DEF Init, Settings
<1>6. Queued /\ Sanitizing BY <1>1, <1>3 DEF Init, Queued, Sanitizing
<1>7. Pending BY <1>1 DEF Init, Pending
<1> QED BY <1>4, <1>5, <1>6, <1>7 DEF PipeInv

\* Writes to the configuration are orderly, for any configurations, edits, failures,
\* restarts of the watch and changes of the leader: what the controller writes back to
\* the ClusterConfig only touches its feature gates, also when it is edited at the same
\* time (clusterconfig sources), and outcomes are reported in the order of the versions,
\* none of them twice (clusterconfig.go).
THEOREM ConfigurationIsWrittenInOrder == Spec => WritesAreOrderly
<1>1. PipeInv /\ [Next]_vars => PipeInv' BY PipeStep
<1>2. PipeInv /\ [Next]_vars =>
        [(api # None /\ used'.edits = used.edits)
           => [api'.content EXCEPT !.sane = api.content.sane] = api.content]_vars
  BY PipeStep DEF KeepsUserEdits
<1>3. PipeInv /\ [Next]_vars => [status' # status => status = None \/ status'.rv > status.rv]_vars
  BY PipeStep DEF ReportsNewer
<1> QED
  BY <1>1, <1>2, <1>3, PipeInitially, PTL DEF Spec, WritesAreOrderly, UserEditsKept, ReportedInOrder
=============================================================================
