----------------------------- MODULE JoinCluster -----------------------------
(***************************************************************************)
(* How nodes become part of a cluster: join tokens (pkg/token, cmd/token), *)
(* the control API that hands out the cluster's keys (cmd/api), the        *)
(* controller that joins (needToJoin, joinController, writeCerts of        *)
(* cmd/controller), the certificates every controller ensures when it      *)
(* starts (cmd/controller/certificates.go, pkg/certificate) and the        *)
(* bootstrapping of a worker's kubelet (pkg/component/worker/utils.go).    *)
(*                                                                         *)
(* Keys are told apart by who has made them, and when.  Nodes crash        *)
(* between any two files they write; tokens expire and are invalidated.    *)
(***************************************************************************)
EXTENDS Naturals, FiniteSets, Sequences

CONSTANTS
    First,        \* the controller that has founded the cluster
    Joiners,      \* the controllers that join it
    Workers,      \* the workers that join it
    Storages,     \* of "etcd" (managed) and "kine" (or an external etcd)
    MaxCrashes,   \* bound: how often nodes crash
    MaxTokens     \* bound: how many tokens are created

Controllers == {First} \cup Joiners

ASSUME JoinAssumption ==
    /\ First \notin Joiners
    /\ Workers \cap Controllers = {}

Nodes == Controllers \cup Workers

NoKey == <<"no key", 0>>
PkiFiles == {"ca.key", "ca.crt", "sa.key", "sa.pub"}

VARIABLES
    jcStorage,    \* the storage type of the cluster
    jcTokens,     \* the bootstrap token secrets: id -> [role, expired]
    jcHeld,       \* the token a node is started with: [id, role], id 0 for none
    jcPhase,      \* what a node is doing
    jcFiles,      \* the keys and certificates in a controller's pki directory
    jcLeaf,       \* the CA that has signed a controller's certificates
    jcGot,        \* the CA response a joining controller has received
    jcData,       \* etcd's data directory, a worker's kubelet kubeconfig
    jcBootstrap,  \* the worker's temporary bootstrap kubeconfig exists
    jcMade,       \* how many key pairs have been generated
    jcCrashes

jcVars == <<jcStorage, jcTokens, jcHeld, jcPhase, jcFiles, jcLeaf, jcGot, jcData, jcBootstrap,
            jcMade, jcCrashes>>

jcSecrets == <<jcTokens, jcHeld>>
jcDisk == <<jcFiles, jcLeaf, jcData, jcBootstrap>>

------------------------------------------------------------------------------
(* Tokens                                                                  *)

(* The secret of a bootstrap token, with a random ID, for one role.        *)
BootstrapSecret(role) == [role |-> role, state |-> "valid"]

(* `k0s token create`, on a controller that runs.  A secret is created for *)
(* the role and the kubeconfig around it is encoded into a token.          *)
CreateToken(role) ==
    /\ jcPhase[First] = "up"
    /\ Cardinality(DOMAIN jcTokens) < MaxTokens
    /\ LET id == Cardinality(DOMAIN jcTokens) + 1
       IN jcTokens' = [i \in 1..id |-> IF i = id THEN BootstrapSecret(role) ELSE jcTokens[i]]
    /\ UNCHANGED <<jcStorage, jcHeld, jcPhase, jcDisk, jcGot, jcMade, jcCrashes>>

(* `k0s token invalidate` deletes the secret; a token that expires is      *)
(* refused while its secret still exists.                                  *)
InvalidateToken(id) ==
    /\ jcTokens[id].state = "valid"
    /\ \E s \in {"expired", "deleted"} : jcTokens' = [jcTokens EXCEPT ![id].state = s]
    /\ UNCHANGED <<jcStorage, jcHeld, jcPhase, jcDisk, jcGot, jcMade, jcCrashes>>

(* The operator hands a token to a node: of either role.                   *)
HandToken(n, id) ==
    /\ jcPhase[n] = "off" /\ n # First
    /\ jcHeld[n] # id
    /\ jcHeld' = [jcHeld EXCEPT ![n] = id]
    /\ UNCHANGED <<jcStorage, jcTokens, jcPhase, jcDisk, jcGot, jcMade, jcCrashes>>

(* isValidToken: the secret exists, has not expired and is for that use.   *)
IsValidToken(id, role) ==
    id # 0 /\ jcTokens[id].role = role /\ jcTokens[id].state = "valid"

------------------------------------------------------------------------------
(* A controller starts                                                     *)

(* needToJoin: etcd's data directory tells, or else the CA.                *)
NeedToJoinByCA(n) ==
    ~(jcFiles[n]["ca.key"] # NoKey /\ jcFiles[n]["ca.crt"] # NoKey)

NeedToJoin(n) ==
    IF jcStorage = "etcd" THEN ~jcData[n]
    ELSE ~(jcFiles[n]["ca.key"] # NoKey /\ jcFiles[n]["ca.crt"] # NoKey)

GoOn(n, phase) == jcPhase' = [jcPhase EXCEPT ![n] = phase]

(* The start of `k0s controller`: a controller that has to join and has    *)
(* got a token joins; one without a token founds a cluster of its own,     *)
(* which only the first one is started for.                                *)
StartController(n) ==
    /\ jcPhase[n] = "off"
    /\ n = First \/ jcHeld[n] # 0
    /\ GoOn(n, IF NeedToJoin(n) /\ jcHeld[n] # 0 THEN "asking" ELSE "ca")
    /\ UNCHANGED <<jcStorage, jcSecrets, jcDisk, jcGot, jcMade, jcCrashes>>

(* caHandler: the four files of the controller that is asked.              *)
CaHandler(n) ==
    /\ \A f \in PkiFiles : jcFiles[First][f] # NoKey
    /\ jcGot' = [jcGot EXCEPT ![n] = jcFiles[First]]

(* JoinClient.GetCA: the API of the controller in the token is asked.      *)
Answers(n) == jcPhase[First] = "up" /\ IsValidToken(jcHeld[n], "controller")

GetCA(n) == Answers(n) /\ CaHandler(n)

(* joinController: the type of the token has to match, and the request is  *)
(* repeated until it is answered or the attempts are used up.              *)
JoinController(n) ==
    /\ jcPhase[n] = "asking"
    /\ \/ /\ GetCA(n)
          /\ GoOn(n, "ca.key")
       \/ /\ ~Answers(n)
          /\ GoOn(n, "off")
          /\ UNCHANGED jcGot
    /\ UNCHANGED <<jcStorage, jcSecrets, jcDisk, jcMade, jcCrashes>>

(* writeCerts: one file after the other.                                   *)
WriteCerts(n) ==
    /\ jcPhase[n] \in PkiFiles
    /\ jcFiles' = [jcFiles EXCEPT ![n][jcPhase[n]] = jcGot[n][jcPhase[n]]]
    /\ GoOn(n, CASE jcPhase[n] = "ca.key" -> "ca.crt"
                 [] jcPhase[n] = "ca.crt" -> "sa.key"
                 [] jcPhase[n] = "sa.key" -> "sa.pub"
                 [] OTHER -> "ca")
    /\ UNCHANGED <<jcStorage, jcSecrets, jcLeaf, jcGot, jcData, jcBootstrap, jcMade, jcCrashes>>

(* EnsureCA: both files exist, or both are made anew; the key comes first. *)
EnsureCA(n) ==
    /\ jcPhase[n] \in {"ca", "ca made"}
    /\ IF jcPhase[n] = "ca"
         THEN IF jcFiles[n]["ca.key"] # NoKey /\ jcFiles[n]["ca.crt"] # NoKey
                THEN /\ GoOn(n, "sa")
                     /\ UNCHANGED <<jcFiles, jcMade>>
                ELSE /\ GoOn(n, "ca made")
                     /\ jcMade' = jcMade + 1
                     /\ jcFiles' = [jcFiles EXCEPT ![n]["ca.key"] = <<n, jcMade + 1>>]
         ELSE /\ GoOn(n, "sa")
              /\ jcFiles' = [jcFiles EXCEPT ![n]["ca.crt"] = jcFiles[n]["ca.key"]]
              /\ UNCHANGED jcMade
    /\ UNCHANGED <<jcStorage, jcSecrets, jcLeaf, jcGot, jcData, jcBootstrap, jcCrashes>>

(* CreateKeyPair, for the service account tokens: likewise.                *)
CreateKeyPair(n) ==
    /\ jcPhase[n] \in {"sa", "sa made"}
    /\ IF jcPhase[n] = "sa"
         THEN IF jcFiles[n]["sa.key"] # NoKey /\ jcFiles[n]["sa.pub"] # NoKey
                THEN /\ GoOn(n, "leaf")
                     /\ UNCHANGED <<jcFiles, jcMade>>
                ELSE /\ GoOn(n, "sa made")
                     /\ jcMade' = jcMade + 1
                     /\ jcFiles' = [jcFiles EXCEPT ![n]["sa.key"] = <<n, jcMade + 1>>]
         ELSE /\ GoOn(n, "leaf")
              /\ jcFiles' = [jcFiles EXCEPT ![n]["sa.pub"] = jcFiles[n]["sa.key"]]
              /\ UNCHANGED jcMade
    /\ UNCHANGED <<jcStorage, jcSecrets, jcLeaf, jcGot, jcData, jcBootstrap, jcCrashes>>

(* EnsureCertificate, for the certificates of all the components: those    *)
(* that a k0s CA has issued are made anew on every start (regenerateCert,  *)
(* isManagedByK0s), signed with the CA files.  Then the components start,  *)
(* the control API included, and etcd creates its data directory.          *)
EnsureCertificate(n) ==
    /\ jcPhase[n] = "leaf"
    /\ jcLeaf' = [jcLeaf EXCEPT ![n] = jcFiles[n]["ca.key"]]
    /\ jcData' = [jcData EXCEPT ![n] = TRUE]
    /\ GoOn(n, "up")
    /\ UNCHANGED <<jcStorage, jcSecrets, jcFiles, jcGot, jcBootstrap, jcMade, jcCrashes>>

------------------------------------------------------------------------------
(* A worker starts                                                         *)

(* BootstrapKubeletClientConfig: an existing kubeconfig comes before the   *)
(* token, which the service is started with again and again.               *)
StartWorker(n) ==
    /\ jcPhase[n] = "off"
    /\ jcData[n] \/ jcHeld[n] # 0
    /\ IF jcData[n]
         THEN GoOn(n, "up") /\ UNCHANGED jcBootstrap
         ELSE /\ jcTokens[jcHeld[n]].role = "worker"
              /\ jcBootstrap' = [jcBootstrap EXCEPT ![n] = TRUE]
              /\ GoOn(n, "bootstrapping")
    /\ UNCHANGED <<jcStorage, jcSecrets, jcFiles, jcLeaf, jcGot, jcData, jcMade, jcCrashes>>

(* LoadClientCert, retried, and the removal of the temporary file.         *)
LoadClientCert(n) ==
    /\ jcPhase[n] = "bootstrapping"
    /\ \/ /\ jcPhase[First] = "up" /\ IsValidToken(jcHeld[n], "worker")
          /\ jcData' = [jcData EXCEPT ![n] = TRUE]
          /\ GoOn(n, "bootstrapped")
       \/ /\ ~(jcPhase[First] = "up" /\ IsValidToken(jcHeld[n], "worker"))
          /\ GoOn(n, "failed")
          /\ UNCHANGED jcData
    /\ UNCHANGED <<jcStorage, jcSecrets, jcFiles, jcLeaf, jcGot, jcBootstrap, jcMade, jcCrashes>>

RemoveBootstrap(n) ==
    /\ jcPhase[n] \in {"bootstrapped", "failed"}
    /\ jcBootstrap' = [jcBootstrap EXCEPT ![n] = FALSE]
    /\ GoOn(n, IF jcPhase[n] = "failed" THEN "off" ELSE "up")
    /\ UNCHANGED <<jcStorage, jcSecrets, jcFiles, jcLeaf, jcGot, jcData, jcMade, jcCrashes>>

(* A node goes down; the files in /run go with it.                         *)
NodeCrashes(n) ==
    /\ jcPhase[n] # "off"
    /\ jcCrashes < MaxCrashes
    /\ jcCrashes' = jcCrashes + 1
    /\ GoOn(n, "off")
    /\ jcBootstrap' = [jcBootstrap EXCEPT ![n] = FALSE]
    /\ jcGot' = [jcGot EXCEPT ![n] = [f \in PkiFiles |-> NoKey]]
    /\ UNCHANGED <<jcStorage, jcSecrets, jcFiles, jcLeaf, jcData, jcMade>>

JcInit ==
    /\ jcStorage \in Storages
    /\ jcTokens = <<>>
    /\ jcHeld = [n \in Nodes |-> 0]
    /\ jcPhase = [n \in Nodes |-> "off"]
    /\ jcFiles = [n \in Controllers |-> [f \in PkiFiles |-> NoKey]]
    /\ jcLeaf = [n \in Controllers |-> NoKey]
    /\ jcGot = [n \in Nodes |-> [f \in PkiFiles |-> NoKey]]
    /\ jcData = [n \in Nodes |-> FALSE]
    /\ jcBootstrap = [n \in Nodes |-> FALSE]
    /\ jcMade = 0 /\ jcCrashes = 0

ControllerStep(n) ==
    \/ StartController(n) \/ JoinController(n) \/ WriteCerts(n)
    \/ EnsureCA(n) \/ CreateKeyPair(n) \/ EnsureCertificate(n)

WorkerStep(n) == StartWorker(n) \/ LoadClientCert(n) \/ RemoveBootstrap(n)

JcNext ==
    \/ \E role \in {"controller", "worker"} : CreateToken(role)
    \/ \E id \in DOMAIN jcTokens : InvalidateToken(id) \/ \E n \in Nodes : HandToken(n, id)
    \/ \E n \in Controllers : ControllerStep(n)
    \/ \E n \in Workers : WorkerStep(n)
    \/ \E n \in Nodes : NodeCrashes(n)

(* The init system starts the service again whenever it has ended.         *)
JcSpec ==
    /\ JcInit /\ [][JcNext]_jcVars
    /\ \A n \in Controllers : WF_jcVars(ControllerStep(n))
    /\ \A n \in Workers : WF_jcVars(WorkerStep(n))

------------------------------------------------------------------------------
JcTypeOK ==
    /\ jcStorage \in Storages
    /\ jcHeld \in [Nodes -> 0..MaxTokens]
    /\ jcData \in [Nodes -> BOOLEAN]
    /\ jcBootstrap \in [Nodes -> BOOLEAN]
    /\ jcMade \in Nat /\ jcCrashes \in 0..MaxCrashes

(* Whenever a controller is up, its CA certificate, its service account    *)
(* key and all its certificates belong to the keys it has; and in a        *)
(* cluster with managed etcd, those are the keys of the whole cluster,     *)
(* wherever it has crashed while it joined.                                *)
KeysBelongTogether ==
    \A n \in Controllers : jcPhase[n] = "up" =>
        /\ jcFiles[n]["ca.key"] = jcFiles[n]["ca.crt"]
        /\ jcFiles[n]["sa.key"] = jcFiles[n]["sa.pub"]
        /\ jcLeaf[n] = jcFiles[n]["ca.crt"]
        /\ jcStorage = "etcd" => jcFiles[n] = jcFiles[First]

(* "if we've got [...] a ca for external or other storage types, we assume *)
(* the node has already joined previously" (cmd/controller/controller.go,  *)
(* above needToJoin): a controller that has joined has the cluster's keys. *)
JoinedHasClusterKeys ==
    \A n \in Joiners : jcPhase[n] = "up" => jcFiles[n] = jcFiles[First]

(* A node that has joined comes up again whenever it has crashed, whatever *)
(* has become of the token it is started with (what makes it a joined one, *)
(* jcData, is never taken away again).                                     *)
JoinedComeBack ==
    \A n \in Nodes : []<>(jcData[n] => jcPhase[n] = "up")

==============================================================================
