------------------------------ MODULE Provider ------------------------------
(***************************************************************************)
(* What the SDK remembers of its node (src/src/algorand/                   *)
(* algorand_provider.c): m_provider.version, filled by                     *)
(* provider_version_get and cleared by provider_init; the two static       *)
(* variables of provider_tx_params_load, which nothing clears; and rx_buf, *)
(* which nothing clears either, so that an answer without a body is read   *)
(* from what the answer before it has left (module Requests has the bytes).*)
(* A transaction takes its genesis hash, fee and first round from the      *)
(* answer or, when the node cannot be reached, from the copies.            *)
(***************************************************************************)
EXTENDS Naturals

CONSTANTS Network,          \* the networks whose nodes the SDK may be given
          MinFee,           \* the fee each of them asks
          DefaultFee,       \* TX_DEFAULT_FEE
          Release,          \* releases a node may run: the number of each Part
          Fields,           \* sets of fields the body of an answer may have
          ValidRounds,      \* rounds a transaction stays valid: 1000 in the code
          MaxRound,         \* bound: rounds of a network in a run
          MaxCalls          \* bound: calls of provider_version_get counted

Part == {"major", "minor", "patch"}

(* "json": the body is JSON at all.  Of its fields, "id_too_long" is a     *)
(* genesis_id, and "bad_hash" a genesis_hash_b64, that does not fit.       *)
Field == {"json", "id_too_long", "hash", "bad_hash", "fee", "round"} \cup Part

ASSUME ProviderAssumption ==
  /\ MinFee \in [Network -> Nat \ {0}]
  /\ DefaultFee \in Nat
  /\ Release \subseteq [Part -> Nat]
  /\ Fields \subseteq SUBSET Field
  /\ ValidRounds \in Nat
  /\ MaxRound \in Nat
  /\ MaxCalls \in Nat \ {0}

VARIABLES version,        \* m_provider.version
          m_min_fee, m_first_valid,   \* the static copies
          rx_buf,         \* the body received last
          node,           \* the network of the node the SDK was given
          round,          \* the last round of each network
          ret,            \* what the last call returned
          tx,             \* the transaction the last params load filled
          told,           \* history: what the node itself has told the SDK
          misread         \* history: was a body of an earlier node read since?

copies == <<m_min_fee, m_first_valid>>
history == <<told, misread>>
vars == <<version, copies, rx_buf, node, round, ret, tx, history>>

Unknown == "unknown"          \* a zeroed genesis hash, or no network
Hash(n) == n                  \* the genesis hash names its network

NoRelease == [p \in Part |-> 0]

(* The version is known well enough to answer VTC_ERROR_OFFLINE *)
HasRelease == \A p \in Part : version.release[p] # 0

ZeroVersion == [update_count |-> 0, genesis_hash |-> Unknown, release |-> NoRelease]

(* tx_full as transaction_pay passes it, and what the load leaves in it    *)
EmptyTx == [genesis_hash |-> Unknown, fee |-> DefaultFee, first_valid |-> 0, last_valid |-> 0]

EmptyBody == [from |-> Unknown, fields |-> {}, round |-> 0, release |-> NoRelease]

Init ==
  /\ version = ZeroVersion
  /\ m_min_fee = 0 /\ m_first_valid = 0
  /\ rx_buf = EmptyBody
  /\ node \in Network
  /\ round = [n \in Network |-> 0]
  /\ ret = "none"
  /\ tx = EmptyTx
  /\ told = {} /\ misread = FALSE
-----------------------------------------------------------------------------
(* mutant: the version of the earlier node is kept *)
VersionKept ==
  /\ node' \in Network
  /\ ret' = "none"
  /\ tx' = EmptyTx
  /\ told' = {} /\ misread' = FALSE
  /\ UNCHANGED <<version, copies, rx_buf, round>>

(* vertices_new, perhaps with another node: m_provider.version is cleared, *)
(* m_min_fee, m_first_valid and rx_buf are not.                            *)
provider_init ==
  /\ node' \in Network
  /\ version' = ZeroVersion
  /\ ret' = "none"
  /\ tx' = EmptyTx
  /\ told' = {} /\ misread' = FALSE
  /\ UNCHANGED <<copies, rx_buf, round>>
-----------------------------------------------------------------------------
(* A body the node sends now, of which only what is there is kept *)
Body(fields, release) ==
  [from |-> node, fields |-> fields,
   round |-> IF "round" \in fields THEN round[node] ELSE 0,
   release |-> [p \in Part |-> IF p \in fields THEN release[p] ELSE 0]]

Received == \E fields \in Fields, release \in Release : rx_buf' = Body(fields, release)

(* An empty answer with a good status leaves the body that was there. *)
Answered == Received \/ UNCHANGED rx_buf

(* curl_easy_perform failed, perhaps half way, or the status was not good. *)
Unreachable == Received \/ UNCHANGED rx_buf

IsJson(body) == "json" \in body.fields

(* What a read of rx_buf tells of the node it is taken to be from *)
Read(heard) ==
  /\ told' = IF rx_buf'.from = node THEN told \cup (heard \cap rx_buf'.fields) ELSE told
  /\ misread' = (misread \/ (rx_buf'.from # node /\ IsJson(rx_buf')))

(* `update_count += 1', whatever the request gave; counted up to MaxCalls  *)
(* because only its being 0 is looked at                                   *)
Counted(v) ==
  [v EXCEPT !.update_count = IF @ < MaxCalls THEN @ + 1 ELSE @]

(* Neither the body nor its genesis_id or hash could be used: the call     *)
(* returns before it counts.                                               *)
VersionUnusable ==
  /\ Answered
  /\ \/ ~IsJson(rx_buf') /\ ret' = "INTERNAL"
     \/ IsJson(rx_buf') /\ rx_buf'.fields \cap {"id_too_long", "bad_hash"} # {} /\ ret' = "NO_MEM"
  /\ UNCHANGED <<version, history>>

(* A field the body does not have stays as it was. *)
VersionFetched ==
  /\ Answered
  /\ IsJson(rx_buf') /\ rx_buf'.fields \cap {"id_too_long", "bad_hash"} = {}
  /\ version' = Counted([version EXCEPT
       !.genesis_hash = IF "hash" \in rx_buf'.fields THEN Hash(rx_buf'.from) ELSE @,
       !.release = [p \in Part |-> IF p \in rx_buf'.fields THEN rx_buf'.release[p] ELSE @[p]]])
  /\ ret' = "SUCCESS"
  /\ Read({"hash"})

VersionUnreachable ==
  /\ Unreachable
  /\ version' = Counted(version)
  /\ ret' = IF HasRelease THEN "OFFLINE" ELSE "HTTP_ERROR"
  /\ UNCHANGED history

provider_version_get ==
  /\ VersionUnusable \/ VersionFetched \/ VersionUnreachable
  /\ tx' = EmptyTx
  /\ UNCHANGED <<copies, node, round>>
-----------------------------------------------------------------------------
(* The hash is taken from the body only while update_count is 0; one that  *)
(* does not fit (b64_decode) leaves the transaction's as it was.           *)
LoadedHash ==
  IF version.update_count # 0 THEN version.genesis_hash
  ELSE IF "hash" \in rx_buf'.fields THEN Hash(rx_buf'.from) ELSE Unknown

(* mutant: the copy is made of the transaction's fee, told or not *)
FeeOfTransaction == tx'.fee
FeeCopied == IF "fee" \in rx_buf'.fields THEN tx'.fee ELSE m_min_fee

(* first_valid is the round after the last one.  The fields that follow    *)
(* the hash are read whether it fits or not.                               *)
ParamsFetched ==
  /\ Answered
  /\ IsJson(rx_buf')
  /\ LET fields == rx_buf'.fields
         first == rx_buf'.round + 1
     IN /\ tx' = [genesis_hash |-> LoadedHash,
                  fee |-> IF "fee" \in fields THEN MinFee[rx_buf'.from] ELSE DefaultFee,
                  first_valid |-> IF "round" \in fields THEN first ELSE 0,
                  last_valid |-> IF "round" \in fields THEN first + ValidRounds ELSE 0]
        /\ m_min_fee' = FeeCopied
        /\ m_first_valid' = IF "round" \in fields THEN first ELSE m_first_valid
        /\ ret' = IF version.update_count = 0 /\ "bad_hash" \in fields THEN "NO_MEM" ELSE "SUCCESS"
  /\ Read({"fee", "round"})

ParamsUnusable ==
  /\ Answered
  /\ ~IsJson(rx_buf')
  /\ tx' = EmptyTx
  /\ ret' = "INTERNAL"
  /\ UNCHANGED <<copies, history>>

MayUseCopies == m_first_valid # 0 /\ m_min_fee # 0 /\ version.update_count # 0

(* `use previously fetched data' *)
ParamsFromCopies ==
  /\ Unreachable
  /\ MayUseCopies
  /\ tx' = [genesis_hash |-> version.genesis_hash, fee |-> m_min_fee,
            first_valid |-> m_first_valid, last_valid |-> m_first_valid + ValidRounds]
  /\ ret' = "OFFLINE"
  /\ UNCHANGED <<copies, history>>

ParamsUnreachable ==
  /\ Unreachable
  /\ ~MayUseCopies
  /\ tx' = EmptyTx
  /\ ret' = "HTTP_ERROR"
  /\ UNCHANGED <<copies, history>>

provider_tx_params_load ==
  /\ ParamsFetched \/ ParamsUnusable \/ ParamsFromCopies \/ ParamsUnreachable
  /\ UNCHANGED <<version, node, round>>
-----------------------------------------------------------------------------
(* The answer to any other request is left in the same buffer: MessagePack *)
(* or text, or JSON that has none of the fields.                           *)
OtherRequest ==
  /\ \E fields \in SUBSET {"json"} : rx_buf' = Body(fields, NoRelease)
  /\ UNCHANGED <<version, copies, node, round, ret, tx, history>>

(* The networks produce rounds. *)
NewRound ==
  /\ \E n \in Network : round[n] < MaxRound /\ round' = [round EXCEPT ![n] = @ + 1]
  /\ UNCHANGED <<version, copies, rx_buf, node, ret, tx, history>>

Next ==
  provider_init \/ provider_version_get \/ provider_tx_params_load \/ OtherRequest \/ NewRound

Spec == Init /\ [][Next]_vars
=============================================================================
