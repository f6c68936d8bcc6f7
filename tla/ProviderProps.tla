--------------------------- MODULE ProviderProps ---------------------------
(* The properties of Provider. *)
EXTENDS Provider

Parameters == [genesis_hash : Network \cup {Unknown}, fee : Nat, first_valid : Nat, last_valid : Nat]
Bodies == [from : Network \cup {Unknown}, fields : SUBSET Field, round : Nat, release : [Part -> Nat]]

TypeOK ==
  /\ version \in [update_count : Nat, genesis_hash : Network \cup {Unknown}, release : [Part -> Nat]]
  /\ m_min_fee \in Nat /\ m_first_valid \in Nat
  /\ rx_buf \in Bodies /\ (IsJson(rx_buf) => rx_buf.from \in Network)
  /\ node \in Network
  /\ round \in [Network -> Nat]
  /\ ret \in {"none", "SUCCESS", "OFFLINE", "INTERNAL", "NO_MEM", "HTTP_ERROR"}
  /\ tx \in Parameters
  /\ told \subseteq {"hash", "fee", "round"} /\ misread \in BOOLEAN

(* However often the SDK is given another node, neither the version nor a  *)
(* transaction names the network of an earlier one, but by one mistake: an *)
(* answer without a body that came before the node has sent any, so that   *)
(* the earlier node's last body was read again (algorand_provider.c:252    *)
(* and 104 parse rx_buf, which provider_init does not clear).              *)
NoForeignHash ==
  {version.genesis_hash, tx.genesis_hash} \subseteq {Unknown, Hash(node)} \/ misread

(* What fits the node: its network and its fee, and a first round the node *)
(* has reached or is about to reach.                                       *)
Fits(parameters) ==
  /\ parameters.genesis_hash = Hash(node)
  /\ parameters.fee = MinFee[node]
  /\ parameters.first_valid \in 1 .. round[node] + 1
  /\ parameters.last_valid = parameters.first_valid + ValidRounds

(* VTC_ERROR_OFFLINE parameters `can be used' (provider.h:49): once the    *)
(* node itself has told its hash (of GET /versions), its fee and its round *)
(* they fit it, in whatever answers it told them and whatever was read of  *)
(* rx_buf, kept of earlier nodes or refused before and since.              *)
OfflineParamsFit ==
  [][provider_tx_params_load /\ ret' = "OFFLINE" /\ told = {"hash", "fee", "round"}
       => Fits(tx')]_vars
=============================================================================
