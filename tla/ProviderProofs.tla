--------------------------- MODULE ProviderProofs ---------------------------
(* The invariants of Provider, for every set of networks, releases and     *)
(* fields, whatever the nodes answer and however often they are exchanged. *)
EXTENDS ProviderProps, TLAPS

USE ProviderAssumption DEF Part, Hash

(* The body in rx_buf is not from the future of its network, ...           *)
BufferInv ==
  /\ rx_buf.from \in Network => rx_buf.round <= round[rx_buf.from]
  /\ told # {} => rx_buf.from = node

(* ... and what the node has told is what the SDK remembers.               *)
ToldInv ==
  /\ "hash" \in told => version.genesis_hash = Hash(node)
  /\ "fee" \in told => m_min_fee = MinFee[node]
  /\ "round" \in told => m_first_valid \in 1 .. round[node] + 1

ProviderInv == TypeOK /\ NoForeignHash /\ BufferInv /\ ToldInv

LEMMA InitProvider == Init => ProviderInv
<1> SUFFICES ASSUME Init PROVE ProviderInv
  OBVIOUS
<1>1. NoRelease \in [Part -> Nat] /\ EmptyTx \in Parameters
  BY DEF NoRelease, EmptyTx, Parameters
<1>2. EmptyBody \in Bodies /\ EmptyBody.fields = {} /\ EmptyBody.round = 0
  BY <1>1 DEF EmptyBody, Bodies
<1>3. /\ ZeroVersion \in [update_count : Nat, genesis_hash : Network \cup {Unknown},
                         release : [Part -> Nat]]
      /\ ZeroVersion.genesis_hash = Unknown /\ EmptyTx.genesis_hash = Unknown
  BY <1>1 DEF ZeroVersion, EmptyTx
<1>4. round \in [Network -> Nat] /\ \A n \in Network : round[n] = 0
  BY DEF Init
<1>5. TypeOK
  BY <1>1, <1>2, <1>3, <1>4 DEF Init, TypeOK, IsJson
<1> QED BY <1>2, <1>3, <1>4, <1>5 DEF Init, ProviderInv, NoForeignHash, BufferInv, ToldInv

(* A body the node sends is well formed and of its last round.             *)
LEMMA BodyIsFromNode ==
  ASSUME TypeOK, NEW fields \in SUBSET Field, NEW release \in [Part -> Nat]
  PROVE  /\ Body(fields, release) \in Bodies
         /\ Body(fields, release).from = node
         /\ Body(fields, release).round <= round[node]
<1>1. round[node] \in Nat /\ node \in Network
  BY DEF TypeOK
<1>2. [p \in Part |-> IF p \in fields THEN release[p] ELSE 0] \in [Part -> Nat]
  OBVIOUS
<1> QED BY <1>1, <1>2 DEF Body, Bodies

(* rx_buf has what it had, or a body of the node.                          *)
LEMMA BufferKept ==
  ASSUME ProviderInv, Received \/ UNCHANGED rx_buf, UNCHANGED <<node, round>>
  PROVE  /\ rx_buf' \in Bodies
         /\ IsJson(rx_buf') => rx_buf'.from \in Network
         /\ rx_buf'.from \in Network => rx_buf'.round <= round[rx_buf'.from]
         /\ rx_buf.from = node => rx_buf'.from = node
         /\ told # {} => rx_buf'.from = node
<1>1. TypeOK /\ BufferInv
  BY DEF ProviderInv
<1>2. CASE UNCHANGED rx_buf
  BY <1>1, <1>2 DEF TypeOK, BufferInv, IsJson
<1>3. CASE Received
  <2>1. PICK fields \in Fields, release \in Release : rx_buf' = Body(fields, release)
    BY <1>3 DEF Received
  <2>2. fields \in SUBSET Field /\ release \in [Part -> Nat]
    OBVIOUS
  <2>3. node \in Network
    BY <1>1 DEF TypeOK
  <2> QED BY <1>1, <2>1, <2>2, <2>3, BodyIsFromNode
<1> QED BY <1>2, <1>3

(* provider_init clears what the earlier node said, but not rx_buf.        *)
LEMMA InitKeeps ==
  ASSUME ProviderInv, provider_init PROVE ProviderInv'
<1>1. /\ TypeOK /\ BufferInv /\ told' = {}
      /\ version' = ZeroVersion /\ tx' = EmptyTx /\ node' \in Network
      /\ UNCHANGED <<m_min_fee, m_first_valid, rx_buf, round>>
      /\ ret' = "none" /\ misread' = FALSE
  BY DEF ProviderInv, provider_init, copies
<1>2. NoRelease \in [Part -> Nat] /\ EmptyTx \in Parameters
  BY DEF NoRelease, EmptyTx, Parameters
<1>3. /\ ZeroVersion \in [update_count : Nat, genesis_hash : Network \cup {Unknown},
                         release : [Part -> Nat]]
      /\ ZeroVersion.genesis_hash = Unknown /\ EmptyTx.genesis_hash = Unknown
  BY <1>2 DEF ZeroVersion, EmptyTx
<1>4. TypeOK'
  BY <1>1, <1>2, <1>3 DEF TypeOK, IsJson
<1> QED BY <1>1, <1>3, <1>4 DEF ProviderInv, NoForeignHash, BufferInv, ToldInv

(* What a read does to the history.                                        *)
LEMMA ReadKeeps ==
  ASSUME ProviderInv, Received \/ UNCHANGED rx_buf, UNCHANGED <<node, round>>,
         NEW heard \in SUBSET {"hash", "fee", "round"}, Read(heard)
  PROVE  /\ told' \subseteq {"hash", "fee", "round"} /\ misread' \in BOOLEAN
         /\ told' # {} => rx_buf'.from = node
         /\ misread => misread'
         /\ told \subseteq told' /\ \A f \in told' : f \in told \/ f \in heard \cap rx_buf'.fields
         /\ told' # told => rx_buf'.from = node
<1>1. TypeOK /\ (told # {} => rx_buf'.from = node)
  BY BufferKept DEF ProviderInv
<1> QED BY <1>1 DEF Read, TypeOK

(* provider_version_get learns the hash of the node or, by a misread body, *)
(* of an earlier one.                                                      *)
LEMMA VersionKeeps ==
  ASSUME ProviderInv, provider_version_get PROVE ProviderInv'
<1> DEFINE V == [update_count : Nat, genesis_hash : Network \cup {Unknown}, release : [Part -> Nat]]
<1>0. /\ TypeOK /\ NoForeignHash /\ BufferInv /\ ToldInv
      /\ tx' = EmptyTx /\ UNCHANGED <<m_min_fee, m_first_valid, node, round>>
      /\ Received \/ UNCHANGED rx_buf
      /\ version \in V
  BY DEF ProviderInv, provider_version_get, VersionUnusable, VersionFetched, VersionUnreachable,
         Answered, Unreachable, copies, TypeOK
<1>1. EmptyTx \in Parameters /\ EmptyTx.genesis_hash = Unknown
  BY DEF EmptyTx, Parameters
<1>2. /\ rx_buf' \in Bodies
      /\ IsJson(rx_buf') => rx_buf'.from \in Network
      /\ rx_buf'.from \in Network => rx_buf'.round <= round[rx_buf'.from]
      /\ told # {} => rx_buf'.from = node
  BY <1>0, BufferKept
<1>3. ASSUME NEW v \in V
      PROVE  Counted(v) \in V /\ Counted(v).genesis_hash = v.genesis_hash
  BY <1>3 DEF Counted
<1>4. CASE VersionFetched
  <2> DEFINE w == [version EXCEPT
       !.genesis_hash = IF "hash" \in rx_buf'.fields THEN Hash(rx_buf'.from) ELSE @,
       !.release = [p \in Part |-> IF p \in rx_buf'.fields THEN rx_buf'.release[p] ELSE @[p]]]
  <2>1. IsJson(rx_buf') /\ rx_buf'.from \in Network /\ ret' = "SUCCESS" /\ Read({"hash"})
    BY <1>2, <1>4 DEF VersionFetched
  <2>2. rx_buf'.release \in [Part -> Nat] /\ version.release \in [Part -> Nat]
    BY <1>0, <1>2 DEF Bodies
  <2>3. [p \in Part |-> IF p \in rx_buf'.fields THEN rx_buf'.release[p] ELSE version.release[p]]
          \in [Part -> Nat]
    BY <2>2
  <2>4. /\ w \in V
        /\ w.genesis_hash = IF "hash" \in rx_buf'.fields THEN rx_buf'.from ELSE version.genesis_hash
    BY <1>0, <2>1, <2>3
  <2>5. version' = Counted(w)
    BY <1>4 DEF VersionFetched
  <2> HIDE DEF w, V
  <2>6. version' \in V /\ version'.genesis_hash = w.genesis_hash
    BY <1>3, <2>4, <2>5
  <2>7. /\ told' \subseteq {"hash", "fee", "round"} /\ misread' \in BOOLEAN
        /\ told' # {} => rx_buf'.from = node
        /\ misread => misread'
        /\ \A f \in told' : f \in told \/ f \in {"hash"} \cap rx_buf'.fields
        /\ told' # told => rx_buf'.from = node
    BY <1>0, <2>1, ReadKeeps
  <2>8. rx_buf'.from = node \/ misread'
    BY <2>1 DEF Read
  <2>9. TypeOK'
    BY <1>0, <1>1, <1>2, <2>1, <2>6, <2>7 DEF TypeOK, IsJson, V
  <2>10. NoForeignHash'
    BY <1>0, <1>1, <2>4, <2>6, <2>7, <2>8 DEF NoForeignHash
  <2>11. ToldInv'
    <3>1. "hash" \in told' => version'.genesis_hash = node
      BY <1>0, <1>2, <2>4, <2>6, <2>7 DEF ToldInv
    <3>2. told' \cap {"fee", "round"} \subseteq told
      BY <2>7
    <3> QED BY <1>0, <3>1, <3>2 DEF ToldInv
  <2> QED BY <1>0, <1>2, <2>7, <2>9, <2>10, <2>11 DEF ProviderInv, BufferInv
<1>5. CASE VersionUnusable \/ VersionUnreachable
  <2>1. UNCHANGED <<told, misread>> /\ version' \in {version, Counted(version)}
        /\ ret' \in {"INTERNAL", "NO_MEM", "OFFLINE", "HTTP_ERROR"}
    BY <1>5 DEF VersionUnusable, VersionUnreachable, history
  <2>2. version' \in V /\ version'.genesis_hash = version.genesis_hash
    BY <1>0, <1>3, <2>1
  <2>3. TypeOK'
    BY <1>0, <1>1, <1>2, <2>1, <2>2 DEF TypeOK, IsJson
  <2> QED BY <1>0, <1>1, <1>2, <2>1, <2>2, <2>3
          DEF ProviderInv, NoForeignHash, BufferInv, ToldInv
<1> QED BY <1>4, <1>5 DEF provider_version_get

(* provider_tx_params_load takes the hash of the version or of the body.   *)
LEMMA LoadKeeps ==
  ASSUME ProviderInv, provider_tx_params_load PROVE ProviderInv'
<1>0. /\ TypeOK /\ NoForeignHash /\ BufferInv /\ ToldInv
      /\ UNCHANGED <<version, node, round>>
      /\ Received \/ UNCHANGED rx_buf
      /\ m_min_fee \in Nat /\ m_first_valid \in Nat
      /\ version.genesis_hash \in Network \cup {Unknown}
  BY DEF ProviderInv, provider_tx_params_load, ParamsFetched, ParamsUnusable, ParamsFromCopies,
         ParamsUnreachable, Answered, Unreachable, TypeOK
<1>1. EmptyTx \in Parameters /\ EmptyTx.genesis_hash = Unknown
  BY DEF EmptyTx, Parameters
<1>2. /\ rx_buf' \in Bodies
      /\ IsJson(rx_buf') => rx_buf'.from \in Network
      /\ rx_buf'.from \in Network => rx_buf'.round <= round[rx_buf'.from]
      /\ told # {} => rx_buf'.from = node
  BY <1>0, BufferKept
<1>3. CASE ParamsFetched
  <2>1. /\ IsJson(rx_buf') /\ rx_buf'.from \in Network /\ Read({"fee", "round"})
        /\ ret' \in {"NO_MEM", "SUCCESS"}
    BY <1>2, <1>3 DEF ParamsFetched
  <2>2. rx_buf'.round \in Nat /\ MinFee[rx_buf'.from] \in Nat
    BY <1>2, <2>1 DEF Bodies
  <2>3. LoadedHash \in Network \cup {Unknown}
    BY <1>0, <2>1 DEF LoadedHash
  <2>4. /\ tx' = [genesis_hash |-> LoadedHash,
                  fee |-> IF "fee" \in rx_buf'.fields THEN MinFee[rx_buf'.from] ELSE DefaultFee,
                  first_valid |-> IF "round" \in rx_buf'.fields THEN rx_buf'.round + 1 ELSE 0,
                  last_valid |-> IF "round" \in rx_buf'.fields
                                 THEN rx_buf'.round + 1 + ValidRounds ELSE 0]
        /\ m_min_fee' = IF "fee" \in rx_buf'.fields THEN tx'.fee ELSE m_min_fee
        /\ m_first_valid' = IF "round" \in rx_buf'.fields THEN rx_buf'.round + 1
                                                          ELSE m_first_valid
    BY <1>3 DEF ParamsFetched, FeeCopied
  <2>5. /\ tx' \in Parameters /\ tx'.genesis_hash = LoadedHash
        /\ "fee" \in rx_buf'.fields => m_min_fee' = MinFee[rx_buf'.from]
        /\ "fee" \notin rx_buf'.fields => m_min_fee' = m_min_fee
        /\ m_min_fee' \in Nat /\ m_first_valid' \in Nat
    BY <1>0, <2>2, <2>3, <2>4 DEF Parameters
  <2>6. /\ told' \subseteq {"hash", "fee", "round"} /\ misread' \in BOOLEAN
        /\ told' # {} => rx_buf'.from = node
        /\ misread => misread'
        /\ \A f \in told' : f \in told \/ f \in {"fee", "round"} \cap rx_buf'.fields
    BY <1>0, <2>1, ReadKeeps
  <2>7. rx_buf'.from = node \/ misread'
    BY <2>1 DEF Read
  <2>8. TypeOK'
    BY <1>0, <1>2, <2>1, <2>5, <2>6 DEF TypeOK, IsJson
  <2>9. NoForeignHash'
    BY <1>0, <2>5, <2>6, <2>7 DEF NoForeignHash, LoadedHash
  <2>10. ToldInv'
    <3>1. "hash" \in told' => version'.genesis_hash = node
      BY <1>0, <2>6 DEF ToldInv
    <3>2. "fee" \in told' => m_min_fee' = MinFee[node']
      BY <1>0, <2>5, <2>6 DEF ToldInv
    <3>3. "round" \in told' => m_first_valid' \in 1 .. round'[node'] + 1
      <4>1. node \in Network /\ round[node] \in Nat
        BY <1>0 DEF TypeOK
      <4> QED BY <1>0, <1>2, <2>2, <2>4, <2>6, <4>1 DEF ToldInv
    <3> QED BY <1>0, <3>1, <3>2, <3>3 DEF ToldInv
  <2> QED BY <1>0, <1>2, <2>6, <2>8, <2>9, <2>10 DEF ProviderInv, BufferInv
<1>4. CASE ParamsUnusable \/ ParamsFromCopies \/ ParamsUnreachable
  <2>1. /\ UNCHANGED <<told, misread, m_min_fee, m_first_valid>>
        /\ ret' \in {"INTERNAL", "OFFLINE", "HTTP_ERROR"}
    BY <1>4 DEF ParamsUnusable, ParamsFromCopies, ParamsUnreachable, history, copies
  <2>2. tx' \in Parameters /\ tx'.genesis_hash \in {Unknown, version.genesis_hash}
    BY <1>0, <1>1, <1>4 DEF ParamsUnusable, ParamsFromCopies, ParamsUnreachable, Parameters
  <2>3. TypeOK'
    BY <1>0, <1>2, <2>1, <2>2 DEF TypeOK, IsJson
  <2> QED BY <1>0, <1>2, <2>1, <2>2, <2>3 DEF ProviderInv, NoForeignHash, BufferInv, ToldInv
<1> QED BY <1>3, <1>4 DEF provider_tx_params_load

(* Other answers leave a body of the node.                                 *)
LEMMA OtherKeeps ==
  ASSUME ProviderInv, OtherRequest PROVE ProviderInv'
<1>1. TypeOK /\ NoForeignHash /\ ToldInv
  BY DEF ProviderInv
<1>2. PICK fields \in SUBSET {"json"} : rx_buf' = Body(fields, NoRelease)
  BY DEF OtherRequest
<1>3. /\ rx_buf' \in Bodies /\ rx_buf'.from = node /\ rx_buf'.round <= round[node]
  <2>1. fields \in SUBSET Field /\ NoRelease \in [Part -> Nat]
    BY DEF Field, NoRelease
  <2> QED BY <1>1, <1>2, <2>1, BodyIsFromNode
<1> QED BY <1>1, <1>3 DEF ProviderInv, OtherRequest, TypeOK, NoForeignHash, BufferInv, ToldInv,
                          IsJson, copies, history

(* A network that goes on makes nothing too new.                           *)
LEMMA RoundKeeps ==
  ASSUME ProviderInv, NewRound PROVE ProviderInv'
<1>1. PICK n \in Network : round[n] < MaxRound /\ round' = [round EXCEPT ![n] = @ + 1]
  BY DEF NewRound
<1>2. /\ TypeOK /\ NoForeignHash /\ BufferInv /\ ToldInv
      /\ UNCHANGED <<version, m_min_fee, m_first_valid, rx_buf, node, ret, tx, told, misread>>
  BY DEF ProviderInv, NewRound, copies, history
<1>3. /\ round \in [Network -> Nat] /\ round' \in [Network -> Nat]
      /\ \A m \in Network : round[m] <= round'[m]
  BY <1>1, <1>2 DEF TypeOK
<1>4. rx_buf.round \in Nat /\ m_first_valid \in Nat /\ node \in Network
  BY <1>2 DEF TypeOK, Bodies
<1>5. TypeOK' /\ NoForeignHash'
  BY <1>2, <1>3 DEF TypeOK, NoForeignHash, IsJson
<1>6. BufferInv'
  BY <1>2, <1>3, <1>4 DEF BufferInv
<1>7. ToldInv'
  BY <1>2, <1>3, <1>4 DEF ToldInv
<1> QED BY <1>5, <1>6, <1>7 DEF ProviderInv

LEMMA ProviderStep == ProviderInv /\ [Next]_vars => ProviderInv'
<1>1. ProviderInv /\ UNCHANGED vars => ProviderInv'
  BY DEF vars, copies, history, ProviderInv, TypeOK, NoForeignHash, BufferInv, ToldInv, IsJson
<1> QED BY <1>1, InitKeeps, VersionKeeps, LoadKeeps, OtherKeeps, RoundKeeps DEF Next

(* Whatever the nodes answer and however often the SDK is given another    *)
(* one, neither the version kept nor a transaction names the network of an *)
(* earlier node, but by a body of it that an empty answer had read again   *)
(* (algorand_provider.c:85-169 and 237-369).                               *)
THEOREM ProviderKeepsToItsNode == Spec => [](TypeOK /\ NoForeignHash)
<1>1. ProviderInv => TypeOK /\ NoForeignHash
  BY DEF ProviderInv
<1> QED BY <1>1, InitProvider, ProviderStep, PTL DEF Spec

(* What provider_tx_params_load gives a transaction when the node cannot   *)
(* be reached (algorand_provider.c:155-166) fits the node once the node    *)
(* has told its hash, its fee and its round.                               *)
THEOREM OfflineParamsCanBeUsed == Spec => OfflineParamsFit
<1>1. ASSUME ProviderInv, provider_tx_params_load, ret' = "OFFLINE",
             told = {"hash", "fee", "round"}
      PROVE  Fits(tx')
  <2>1. ParamsFromCopies
    BY <1>1 DEF provider_tx_params_load, ParamsFetched, ParamsUnusable, ParamsUnreachable
  <2>2. /\ tx'.genesis_hash = version.genesis_hash /\ tx'.fee = m_min_fee
        /\ tx'.first_valid = m_first_valid
        /\ tx'.last_valid = m_first_valid + ValidRounds
    BY <2>1 DEF ParamsFromCopies
  <2>3. /\ version.genesis_hash = Hash(node) /\ m_min_fee = MinFee[node]
        /\ m_first_valid \in 1 .. round[node] + 1
    BY <1>1 DEF ProviderInv, ToldInv
  <2> QED BY <2>2, <2>3 DEF Fits
<1>2. ProviderInv =>
        [provider_tx_params_load /\ ret' = "OFFLINE" /\ told = {"hash", "fee", "round"}
           => Fits(tx')]_vars
  BY <1>1
<1> QED BY <1>2, InitProvider, ProviderStep, PTL DEF Spec, OfflineParamsFit
=============================================================================
