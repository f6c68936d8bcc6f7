# Verification of the Vertices SDK for Algorand

These modules model the logic of the SDK in `src/` (the C library `src/src`,
its interface `src/include`, and the event handler and transport of
`src/examples/unix`).  TLC checks them on small instances, TLAPS proves the
theorems for every value of the constants.  `PROJECT.json` lists the runs, the
lines every definition stands for, the hazards and the divergences found.

    tlc -config <X>.cfg <Module>      a run (the pairs are in the table below)
    tlapm <Module>Proofs.tla          the proofs of a module

## 1. Inventory of the system

| part | state | operations | modelled in |
|---|---|---|---|
| **event queue** `vertices.c:29-39, 245-266` | `m_events_queue`: ring `evt`, `rd_index`, `wr_index` | `vertices_event_schedule`, `vertices_event_process`, `event_queue_size` | `EventRing`, `EventQueue`, `EventThreads` over `EventFifo` |
| **transaction pipeline** `algorand_transaction.c:252-445`, `vertices.c:268-355` | `m_pending_tx_buffer`, `m_tx_buffer_idx` | `transaction_pay`, `transaction_appl`, `transaction_get`, `transaction_pending_send`, `transaction_free`, and the user's `vertices_evt_handler` (`main.cpp:33-126`) | `TxPipeline` over `PaymentService` |
| **encoding** `algorand_transaction.c:27-250` | the payload of a cell | `encode_tx`, `encode_tx_replace_signature` | `TxEncoding` |
| **provider** `algorand_provider.c` | `m_provider.version`, the static `m_min_fee` and `m_first_valid` of `provider_tx_params_load`, and what `rx_buf` still holds | `provider_init`, `provider_version_get`, `provider_tx_params_load` | `Provider` |
| **response buffer and HTTP** `algorand_provider.c:23-60`, `http_weak.c`, `http_curl.cpp` | `rx_buf` and its size, the functions the client sets, the handle of libcurl with its options | `response_payload_received`, `http_init`, `http_get`, `http_post`, `http_close`, `provider_ping`, `provider_tx_post` and the other requests | `Requests` |
| **response parser** `algorand_parser.c` | `m_parsing_account_step`, the `account_details_t` and `app_values_t` of the caller | `parser_account_mpack` with its callbacks, `parser_application_json` | `AccountParser`, `AccountInfo` |
| **accounts and wallet** `account.c`, `account_storage.c` | `m_accounts`, `s_accounts`, the `account_info_t` in the heap, the wallet file | `account_*`, `s_account_*`, `s_wallet_*`, `vertices_wallet_*`, `save_account_data`, `load_account_data` | `Accounts`; balances and applications in `AccountInfo` |
| **codecs** `base32.c`, `base64.c` | none | encode, decode | `Codecs` |
| **mnemonics** `mnemonic.c`, `base2048.c` | none | `mnemonic_from_seed`, `seed_from_mnemonic`, `b2048_encode` | `Codecs` |
| **cryptography** `sha512_256.c`, `secretbox.c` | none | hash, encrypt, decrypt | as a constant (`Digest`), a test (`Opens`), and as who signed what (`Signed`) |
| **errors and logs** | none | `VTC_ASSERT` logs and *goes on* | in the paths it lets through |

How they interact.  A client calls `vertices_transaction_pay_new`; the
pipeline takes a cell, asks the provider for parameters, encodes, and
schedules READY_TO_SIGN.  `vertices_event_process`, called by the client in a
loop, looks at the head of the queue, does the SDK's work (for SENDING: posts
the payload *and schedules SUCCESS*), calls the client's handler with a pointer
into the ring (for READY_TO_SIGN the handler signs and *schedules SENDING*),
does the work after it (for SUCCESS: reports the identifier and frees the
cell), and only then moves `rd_index`.  Any failure leaves the event at the
head, and the next call does everything again.

Every question to the node goes the same way: the provider forgets the length
of `rx_buf`, `http_weak.c` calls the client's transport, libcurl calls
`response_payload_received` once for each chunk, and when the transfer is over
the buffer is given to a parser: cJSON, or `parser_account_mpack`, which calls
back into `algorand_parser.c` element by element.  An account's answer is
written into `m_accounts`, and `transaction_appl` reads there whether the
sender has opted in to the application.

What is hard in it:

* *Reentrance.* Events are scheduled from within the processing of the head,
  into the ring the handler points into; the head is read again afterwards.
* *Threads.* `vertices.h:102` proposes to process the events in a task of its
  own.  That task schedules, as the application does; nothing is locked.
* *Retries.* A post whose answer is lost is repeated; so is one whose handler
  failed after the post succeeded and SUCCESS was scheduled.
* *Partial failure.* Cells are reserved before the calls that may fail;
  account slots are taken before the node is asked; the wallet is cleared
  before the file is known to be readable; the file is emptied before it is
  written; a parser that fails in the middle leaves what it has written.
* *Stale state.* Parameters survive the node they came from; clients hold
  copies of accounts whose pointers lead into memory the wallet replaces;
  `rx_buf` keeps the last answer, an earlier node's among them, and the libcurl
  handle the options of the last request; an account's answer is added to what the last one left.
* *A state machine beside a recursion.* The parser of accounts follows the
  nesting on the call stack and the meaning in a static step.  An error leaves
  a loop and not the parser, so that the two can disagree.
* *Bounds.* A ring with one unusable cell, 4 transaction cells, a payload of
  fixed size, 5 secret and 10 local accounts, 3 applications of 8 variables,
  an answer of 4096 bytes, decoders that are told the size of their buffer.

What makes each part correct: the queue is a FIFO; a transaction is executed
and reported once, in order, and what is posted is signed; the payload always
fits and has its keys in order; no transaction names the network of another
node, but where an earlier node's answer is read again; an
answer is parsed whole, alone and for the request it answers; an account's
applications and balance are those the node told, and no array is overrun; an
account keeps its own key's address, and a load of the wallet gives what was
saved or nothing; what is encoded can be read back.

## 2. The modules

    EventFifo  <----- EventQueue (EXTENDS EventRing) -- MCEventQueue
         ^----------- EventThreads (EXTENDS EventRing)
                      both -- EventQueueProofs
    PaymentService <- TxPipelineProps (EXTENDS TxPipeline) -- TxPipelineProofs
    TxEncoding -- TxEncodingProofs
    ProviderProps (EXTENDS Provider) -- MCProvider, ProviderProofs
    RequestsProps (EXTENDS Requests) -- MCRequests, RequestsProofs
    AccountInfoProps (EXTENDS AccountInfo, which EXTENDS AccountAnswers,
       which EXTENDS AccountParser)  -- MCAccountInfo, AccountInfoProofs
    AccountsProps (EXTENDS Accounts) -- MCAccounts, AccountsProofs
    CodecsProps (EXTENDS Codecs) -- MCCodecs, CodecsProofs

An arrow is a refinement (`INSTANCE ... WITH`), a line an EXTENDS.  Operators
whose comment says *mutant* are plausible bugs: put in place of the definition
after them, a property of the module fails.

**EventRing.** `evt`, `wr_index`, `rd_index`, when the ring is full, and which
events wait in it (`Waiting`): what the two modules of the queue share.  The mask
`& (COUNT - 1)` is the remainder; `MCEventQueue` has TLC compare the two for the
sizes `vertices_config.h` names.

**EventQueue.** `handling` is the event `vertices_event_process` read and has
not finished.  `ProcessBegin`, then
any number of `vertices_event_schedule`, then `ProcessEnd` or `ProcessFail` are
one call of `vertices_event_process`; so the scheduling from within it is any
scheduling, and more than the code does.

**EventThreads.** The same ring with one step per load or store and two
threads, the application (`"app"`) and the task that processes (`"task"`).
Both schedule: the task does when it has posted a transaction
(`algorand_transaction.c:441`) and in the handler of the example, which signs
(`main.cpp:79`).  Steps take effect in program order: that is an assumption about
compiler and processor, which C does not give without atomics.  A processing
that fails (`FailProcess`) leaves its event for the next call, so `processed` has
the event only of the handlers that succeeded, and of the one that runs.
`overlapped` remembers whether a call of `vertices_event_schedule` ever began
while the other thread was in one.

**TxPipeline.** A call of the SDK is one step, since all runs in one thread.
The queue is a sequence of at most `QueueCapacity` events, which `EventQueue`
justifies.  A cell has a body (zero, reserved, encoded), the transaction it
carries, the one its signature is of and the one its identifier is of;
transactions are numbered as the SDK accepts them.  The constants choose the
environment: what loading parameters may return, how a post may end (`ok`;
`noid`: the answer has no `txId`; `stale`: it has no body, so that `rx_buf` is
parsed as the earlier answer left it, and may give the identifier of an earlier
transaction; `lost`: the node accepted and the answer did not arrive; `refused`),
what application calls pass, and whether the SENDING part of the handler may
fail (`main.cpp:91, 100`).  The node (external) accepts a payload with the right
signature, and a transaction at most once; a transaction it has is either
refused or answered as the first time.
`ledger`, `resent`, `reported` and `created` record history.

**PaymentService.** What a client counts on: submitted, executed, confirmed, at
most `Outstanding` on their way.

**Provider.** The version record, the two static copies, `rx_buf`, the network the
node belongs to, and the rounds of each network, which go on.  `provider_init` is
`vertices_new`, maybe with another node; it clears the version and nothing else.
A body is whom it is `from` and the `fields` it has; one without a field leaves
what that field would set, the parts of the release among it.  Each answer may
be a body with any fields, or none, and then the body in `rx_buf` is parsed,
whoever sent it; a request that fails may leave a body, too, and so may any
other request (`OtherRequest`).  `told` remembers what of its hash, fee and round the node
itself has told since it was set, and `misread` that a body of an earlier node
was read instead.  Hashes are names of networks.

**TxEncoding.** One transaction, encoded and signed.  Sizes are computed from
the encodings of mpack (external); the notes and integers range over the sizes
at which the encoding changes.  `KeysWritten` puts one piece after the other in
the order of the code, each of them a key or, when its condition fails, nothing.

**Requests.** `rx_buf` byte by byte and its `size`, which each request sets to
0 and `response_payload_received` adds to; the functions the client has set
(one that was not set is reported, or, for `http_close`, called through NULL);
the handle `m_curl` with its method and port, and the transfer under way with
the URL, the headers and the method it is sent with.  libcurl
(external) delivers the answer in chunks of any length and may fail at any time.
Then the provider reads: JSON up to the first NUL or the end of the buffer, an
account's bytes up to `size`.  `body` and `content` remember what this request,
and the last that received something, were sent.  After a step out of bounds
(`fault`) nothing more is said.

**AccountParser, AccountInfo.** `todo` holds the MessagePack elements that are
not yet read, `open` the recursive calls of `parse_element` with what each loop
still has to do, and `m_parsing_account_step` the static step.  One action is
one element, with its whole callback, or one return from a loop.  An error of a
callback leaves its loop only; an error of the reader leaves them all.
`AccountInfo` has the calls around it: `account_new`, `account_update`,
`s_account_update` (whose structure on the stack has no value but its address
and amount), `account_free`, the opt-in of `transaction_appl`, and the global
state of an application, which cJSON gives element by element.  An answer is
the encoding of what the node says of an account, or of no account at all:
nothing, a text, what nests too deeply.  `answers` and `plain` remember what each
account was told, and whether in a form the parser was written for.

**AccountAnswers.** The node (external): what it may say of an account (`Answer`:
an amount, whether it created something, its applications with their variables
and schema, and fields the parser does not know) and the MessagePack elements it
sends for it (`AccountBody`), in the order of their keys and without the fields
that are 0 or empty.  An application has variables only if it has a schema.

**Accounts.** `s_accounts` with its pointers into `heap`, the copy one client
holds (`handle`), the local accounts, and the file.  A save is two steps, since a
crash in between leaves the emptied file; one that fails before changes nothing.
A load may fail whatever the file holds, since libsodium may.  `malloc` gives a
cell nobody points to; one cell more than slots and the client can point to is
enough.  Names in `FullName` have 20 characters and no NUL behind them: such a
name is found (`NameMatches`) only where the next slot's private key begins with
a zero (`ZeroKey`) or the slot is free, or, in the last slot, as the memory
`behind` has it.  Longer names overrun the slot (`NameOverruns`), and the model
gives the program up there.  `unasked` remembers the names given by
`vertices_s_account_new_from_keys`, which does not ask whether they exist.
`WalletCalls` chooses which calls and faults occur.

**Codecs.** The loops of the codecs, one turn a step, over sequences of bits: a
byte is 8, a character 5 or 6, a word 11, and the integer the loop shifts
through is the bits it still holds.  A call is one of the SDK's: an account from
a binary key (encoded to an address, which is decoded again) or from an address;
a value in base 64, encoded by the node and decoded by the provider or parser;
a mnemonic made from a seed, and an account made from a mnemonic.  `Digest` is
any function of bytes.

## 3. The runs

| run | module, cfg | shows | instance |
|---|---|---|---|
| ring | MCEventQueue, MCEventQueue | the ring is a FIFO of COUNT - 1 events and every event is consumed; a call adds the event it is given at the end; the handled event is the head | ring of 4, 3 events |
| threads | EventThreads, EventThreads | *violated*: an accepted event is in the queue until it is processed | ring of 4, 3 events |
| pipeline | TxPipelineProps, TxPipeline | with refusals, lost answers and a node that cannot be reached, transactions are executed and reported once and in order, as PaymentService promises, and each is in the end confirmed unless an answer was lost | 3 cells, queue of 4, 6 transactions |
| pipeline_faulty | TxPipelineProps, TxPipeline_faulty | with every fault the model has, only signed transactions are posted and no taken cell is overwritten | 2 cells, queue of 6, 5 transactions |
| pipeline_twice | TxPipelineProps, TxPipeline_twice | *violated*: a transaction that was not sent is reported | 2 cells, 4 transactions |
| provider_any | MCProvider, Provider_any | no hash of another network but by misreading an earlier node's body; what is used offline fits the node once it told its hash, fee and round | 2 networks with different fees, rounds 0..1, 10 kinds of bodies |
| encoding | TxEncoding, TxEncoding | every accepted transaction fits, declares its fields and has them in the order of their keys | the sizes of the code |
| wallet | MCAccounts, Accounts_wallet | names are unique but for those not asked for and those of 20 characters, keys and addresses stay together, a load gives all or nothing | 2 slots, 1 local slot, 2 names, one of them of 20 characters, 2 keys, one of them beginning with a zero, 2 passwords |
| account_info | MCAccountInfo, AccountInfo | whatever is answered the parser ends and leaves its indexes in bounds; the applications, the balance and the choice to opt in are those the node told; so are an application's values | room for 2 applications of 2 variables, 3 requests |
| requests | MCRequests, Requests | no answer is mixed with another, only long answers overrun the buffer, requests go to the node that was set last | buffer of 3, 3 requests, chunks of 0 to 3 |
| requests_get | MCRequests, Requests_get | *violated*: a GET is sent as a POST | the same |
| codecs | MCCodecs, Codecs | keys, values, and seeds whose words are put one to a line, come back as they were; buffers are overrun by no more than a byte, or three for texts no encoder writes | keys of 2 bytes, seeds of 21 |

Why the bounds are enough.  A ring of 4 has 3 usable cells, fills up, empties
and wraps.  The pipeline has twice as many transactions as cells, so each cell
is used again, and the cells fill up while earlier transactions are on their
way; the queue has one place more than cells, the least for which it never
refuses (`NothingIsForgotten` proves that this and not the size matters).
In `pipeline_faulty` reposted transactions add SUCCESS events and fill the
queue; its answers are those of `pipeline` with `stale` for `noid`, which leaves
the identifier empty as a SUCCESS that comes twice does.  `update_count` is only compared with 0, so counting to `MaxCalls` = 1
distinguishes all the code does.  The encoding runs with the real sizes; its
notes lie on both sides of every change of encoding and of the limit.  Two
slots and the client's copy are the fewest with which memory can be shared by
mistake.  `MCAccounts` declares its passwords symmetric: they are only
compared, and the run has no liveness property.  In `provider_any` two networks
with different fees make a body of the wrong one visible, and one round after
the first a round that is not its node's; `MCFields` has every set of fields an
answer of the two requests may have that the code tells apart.

In `account_info` an answer has up to three applications where two fit, and
three variables where two fit, so both limits are passed, in one answer and
over several; three requests are an account that is created and updated twice.
`INT32_RANGE` is 16, so that an amount of 9 is truncated; `MAX_DEPTH` 6 is one
more than an account's nesting, and one answer nests deeper.  In `requests` an
answer that fills the buffer, one byte less, and one byte more all occur, as do
empty chunks; three requests are a long answer, a short one, and an empty one.
The seeds of `codecs` are shorter than the code's, but 21 bytes end as 32 do:
3 bits of the last word are used, and its bits are a byte more than there are.
Addresses are 24 bits in 5 characters, which leaves a bit over where the code's
36 bytes in 58 characters leave two.

Deadlock is not checked where a bound ends the run: `MaxEvents` calls in
`EventThreads`, one transaction in `TxEncoding`; nor where the program itself
stops: after a crash (`pipeline_faulty`, `pipeline_twice`), after a step out of
bounds (`account_info`, `requests`, `requests_get`), or at the `exit` of a
mnemonic (`codecs`).  `pipeline` may always call `vertices_event_process`, which
then finds `NothingToDo`.

## 4. Fairness

* The application calls `vertices_event_process` again and again, as
  `vertices.h:102` demands: WF of `ProcessBegin`, `Sign` and `Confirm`.
* A handler does not fail for ever: SF of `ProcessEnd` in `EventQueue`.
* A node that is asked again and again to accept a transaction it does not have
  accepts it and answers: SF of `SendingDone` with `resent' = resent`.  The code
  itself gives no such guarantee; it is the assumption about network and node
  under which a client may hope for progress.  Of a transaction the node has
  already (the answer was lost) nothing is assumed: it may be refused for ever,
  and the SDK posts it for ever.  `ConfirmedUnlessLost` therefore says that each
  transaction is reported, or one whose answer was lost stays at the head.
* The loops of the parser go on without anyone's doing: WF of `Parse` and
  `AccountParsed`.

## 5. What is proved

| theorem | property | assumptions on the constants |
|---|---|---|
| `EventQueueProofs!HandledEventIsStable` | HandledIsHead | COUNT >= 2 |
| `EventQueueProofs!RingImplementsFifo` | `Fifo!Spec` | COUNT >= 2 |
| `EventQueueProofs!ScheduleKeepsOrder` | ScheduledIsAppended | COUNT >= 2 |
| `EventQueueProofs!HandlersEventStays` | HeadStays, until calls overlap | COUNT >= 2 |
| `EventQueueProofs!EventsAreWhole` | WholeAndInOrder, until calls overlap | COUNT >= 2 |
| `EventQueueProofs!NoEventIsLost` | AcceptedIsKept, until calls overlap | COUNT >= 2 |
| `EventQueueProofs!ThreadsKeepTheFifo` | the steps of `CellFifo`, until calls overlap | COUNT >= 2 |
| `TxPipelineProofs!PipelineTypes` | types, and the queue's bound | PipelineAssumption |
| `TxPipelineProofs!PendingIsKept` | PendingNotOverwritten | PipelineAssumption |
| `TxPipelineProofs!PostedIsSigned` | SentOnlySigned | PipelineAssumption |
| `TxPipelineProofs!NothingIsForgotten` | OneEventPerPendingCell, NoCrash, SentOnlySigned | `Reliable` |
| `TxPipelineProofs!ExecutedInOrder` | LedgerInOrder | `Reliable` |
| `TxPipelineProofs!ReportsInOrder` | ReportedInOrder | `Reliable` |
| `TxPipelineProofs!RefusedOnlyWhenFull` | NoMemOnlyWhenAllPending | `Reliable` |
| `TxPipelineProofs!PipelineImplementsPayments` | KeepsToPayments | `Reliable` |
| `ProviderProofs!ProviderKeepsToItsNode` | types, NoForeignHash | ProviderAssumption |
| `ProviderProofs!OfflineParamsCanBeUsed` | OfflineParamsFit | ProviderAssumption |
| `TxEncodingProofs!EncodingNeverFails` | NeverFails | `DefaultSizes` |
| `TxEncodingProofs!DeclaredIsWritten` | CountIsRight | those of the module |
| `TxEncodingProofs!EncodingKeepsKeyOrder` | KeysAscend | those of the module |
| `AccountsProofs!WalletKeepsKeys` | KeysMatch | AccountsAssumption |
| `AccountsProofs!NamesStayUnique` | UniqueNames | AccountsAssumption |
| `AccountsProofs!HandleStaysValid` | HandleKeepsItsAccount | AccountsAssumption |
| `AccountsProofs!LoadIsAllOrNothing` | LoadGivesSavedOrNothing | AccountsAssumption |
| `AccountInfoProofs!ParserKeepsItsBounds` | IndexesInBounds | ParserAssumption, TextAssumption, AccountInfoAssumption |
| `AccountInfoProofs!WritesAreInside` | WritesStayInside | the same, AnswerAssumption |
| `AccountInfoProofs!AppsAreKept` | AppsAreThoseTold | the same, AnswerAssumption |
| `AccountInfoProofs!BalanceIsTold` | BalanceAsTold | the same, AnswerAssumption |
| `AccountInfoProofs!OptInsAreRight` | OptInsAreNeeded | the same, AnswerAssumption |
| `AccountInfoProofs!GlobalsAreTold` | GlobalsAsTold | ParserAssumption, AccountInfoAssumption |
| `RequestsProofs!JsonNeverMixed` | JsonIsOneBody | BufferAssumption |
| `RequestsProofs!AccountNeverStale` | AccountIsItsOwn | BufferAssumption |
| `RequestsProofs!BufferOverrunOnlyByLongAnswers` | ShortAnswersFit | BufferAssumption |
| `RequestsProofs!RequestsReachTheirNode` | SentToOneNode | NodeAssumption |
| `CodecsProofs!AddressKeepsKey` | AddressGivesItsKey | LengthAssumption, KeyAssumption |
| `CodecsProofs!MnemonicKeepsSeed` | MnemonicGivesItsSeed | WordsAssumption, SeedAssumption |
| `CodecsProofs!Base64KeepsValue` | Base64GivesItsValue | TextAssumption, CapacityAssumption |
| `CodecsProofs!TextsStayInRoom` | TextsFit | all of the module |

The arguments:

* *Ring.* `HandledIsHead` alone is not inductive: an event that is scheduled
  overwrites the head unless the ring is known not to be full, and the size
  must be known not to be 0 while an event is handled.  `IInv` is TypeOK and
  `HandledIsHead`; the lemmas on `Masked` say where indexes lead.
  For the refinement, `Waiting` is shown to grow by the new event or to lose
  its head, cell by cell.  (The FIFO accepts any event; that it is the one of the
  call is `ScheduledIsAppended`.)  A COUNT that is no power of 2 is outside: the
  remainder stands for the mask.
* *Threads.* `ProducerInv` says what a thread in `vertices_event_schedule` knows
  between its accesses, as long as the other is not in it: once it found room
  there is room, since removing an event only makes more; the two fields it
  stored are still in the cell behind the last; and the `wr_index` it loaded is
  the one it finds.  `EventsInOrder` says that the events handled and those that
  wait are whole and in the order of their numbers, and that the handler has the
  oldest that waits.  `ThreadsInv` is both, while `~overlapped`, with the types.
  Of the accesses only the two stores of an index change `Waiting`, by an append
  and a tail: the refinement.  So what harms is the overlap of two calls of
  `vertices_event_schedule` and nothing else: calls that overlap the processing,
  its end or its failure need no lock, and a lock around `vertices_event_schedule`
  alone would do.  Without one the four properties fail once calls overlap: run
  `threads`.
* *Pipeline.* `CellsClean`: a cell whose body is 0 was zeroed as a whole, so a
  new transaction finds no signature of the last.  With it the transaction in a
  cell changes only through a free.  `NothingIsForgotten` needs `Reliable`:
  parameters load, calls have arguments that fit, the handler works, and
  `QueueCapacity > PENDING_TX_COUNT` (15 > 4 in the code).  Then each taken
  cell has one event, so by the pigeonhole principle the queue has room
  for one more, so scheduling is never refused, so each taken cell keeps its
  event; `SignedBeforeSending` adds that a SENDING event names a signed cell.
  Refusals and lost answers are allowed.  Without `Reliable` the theorem is
  false: `pipeline_twice` and the second item of the list in 6 show how.
* *What is posted* is signed even without `Reliable`, and then a cell may have
  several events.  `StagesInOrder` says which of one cell's events may
  wait behind which: no SENDING behind a SUCCESS, no SUCCESS behind a
  READY_TO_SIGN and no READY_TO_SIGN behind a SENDING.  A SUCCESS therefore frees
  a cell of which no SENDING waits, and `SendingIsSigned` is kept.
* *Order.* `OrderInv` numbers what is on its way: the cells before
  `m_tx_buffer_idx`, round and round, hold the transactions that are not reported
  by their age (`CellsInOrder`); of these a later stage means an older one, and
  those of one stage follow each other in the queue (`QueueInOrder`), so that the
  head is the oldest of its stage.  The ledger has those of SUCCESS and none of
  READY_TO_SIGN; of those of SENDING only the head's, if its answer was lost
  (`LedgerFollows`).  So ledger and reports are in order, cells are freed in the
  order they were taken, and each step is one of PaymentService or a stutter.
* *Provider.* `ToldInv`: what the node has told is what the SDK remembers, its
  hash in the version, its fee and a round it had reached in the copies,
  whatever of an earlier node they held before.  `BufferInv` is why this stays:
  once the node has told something the body in `rx_buf` is its own, so that no
  empty answer brings an earlier node's back; and a body's round is one its
  network has reached.  With `NoForeignHash` and the types both are inductive,
  and what is given offline follows from them in one step.
* *Encoding.* Bounds on every field sum to at most 75 + 198 +
  OPTIONAL_TX_FIELDS_MAX_SIZE_BYTES and at least 71 bytes of body, the end of
  the signature.  `DefaultSizes` (at most 8 arguments of at most 8 bytes) is
  `vertices_config.h`; larger settings may not fit.  What is written is a
  concatenation of pieces of at most one key (`Written`): its length is the
  number of the conditions that hold, which is what `txn_map_element_count`
  adds up, and each piece's key comes after those of the pieces before it.
  Neither needs `DefaultSizes`.
* *Wallet.* `WalletInv` adds to the properties that images (of the file, of the
  save under way, and the last saved) have matching keys, that a readable file
  holds what was last saved, and that names in images are unique but for those
  of 20 characters and those not asked for.  The two exceptions are needed: such
  names do repeat, in the run with 2 slots already.
* *Parser.* `ParserBounds` is `IndexesInBounds` of the structure that is being
  parsed into: in each step inside an application its index is below
  APPS_MAX_COUNT, since the step that leads there (`AppStarts`) tested it, and
  only `finish_map` raises it, and leaves the application.  The same with
  `kv_idx`, except that the test at line 166 lets the element after the last be
  written, which sets `past`.  `InfoBounds` adds that the structures of
  `m_accounts`, to which each answer is added, hold an index of at most
  APPS_MAX_COUNT when the parser is called; the one on the stack may hold any.
  That nesting and step can disagree does not matter: no conjunct speaks of
  `open`.  `StringKept`, `UIntKept` and `FinishMapKept` are the callbacks.
* *What the node told.* An invariant of the state alone does not say which
  element comes next, so the parser is followed through the answer.  `At` is a
  place in it: step, open calls, elements that are left and what the structure
  holds; a place is `InVariable`, `InVariables`, `InSchema`, `InApp`, `InApps` or
  `InHead`, and each has a lemma that says where one step leads (`VariableStep`
  and the like).  With an application too many the parser leaves the loop and
  takes what is left of the map for fields of the account, until it is past it or
  gives up (`Skipping`, `Ended`).  Behind the applications it is `Harmless`:
  whatever the fields there are, no application and no balance is touched.
  `Follows` is that it is at one of these places, and
  `FollowsStep` that it stays so; `CallEnds` that no place is a write past
  an array, and that the structure, once the parser returns, holds the
  applications of the answer that fit, and its amount.
  `ToldInv` puts the calls around it: an account has what its answers told
  without the one that is being parsed (`Heard`, `AsTold`), the parser is in that
  one if it is plain (`Followed`), and a failed request told nothing.  A plain
  answer after one that was not plain claims nothing: `plain` is only set back
  by `account_free`, which clears the structure.
* *Encodings* are concatenations of unboundedly many pieces, defined by
  recursive functions (`FlattenSeq`) for which there is no induction to cite.
  `JoinedExists` and `JoinedUnique` argue by the least index at which the claim
  fails (`LeastOf`, the well-foundedness of Nat); from then on `FlattenSeqFrom`
  takes one piece after the other off the front, as the parser does, and the
  parser's own progress is what goes through the answer.
* *Globals.* The function in `parser_application_json` exists for the same
  reason (`FillingExists`).  `FilledUpTo` says what the structure has after
  n elements: the ones of `Seen`, each at its `Place`, until the first that
  cannot be used or that does not fit.
* *Buffer.* Of one request alone `JsonIsOneBody` cannot be shown, since the
  buffer is not cleared.  `HoldsContent`: while nothing was overrun the buffer
  begins with `content` and a NUL; `body` is that content or empty; and during
  a transfer `size` is the body's length.  A chunk goes behind the body and ends
  in its own NUL (`ChunkAppended`, cell by cell), and the text that is read is
  the content up to its first NUL (`TextIsOfContent`).
* *Handle.* `HandleInv`: the handle, if there is one, has the port of the
  provider, and the transfer under way was made with both.  `NodeAssumption`
  excludes that a client gives the header of the transactions as its own.
* *Codecs.* `Holds(s, from, bytes)`: the bits s lie in the bytes behind the
  first `from` bits.  Of every loop it is known where its input, the integer it
  shifts through and its output lie, and that the bits taken are the bits put
  out and those still held (`WriteHolds`, `ReadHolds` and the two of the
  address).  `JoinedHolds` and `PartHolds` are what a turn does to them.  An
  address has room for all bits (LengthAssumption: 58 * 5 >= 36 * 8), and the
  words hold one byte more than the seed (WordsAssumption: 24 * 11 = 33 * 8):
  the seed is compared with a zero byte behind it (`Padded`), which the reader
  drops.  Of the digest only its length is assumed.
* *Values.* `ValueInv`: after g groups the text written has 4 g characters with
  the bits of the first 3 g bytes, and after h groups read the first 3 h bytes
  are back.  `DigitCount` is where the `=` begin, from which the reader knows how
  many of the last three bytes count.  A value that `HasRoom`
  refuses is not decoded, and nothing is said of it.
* *Room.* `RoomInv` says of each loop how much it has written when its room is
  tested; for the two decoders of texts no SDK wrote (`from_b32`, `text`) it has
  no relation of output and input, only the number of bytes that the characters
  taken give.  That a text that has characters of base 64 has a last one
  (`DigitsExist`) is the well-foundedness of Nat.  One byte past the end, or the
  three of `TextsFit`, are what the code's tests let through; see 7.

The assumptions on the constants are types and sizes of `vertices_config.h` or
of the formats, with two exceptions.  `Reliable` is the environment without the
faults of 6.  `AnswerAssumption`
is about the node: an application with variables has a schema, and no field after
the applications contains the keys `algo` and `appl`.  It leaves out neither
applications nor variables that do not fit, nor byte slices, nor what an account
created; that `MAX_DEPTH` is at least 6, where the code has 32, is the nesting of
an account.

The four theorems about threads state the properties of the violated run under
the hypothesis that no two calls have overlapped, and no run checks them so.

Only model-checked is liveness, which is beyond TLAPS: `ImplementsFifo` beyond
`RingImplementsFifo` (that every event is consumed), `ConfirmedUnlessLost` and
`ParsingEnds`.  Every other property of a passing run is a theorem.

## 6. What the violated runs show, and what is outside the passing ones

* `pipeline_twice`: the handler fails after the post (`vertices.c:308`),
  SENDING is done again, and two SUCCESS events free the cell twice; the second
  one reports, and frees, the transaction that took the cell in between.
* `requests_get`: `http_post` sets CURLOPT_POSTFIELDS on the one handle of
  libcurl and nothing sets it back (`http_curl.cpp`), so that every `http_get`
  after the first transaction is a POST, where `vertices_http.h:30` has `HTTP GET
  request`.  The comment at `algorand_provider.c:89` sees that one of the two
  fails after the other, and blames the header.

* `threads`: the application and the task that processes both find the same
  free cell and store into it (`vertices.c:260-263`), and the event for which
  `vertices_event_schedule` returned VTC_SUCCESS first is overwritten and never
  processed.  The task schedules whenever a post succeeded
  (`algorand_transaction.c:441`); `vertices.h:102` proposes the second thread and
  says nothing of a lock, and line 97 gives VTC_SUCCESS for "success".  The same
  interleavings also give the handler a cell that mixes two events, or replace
  the one it works on (`WholeAndInOrder`, `HeadStays`).

Four things happen in the models and are kept out of the passing runs, or of
what is claimed, by a constant or a hypothesis:

* when the parameters cannot be loaded (`algorand_transaction.c:300`, the
  answer `ERROR` of `ParamsAnswers`) the reserved cell is never given back, and
  as `m_tx_buffer_idx` stays on it no further transaction is accepted;
  `vertices_types.h:117` speaks of a buffer of *pending* transactions;
* `update_count` grows on a failed request (`algorand_provider.c:328`, against
  the comment at line 116); from then on zeros are used as genesis hash, so
  `OfflineParamsFit` is stated for nodes that told their hash to the version;
* a post whose answer has no body succeeds with the identifier in `rx_buf`
  (`algorand_provider.c:207`, the answer `stale`), so that a transaction is
  reported under an earlier one's; `Reliable` excludes it;
* `AppsAreThoseTold`, `BalanceAsTold` and `OptInsAreNeeded` speak of answers
  that are `Plain` and fit; 7 says what happens with the others.

## 7. Further differences between code and words, and limits of the code

Met while modelling; the models take the steps of the code, unless it is said
that they leave them out.

Queue and pipeline

* `vertices_config.h:23` names COUNT "the number of events that can be queued";
  COUNT - 1 can.
* `vertices.h:69` lets the parameters of an application call be NULL;
  `algorand_transaction.c:114` follows them (`ApplNullParams`).
* With a full queue a handler that must schedule fails on every call, and so
  does everything behind it (`vertices.c:315`, `Sign`).
* A refused SUCCESS is not noticed (`algorand_transaction.c:441`, `Post`); the
  executed transaction keeps its cell.
* `htobe64` (`algorand_transaction.c:19`) is a cast; line 148 says the
  integers become big endian.
* Line 164 writes the first argument's bytes for every byte slice.

Provider and transport

* `provider.h:49` says the data used offline "can be used"; the copies are not
  cleared by `provider_init` (lines 91-92) and have no age (line 160).  Before
  the new node told its own they are the earlier node's, which
  `OfflineParamsFit` leaves out with `told`.
* An answer without a body, as a proxy may give, is read as the one before it:
  `rx_buf` is not cleared by a request nor by `provider_init`.  After the first
  `GET /versions` of a new node (`algorand_provider.c:252`), or the first load of
  parameters (line 104), the genesis hash may be an earlier node's
  (`NoForeignHash` allows for it with `misread`, `JsonIsOneBody` with the content
  that is kept).
* `vertices.c:45` promises VTC_ERROR_OFFLINE when an earlier version is known;
  a release with patch number 0 gives the transport's error
  (`algorand_provider.c:313`, `HasRelease`).
* `vertices_http.h:33` says headers are separated by "\n\r"; `http_curl.cpp`
  splits at "\r\n".  A header of NULL is copied (`fault` = "NULL copied").
* `http_weak.c` calls `http_close` without asking whether it was set, and
  returns nothing (`http_close`).
* `http_curl.cpp:177` has libcurl write a `long` into a `uint32_t`, and no
  timeout is set: a node that does not answer stops the SDK.  Not modelled.

Parser

* A variable that holds a byte slice fails at its value and the static step
  is lost: the rest of the account is read from the root (`UnknownKey`).  What an
  account created (`apar`), which comes before `appl`, ends the parsing of the
  account's map.
* The applications of an `account_update` are added to those of the last
  answer, and those that do not fit are left out (`account_update`); a balance
  of 0, which the node leaves out, keeps the old one.
* `account_has_app` looks in `m_accounts` only (`account.c:95`), so that
  `OptInsAreNeeded` is about senders there; an account of the wallet opts in on
  every call.
* Amounts of 2^31 and more are truncated (`algorand_parser.c:128`, `AsInt32`).
* `s_account_update` parses into a structure without values and ignores the
  request's error (`account.c:325-336`).
* `strncmp` with the element's length takes the beginning of a key for the key;
  the model compares whole keys.  Data that ends inside a string is left out.
* `parser_application_json` gives a byte slice the type of an integer
  (`algorand_parser.c:626`) and an empty name to a key of 16 bytes and more, and
  does not compare the count with the array (`overrun`).

Accounts and wallet

* `vertices.c:136` admits names of ACCOUNT_NAME_LENGTH characters into `char
  name[ACCOUNT_NAME_LENGTH]` (`vertices_types.h:84`) without a NUL; `strcmp`
  (`account.c:277, 296`) goes on into the next slot's private key, so that the
  name is not found and is given twice (`NameMatches`, `UniqueNames`).  The other
  way to make an account, `vertices.c:101`, asks for neither the length nor the
  name, and `account.c:222` copies what it is given (`NameOverruns`).
* `s_account_free` loses the slot's `account_info_t` (`account.c:373`); the next
  account in the slot follows NULL (`NewInFreedSlot`).
* `account_new` takes its slot before it asks the node (`account.c:63`) and
  keeps it when that fails; the client has no pointer to give it back.
* `vertices_wallet_load` clears the wallet before it knows that the file can be
  read (`vertices.c:414`): a save after a failed load writes the empty one
  (`vertices_wallet_load`).
* `save_account_data` ignores `fwrite` and `fclose` (lines 40-44): with a full
  disk the save "succeeds" and the file is gone (`SaveEnds`).
* `s_wallet_free` clears `m_accounts` and not the wallet (`account.c:397`).

Codecs and mnemonics

* The checksum of an address is not compared and characters that are none of
  base 32 end the decoding without an error of the caller (`account.c:26`,
  `PublicKey`).
* A mnemonic is printed with blanks and read at newlines only, so that what the
  SDK printed is refused (`Tokens`); of an empty text a word before the first is
  read (`mnemonic.c:159`), without consequence.  An unknown word or wrong checksum
  ends the program, and the byte that is dropped is written after the 32 that
  were allocated (`mnemonic.c:185`, `TextsFit`).  The checks are `assert`s, which
  release builds leave out; the model has them.
* `b64_decode` refuses texts of less than 4 characters, and its test of the
  size is one too weak for values that need no padding, and more for texts
  without their padding (`HasRoom`, `TextsFit`).

## 8. Not modelled, and the plan

Done: the queue in one thread and in two, the pipeline with its node and handler,
the encoding, the provider's version, copies and what it reads of old answers,
the buffer and transport, the parsers and what accounts know from them, accounts
and wallet, the codecs and mnemonics, and the proofs listed above.

What could be added:

1. **Session**: Provider composed with TxPipeline, so that what a load of the
   parameters returns comes from the provider's state, and the encoding's
   constant `gen` is compared with the node's network.
2. **Proofs**: that the pipeline with the provider's parameters, once it is
   composed, keeps to what is proved of each; of the parser, what answers that
   are not plain leave in an account.

Left out for good: libcurl, libsodium and mbedtls (external; the configuration
of mbedtls is a vendored header), log texts and error strings, the command line
of the example (`main.cpp:128-385`), the tests and the build files (no state of
the SDK); the list of words, which the model has as words that are known or not,
and the lookup in `vertices_mnemonic_from_account`; `b2048_decode`, which has no
caller.  Liveness under fairness is beyond TLAPS and stays with TLC.
Rounds beyond 2^31, where cJSON's `valueint` saturates, are not reached by the
model.
