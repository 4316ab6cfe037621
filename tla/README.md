# A TLA+ model of the Rabbit-Mix prototype

The repository is a prototype of the online phase of Rabbit-Mix, a robust
anonymous broadcast: a client process submits the secret-shared, encoded messages
of N clients to n servers, and the servers open nothing but the mixed set of
messages. This directory models the program, its distributed part and its
arithmetic, checks it with TLC on small instances and proves the safety of a
session, of the sequence of sessions, of a connection, of the encoding and of the
decoder with TLAPS for any number of servers, sessions, inputs and messages and any
prime. Line numbers refer to the repository.

## 1. Inventory

| Part | Source | State | Operations |
|---|---|---|---|
| Mixing state machine | `rm_server_stm.hpp` | `stm_state`, reception bits per round, input and share buffers | `message_handler`, `execute_rm_stm` (14 cases), `batched_open_expand_send`, `open_exp_shares_to_all` |
| Server main loop | `rm_server_main.cpp` | `case_idx`, `stms`, `deserialzed_msgs`, `corrupted_clients` | listen, connect to the others, `update`, dispatch, creation and erasure of state machines, exit |
| Client process | `rm_client_main.cpp`, `rm_client.hpp` | `sid`, completion bits | connect, encode, share, submit, poll for completions, next session, exit |
| Connection | `network_connection.hpp`, `network_ts_queue.hpp` | `outgoing_queue`, `already_writing_`, `temp_msg`, the socket, the shared incoming queue | `send_message`, `write_header`/`write_body`, `read_header`/`read_body`, errors |
| Interfaces | `network_server.hpp`, `network_client.hpp` | `io_context`, its thread, the connections | accept, connect, `update`, `stop`, `disconnect` |
| Messages | `network_message.hpp` | header and body | serialisation of vectors of field elements |
| Secret sharing | `secretsharing.h` | none; the output vectors of its caller | `packed_share_secret`, `vandermonde_gen`, `rs_decode` |
| Additive 2-basis | `rm_additive2basis.h`, `additive2basis.h` | none | `add2basis_encode`, `verify_format`, `opt_decompress_encoding` |
| Root finding | `root_finding.h` | none | `newton_to_polynomial`, `find_roots` and its four helpers |
| Configuration | `rm_common.hpp`, `configs/`, scripts | none | tables, start of the processes |

How they interact. Every server is a TCP client of every other one and a server
for all of them and for the client process. What arrives on any connection goes to one
queue, `my_received_messages`; the main thread of a server empties it in
`update()`, hands each message to the state machine of its `sid`
(`message_handler` stores it) and runs `execute_rm_stm` until a case sets
`flag = false`. A session has four all-to-all rounds: 1 and 2 open the
well-formedness predicates, 3 and 4 the sums of powers. After round 4 the server
finds the roots, answers `COMPLETED` and goes on to the next test case; the
client goes on when all servers have answered. Threads: one main thread per
process, one io thread per `io_context`, mutexes around the queues only.

What is hard, and what makes each part correct:

* **State machine.** It runs only when a message is dispatched, so a stop at the
  wrong moment is a lost wake-up. Peers may be a round ahead or behind,
  `rec_exp_shares1` serves rounds 1 and 3, the reception bits of rounds 1 and 2
  are cleared and later indexed unchecked. It is correct when each server opens
  complete, unmixed vectors, all publish one mix, and every session ends.
* **Sessions.** Only the client's barrier keeps two sessions apart: messages are
  deserialised with the current parameters whatever their `sid`, and a late
  message would create a state machine. Correct when a server only ever meets
  messages of its own session, and when every session starts afresh.
* **Connection.** The check "is a write under way" and the push happen in
  different threads. Correct when accepted messages arrive once, whole and in
  order as long as TCP holds.
* **Start.** Every server connects to every other one before it does anything
  else. Correct when no order of start makes them wait for each other.
* **Messages.** Vectors are pushed and popped at the same end of a byte vector, and
  their length has 16 bits. Correct when a vector comes back in order and whole.
* **Encoding.** Three functions in two files index one vector of 7L+5 elements in
  some thirty ways. Correct when the check accepts the encodings and nothing
  else, and the decompression writes every power once, in order.
* **Decoding.** Correct when the decoder finds the polynomial whenever it is
  within the radius, and when a block that has wrong shares, or cannot be decoded,
  does not disturb the next ones.
* **Root finding.** Randomised and recursive; a shift may find some roots, none,
  or wrong ones. Correct when the product of what is found and what is left stays
  the polynomial, and when some shift makes progress.
* **Exit.** The destructors stop the io threads with messages still queued.

The hazards are listed in `PROJECT.json`, each at its line with the properties
that cover it.

## 2. Modules

| Module | What it is |
|---|---|
| `RoundExchange` | Abstract: n parties go through four rounds as through a barrier, then publish one result |
| `MixingStm` | One session: the state machine case by case, the main loop around it, the client |
| `MixingStmInv` | The inductive invariant `IInv` |
| `MixingStm_proofs` | Type correctness, the invariant and the safety properties; the implementation of `RoundExchange` |
| `FifoChannel` | Abstract: a FIFO channel that may break |
| `Connection` | One direction of a connection: main thread, two io threads, TCP |
| `ConnectionInv`, `Connection_proofs` | Its inductive invariant, and the theorems about it |
| `Sessions`, `MCSessions` | Start-up, the loops over the test cases, `corrupted_clients`, the exit; constants for TLC |
| `SessionsInv`, `Sessions_proofs` | Its inductive invariant, and the theorems about it |
| `InputEncoding` | One message: encoded, serialised, read, verified, decompressed, and a vector sent on |
| `InputEncodingInv`, `InputEncoding_proofs` | Its inductive invariant, and the theorems about it |
| `Polynomials`, `Polynomials_proofs` | Z_p and its polynomials, for what the code takes from NTL; what its operators compute |
| `Opening`, `MCOpening` | One server opens blocks of shares with `rs_decode`; constants for TLC |
| `OpeningInv`, `Opening_proofs` | Its inductive invariant; the correctness of the decoder and of what is opened with it |
| `RootFinding`, `MCRootFinding` | From the power sums to the messages; constants for TLC |
| `RootFindingInv`, `RootFinding_proofs` | Its inductive invariant; Newton's identities, what a call of `find_roots` keeps, what its parts compute |
| `FindRoots_proofs` | What a call of `find_roots` finds, that the calls return the messages, and that each can make progress |

An operator marked "Variant" is the definition after it with a plausible bug; no
specification uses it. `PROJECT.json` says which property it breaks.

### MixingStm

Names are those of the code. One action per case of `execute_rm_stm`
(`WaitForInputs` ... `NewtonAndFindRoots`), one per kind of message in
`message_handler` (`HandleInput`, `HandleShares`, the latter for the four wait
cases), the constructor (`CreateStm`) and the end of the session
(`FinishSession`). A server in `flag` is inside the loop of `execute_rm_stm`;
only one outside takes a message. Each send loop sends to every peer, so
`sent[p]` is one log that peer s reads at position `read[s][p]`; that is exactly
per-connection FIFO delivery, with any merge of the connections.

The arithmetic is abstracted to what the properties tell apart: a share is a
share *of* a vector, and a vector is the set of inputs that it shows as
malformed (the predicates) or that entered it (the sums). `Decodings` gives what
`rs_decode` may return: the vector when all n shares agree, any of them or
garbage when they do not. So a buffer mixing two rounds shows up as a wrong
result. `Malformed` says which inputs fail the check and `Blamed` which indices
are marked already. `find_roots` returns only when the roots are simple
(`RootsAreSimple`); distinct inputs are taken to be distinct messages.

Connections stay up during a session here; their failures are in `Connection`
and, at the exit, in `Sessions`.

### Connection

A message is a header and, unless `header.size` is 0, a body. Handlers of one
`io_context` run one at a time, so each is one action; `send_message` is three,
since the io thread runs in between. `posted` counts the `write_header` handlers
posted and not run, `writes` are the outstanding `async_write`s, `flushed` those whose
bytes are in the stream. `Break` is the failure of TCP and loses any of the last
parts; `Disconnect` is the end of the sending process, whose posted handlers are
discarded. The `COMPLETED` response has no body and an unassigned `header.size`:
`Garbled` holds the messages for which it happens not to be 0. The passing run
takes it as 0, as do the other two modules, which use a connection as a FIFO
channel; the run `ResponseSize` takes both outcomes.

### Sessions

`ListenThenConnect` and `Connect` are the start of a server and one successful
`connect()` of a connect loop; one that fails is repeated and changes nothing.
The kernel completes a connection before the handler of `async_accept` runs,
which therefore only delays the messages on it, and any message may be delayed.
The state machine is reduced to its round number: a message of a peer or of the
client is stored and, if the awaited round is complete, takes it one round
further, as `MixingStm` shows in detail. `updating`, `Take...`, `EndUpdate` and
`Handle` are the two nested loops of the main thread; each deserialised message
records the session under whose parameters it was read (`info`). `Exit` lets the
processes end: whatever the io threads have not written is lost.
All sessions have the same N; in the code N grows with the test case, and
`corrupted_clients` with it.

### InputEncoding

Actions in the order in which a message goes: `Encode`, `Submit`, `Take`, `Verify`,
then `WriteNext`/`NextOuter`/`NextLoop` for the loops of
`opt_decompress_encoding`, and `Open`/`Return` for a vector of N elements that
goes to a peer. Field elements are represented by their discrete logarithms: a
power of the message is a multiple, a product a sum, and equality stays equality.
Nothing is reduced modulo p-1, since the exponents stay far below it. So what is
checked is the index arithmetic of the three circuits, which is what can be wrong;
the chance that a random combination of differences that are not 0 is 0 is left out
of `FormatHolds`. `Misencode` lets a client change up to `MaxOff` elements. That
shares behave as the values they share needs degree 2t at most: every product
in both circuits has two factors that come from the client.

### Opening

The model follows one server that is not faulty. In round one it decodes each
block from the shares of all servers; `faulty` ones send anything. In round two
it gets what the others decoded: the others that are not faulty run the same code
on the same shares of theirs and, by `OpenedRight`, decoded the secret, so that
`ReceiveOpenings` may take it from them; when more are faulty than tolerated they
may send any of `Answers`. `rs_decode` is
translated with its three steps over Z_7, and `Close` is the reference: all
polynomials of the degree, by brute force. As l = 1 (`rm_server_main.cpp:106`),
expanding a share multiplies it by 1, and a block is one secret.

### RootFinding

`FindRoots` is one call of `find_roots`, for any shift; the recursive call is the
next `FindRoots`, on the quotient. All helpers are translated, `batch_eval`'s
chirp included, over Z_97, which is of the form odd_factor * 2^two_exponent + 1
that the prime table has. `two_exponent` is 5 there, so that both cases and the
loop on `ell` occur. The history variable `unlucky` records two things (`Mishaps`)
that happen with negligible probability for a 256-bit prime and falsify the result
when they do: the shift is itself a root, or a squaring cancels the leading
coefficient of `hbar` (section 3).

## 3. Runs

| Run | Instance | Shows |
|---|---|---|
| `MixingStm` | 3 servers, N = 4, one malformed input; 11,072 states | type, `IInv`, the safety properties below, `ExchangeSpec` (the barrier, with its liveness), `SessionEnds` |
| `Connection` | 3 messages, with and without body; 18,849 states | the connection implements `FifoChannel`; `ConnInv` and what it implies |
| `Sessions` | 3 servers, 2 sessions, N = 2, two exits; 226,190 states | `SessInv`; the servers find each other, sessions never mix, outputs agree, all sessions end |
| `InputEncoding` | L = 1, 2, 3, up to two elements off by one or two; 29,258 states | `EncodingInv`, `VerdictIsRight`, `DecompressedPowers`, `AllWritten`, `RowArrivesWhole` |
| `Opening` | p = 7, n = 5, t = 1, two blocks; 17,888 states | `DecodesWithinRadius`, `OpenedRight`, `ReconstructedRight`, `NoOverread`, `BlocksInStep` |
| `RootFinding` | p = 97, nine batches, every shift; 2,290 states | `RootInv`, `FactorsKept`, `ReturnsMessages`, `OnlyMessages`, `CanProgress` |
| `TwoBlamed` | 3 servers, 2 blamed inputs | **violated**: `MixingCompletes` |
| `LastResponse` | 3 servers, 1 session, exits | **violated**: `ClientFinishes` |
| `LastShares` | 3 servers, 1 session, exits | **violated**: `ServersFinish` |
| `CorruptedClients` | 3 servers, 2 sessions | **violated**: `SessionStartsInitialized` |
| `ResponseSize` | 2 messages, unassigned size | **violated**: `SentArrives` |
| `OpeningAssert` | as `Opening` | **violated**: `ErrorsEmptyAtCall` |

Safety of a session: `OpensOneVector` (what is opened is complete and of one
round), `NoReadOfClearedStatus` (no message of a cleared round is under way),
`StoppedServerWaits` (no lost wake-up), `NoLeftovers` (a completed server has
handled everything sent to it), `MixesTheGoodInputs` (one output everywhere,
exactly the inputs not blamed).

Input and output: `VerdictIsRight` (the equations accept exactly the encodings),
`DecompressedPowers` and `AllWritten` (position q holds power q+1, for all q),
`RowArrivesWhole` (a vector arrives whole exactly while its length fits
`num_ZZ_p`), `DecodesWithinRadius` (the decoder against a search),
`OpenedRight`/`ReconstructedRight` (up to t faulty servers change no opened
value), `FactorsKept`/`ReturnsMessages` (no message is lost or invented),
`OnlyMessages` (also when a shift is a root, nothing that is not a message is returned),
`CanProgress` (the recursion cannot be stuck while the messages differ: in every
call some shift is no root, cancels nothing and separates a root).

**Bounds.** Three servers are the least for which the wake-up argument holds, and
with them every pair has a third party that may be ahead or behind. The program
runs with five, which the proofs cover: every safety property of `MixingStm` is
proved for all n, and so is every one of `Sessions`. N = 4 lets inputs arrive
before, between and after the first shares, and has a malformed input beside good
ones. Two sessions are what is
needed for a message, a mark or a server to be in the wrong one. Three messages
are one being written, one queued and one being pushed. L = 1, 2, 3 make every
loop of the encoding run zero times, once and more often; `Word` is 64 in place
of 2^16, between N for L = 1 (23) and L = 2 (75). Five servers is the
configuration of `localtest.bash`, the smallest with t = 1; two blocks are what a
stale `errors` or `output` needs, and the field Z_7 is the smallest with five
distinct points besides 0 that leaves one over. `MCSharings` has the zero
polynomial, a constant, one with secret 0 and one with two shares 0. The batches
of `MCRootFinding` have the message 0, opposite and repeated messages, and both
sides of the degree at which NTL takes over. `MaxSends`, `Sessions`, `N`,
`Exiting`, `MaxOff` and `Blocks` are the only bounds; the state is finite without
others.

**Deadlock** is checked in all passing runs but two: in `MixingStm`, `Exit` stands
for the end of the session, and the arithmetic modules stutter when they are done.
It is off in `Connection`, whose sender may stop sending and whose connection may
break, in `Sessions`, which stops after the last session, and in `TwoBlamed`.

**Fairness.** The main threads are loops that never block (`update` returns at
once, a failed connect is repeated after two seconds, the client polls all servers
round robin), so every enabled step of a
server, a submission and a poll are eventually taken: weak fairness per server and
per client action. The io threads run their handlers, and TCP delivers while it
is up. Nothing is assumed about a caller that might send or a connection that
might break. `InputEncoding`, `Opening` and `RootFinding` state no fairness: their
loops are bounded, and the termination of `find_roots` with probability 1 is not a
property of its steps; `CanProgress` is the part of it that is.

### What the violated runs show

* `TwoBlamed`: blamed inputs are zeroed, two of them make 0 a double root,
  `find_roots` cannot find it and calls itself with `x^2` without end
  (`root_finding.h:285`), against the comment at `rm_server_stm.hpp:748`. As marks
  persist, two sessions with one malformed input each are enough.
* `LastResponse`: the response to the last session is queued, the server leaves
  `main` and stops its io thread; the client (`rm_client_main.cpp:316`) ignores
  closed connections and loops for ever.
* `LastShares`: the same for round-4 shares: a fast server exits with shares for a
  slow one unsent, and the slow one, for which `localtest.bash:50` waits, never ends.
* `CorruptedClients`: `insert` at `rm_server_main.cpp:277`, under the comment
  "initialize", keeps the marks of earlier sessions.
* `ResponseSize`: a `COMPLETED` response with a non-zero garbage `header.size`
  makes the server write a body that is not there; the socket is closed.
* `OpeningAssert`: `reconstruct_batched_shares` clears `secrets` between two blocks
  but not `errors` (`rm_server_stm.hpp:376`), which `rs_decode` asserts to be empty
  (`secretsharing.h:105`; the makefile does not define `NDEBUG`). One wrong opening
  from one server ends all the others, where t = 1 should be tolerated.

Met while modelling `find_roots`. Both are kept out of `ReturnsMessages` by
`unlucky`; after the first, `OnlyMessages` still holds:

* The root of f at -tau is the one its loop cannot find, but the test after the
  loop is for f(tau) = 0 (`root_finding.h:271`): when tau is a root it is
  appended although the loop has it already.
* `update_linear_expansion` copies `hbar` up to its current degree
  (`root_finding.h:117`). If the leading coefficient has cancelled in an earlier
  squaring, later ones lose coefficients, and roots come out wrong, against the
  comment at `root_finding.h:263`. With p = 97 the messages 2, 7, 11 do it.
* The comment at `root_finding.h:179` wants the largest ell whose chi_zz exceeds
  the degree; the loop goes one further. The result is right either way.

The honest clients of the repository never send malformed inputs, and the
message at the end of a run usually gets out in time: these need particular
inputs, timing or memory contents.

## 4. Proofs

For any set of servers in which every two have a third, any N > 0 and any
`Malformed` and `Blamed` (`ServersAssumption`, `InputsAssumption`):

| Theorem | Statement |
|---|---|
| `TypeCorrect` | `Spec => []TypeOK` |
| `Inductive` | `Spec => []IInv` |
| `OpensOneVectorHolds`, `NoReadOfClearedStatusHolds`, `StoppedServerWaitsHolds`, `NoLeftoversHolds`, `MixesTheGoodInputsHolds` | each safety property of the run `MixingStm` |
| `ImplementsExchange` | `Spec => Exchange!Spec` |

For a connection, with any messages, any of them without a body, any header sizes
for those (`Garbled`) and any `MaxSends` in Nat (`MaxSendsAssumption`):

| Theorem | Statement |
|---|---|
| `InvariantHolds` | `Spec => []ConnInv` |
| `TypesHold`, `NothingStranded`, `WritesOneAtATime`, `MessagesKeepTheirParts` | each invariant of the run `Connection` |
| `ConnectionIsFifo` | `Spec => ChannelSafety`, the safety part of `FifoChannel` |

The argument. None of the properties is inductive. `IInv` ties everything a
server holds to its `stm_state` and to how many messages of each peer it has
handled: the log it has sent is the prefix of four known messages whose length
follows from the state (`SentInv`), a reception bit is set exactly when that many
messages were handled (`StatusInv`), and so the content of each buffer is known
(`BufferInv`). Since a server sends round r+1 only with round r complete, a peer's
round-3 message implies that the peer has everybody's round 2, hence that this
server has opened round 1: the shared buffer is safe. The wake-up argument is
`StopInv`: a server that enters a state is behind some peer in the next round it
waits for. One message brings it closer to one peer only, and with three
servers there is another one. With two servers the invariant fails, and so does
the program; `ServersAssumption` is where that enters.

`ConnInv` follows the parts from one queue to the other. `WriteInv` says which
message the outstanding write is of, `StreamInv` that the stream holds consecutive
parts (`Following`), from the one the reader waits for (`Awaited`) to the one
before the next one written (`NextWritten`), and `ReaderInv` that the header in
`temp_msg` is that of the body awaited. `OwnParts` alone is not inductive: a reader
takes whatever comes for the part it reads, so that its messages are right only
because nothing is lost or swapped in between. When the link fails the end of the
stream is cut, and `StreamInv` keeps only what it says of the parts that are left.
`PostInv` counts the posted handlers: there are never more than messages pushed,
and one is on its way while a message is pushed and not posted. The refinement
follows because `OwnParts` makes `delivered` the first messages of `sent`.

For the processes, with any set of servers (one or two included), any number of
sessions, any N > 0, any `Malformed` in every session and any servers that exit
(`ServersAssumption`, `SessionsAssumption`):

| Theorem | Statement |
|---|---|
| `SessionsInvariant` | `Spec => []SessInv` |
| `SessionTypes`, `OwnSessionHolds`, `OneStateMachineHolds`, `SessionsApartHolds`, `OutputsAgreeHolds` | each invariant of the run `Sessions` |

That sessions do not mix is an argument about counting. `Taken` says where a
message is in its connection: input x of session k is number `N*k + x`, the round-r
shares of session k are number `4*k + r`. `LogInv` gives the length of what a server
has sent from its session and round, `ReadInv` says that everything of the earlier
sessions is taken, and `StmInv` and `QueueInv` that whatever is stored or queued is
taken, of this session, and queued in the order of its connection (`InOrder`).
A server sends shares only with all inputs of its session, which only the
client's session has (`Begun`); so a server that is ahead of another has sent
nothing in its new session (`Ahead`), and whatever a server still reads is of its
own (`Upcoming`). When it completes a session it has the last input and everybody's
round 4; since what is queued comes after what is stored, nothing can be queued
(`FinishInv`), and the `break` out of both loops, which leaves `deserialzed_msgs`
as it is, drops nothing. The client's wait enters in one place: a response is less
than the server's `case_idx` (`ClientInv`), so that all of them put every server in
the next session. `MixingStm` takes one session for granted, and this is why it may.

For the encoding, with every L in `Lengths`, any messages and offsets and any number
of elements off, and any `Word` that an encoding's length fits (`LengthsAssumption`,
`MessagesAssumption`, `OffsetsAssumption`, `WordAssumption`):

| Theorem | Statement |
|---|---|
| `EncodingInvariant` | `Spec => []EncodingInv` |
| `IndexesInRange`, `VerdictHolds`, `PowersInOrder`, `PowersComplete`, `RowsWholeIffTheyFit` | each property of the run `InputEncoding` |
| `FitsUpTo68` | N is below 2^16 exactly for L up to 68 |

The bounds of the run, three values of L and two wrong elements, are thus not
needed for its result. That an input which satisfies the equations is an encoding
(`FormatForces`) goes along the five progressions: `Progression` says that a
sequence in which each element exceeds the one before by the same amount is
arithmetic, because there is no least index at which it deviates (`Least`, from
the library's theorem that < is well founded on Nat). For the loops, `Position`
gives `pos` in closed form from the loop and its two counters; `NextPower` has
one case per loop, in which the product of the two elements is the power that
belongs there, and the `Next*Position` lemmas that each loop ends where the next
one begins. All of it speaks of logarithms that are not reduced: a power of a
message is right modulo p, and that two different exponents give different
powers is not claimed.

For the decoder, with any prime p, any number n of servers below p, any number of
blocks, any sharings of degree at most 2t, and any faulty sets and answers
(`PrimeAssumption`, `OpeningAssumption`):

| Theorem | Statement |
|---|---|
| `GaoMatchesSearch` | for any degree and any shares, `rs_decode` returns what `Close`, the search through all polynomials, has |
| `InStep` | `Spec => []BlocksInStep` |
| `TypeCorrect`, `DecodesRight`, `OpensRight`, `ReconstructsRight`, `ReadsWithin` | each property of the run `Opening` |
| `InverseOf`, `EvalTimes`, `ManyRoots`, `DivRemIs`, `InterpolateIs`, `QuotientIs` | what the operations of `Polynomials` compute |

The operators of `Polynomials` are recursive functions, and the library has no
recursion theorem that can be cited, so `Recursion` builds one: there is exactly
one way to begin (`BeginningsAgree`), hence a function that follows any step
function. What holds of all values of such a function is shown with a least
counterexample (`Least`). Values are handled with `Horner`: a table with one
equation per coefficient determines the value, so that a law such as `EvalTimes`
is a table for the product built from those of its factors. `RootCount` then
divides by x - a to bound the number of roots, by a least degree, and
`ManyRoots` is what every argument about the decoder ends with.

`GaoMatchesSearch` never speaks of coefficients. Each row (a, t) of the partial
GCD has a(x) = t(x) * share(x) at every server's x, and the degrees of a and the
next cofactor add up to n (`GcdStepKeeps`). If a polynomial f is within the
radius, then b - t1 * f vanishes at every server whose share is right, which is more
often than its degree allows; so b = t1 * f, and step 3 divides without remainder
(`RemainderIs`, `DecodeFinds`). Conversely a quotient of degree at most d without
remainder differs from the shares only where t1 is 0, at most deg(t1) times
(`DecodeSound`). One case is left: step 0 takes the zero polynomial when at most
(n - d) / 2 shares are not 0, which for n - d even is one more than the radius
(`ShortcutOnly`). It returns 0 there although no polynomial is within the radius;
with at most t faulty servers it does not occur, as n - 2t >= 2t + 1.

`BlocksInStep` is needed because `rs_decode` appends to `opened` and `output` only
when it succeeds: that element b is the secret of block b holds only as long as
no block before it failed (`LengthInv`), which the decoder and the bound t
guarantee while the shares of the servers that are not faulty are those of the
current block (`SharesInv`).

For root finding, with any prime p of the form that the prime table has, any
generator `zeta`, and any batches of fewer than p messages
(`FftPrimeAssumption`, `BatchesAssumption`):

| Theorem | Statement |
|---|---|
| `NewtonIs` | the power sums of any sequence give the polynomial whose roots it has |
| `KeepsBatch` | `Spec => []RootInv` |
| `TypeCorrect`, `KeepsFactors` | `TypeOK` and `FactorsKept` of the run `RootFinding` |
| `BatchEvalIs` | `batch_eval` gives the values at the even powers of w |
| `ExpansionShifts` | `initial_linear_expansion` gives f(x - tau) and its derivative |
| `GraeffeAtRoot` | what one squaring does at a root, to the derivative and to the tangent |
| `FindsRoots` | a call that is not unlucky appends only roots, all different |
| `ReturnsAll` | `ReturnsMessages` of the run `RootFinding` |
| `ReturnsOnlyMessages` | `OnlyMessages` of the run `RootFinding` |
| `SeparatesRoots` | `CanProgress` of the run `RootFinding` |

`NewtonIs` is Newton's identities, by induction on the sequence (`NewtonIdentities`):
one more factor x - a changes the coefficients by `CoeffFactor` and the power
sums by a^j, and the two changes cancel in every identity (`NewtonStep`). The
division by k in each step is one by a number below p, and so the coefficients the
loop computes are the only ones that satisfy the identities (`NewtonFinds`).
`FactorsKept` alone does not carry over a recursive call: that the product stays the
polynomial is a statement about values (`MoveRoots`), and it takes the degree to make
it one about polynomials (`SameValues`); so `DegreeInv` says that what is left
has exactly the degree that is missing.

`FindsRoots` follows one call. The values it looks at are those at all powers of a
chi-th root of unity, which is what `batch_eval` computes from a square root of it
(`BatchEvalIs`, `UnityIs`). Where the last transform h_ell has a simple root y at such
a power, going back one squaring at a time leads to a root y0 of the shifted
polynomial h_0 with y0^(2^ell) = y (`RootBelow`, `LeadsDown`, `LeadsToFirst`):
h_(k+1)(v^2) is h_k(v) * h_k(-v), so v or -v is a root of h_k, and both have square
roots for the next step, as -1 is a power of zeta. On the way up, `GraeffeAtRoot`
says how the derivative of h_k at the root and the tangent change, and that keeps
their ratio (`RatioStep`). At the bottom the ratio is 1, as the tangent of h_0 is its
derivative (`ExpansionShifts`); so the quotient that `find_roots` forms at the
top is y0 itself, and y0 - tau is a root of f (`RootAtIs`). Different y have
different y0, so nothing is appended twice.

`ReturnsMessages` follows from it and the invariant. Different roots of a polynomial
divide it (`RootsDivide`), so the last call, which stops because it found as many
roots as the degree, found all of what was left. That makes the product over
what was returned equal to the product over the batch, and `Leftover`, which
takes the roots out one by one, makes of it that each message is returned as
often as it was sent. When NTL factors the rest, the same holds by what it is used
for.

`OnlyMessages` needs less: what a call appends are roots of its polynomial as long as
`hbar` kept its degree, tau among them (`CallSends`), and the roots of what is left
are messages (`RootSent`). It carries over a call with the invariant `RootInv`, and
so bounds what the misplaced test of f(tau) can do: a message may come twice
and another not at all, but no other value comes.

`CanProgress` needs the transforms in closed form (`AllFormed`). With the roots r of
f moved to x = r + tau, the pair after k squarings is, up to two constants that are not
0, the product of the factors X - x^(2^k), and the sum over the roots of x^(2^k - 1) times
that product without the factor of x (`Tangents`). `FormedFirst` has this for the
derivative, `ClosedStep` for one squaring, where every factor a comes with -a
(`SquareTangents`). The step holds only while `hbar` has its full degree, because of how far
`update_linear_expansion` copies it (section 3); but the leading coefficient of
`hbar` is just a constant times the sum of the x^(2^k - 1) (`FullDegree`). So a shift is
good (`GoodShift`) when it is no root, when none of these sums is 0 for
k < ell, and when the last x^(2^ell) differs from all the others and from 0: then that one
is a root of h_ell and not of its tangent (`LastFactor`), and as a 2^ell-th power
it is among the values that `find_roots` looks at (`IsUnity`, `ApartFound`). The bad
shifts are the roots of a product of polynomials in tau
(`WeightsPolyExists`, `ApartPolyExists`), none of which is the zero polynomial, and
whose degrees add up to less than p - 1 by the way `find_roots` chooses ell
(`EnoughShifts`); so the field has a shift besides them (`GoodShiftExists`). The messages
must differ for the x^(2^ell) to do so, which is what `TwoBlamed` violates.

Each action has its own lemma or proof step, with one part per
conjunct of the invariant it can disturb.

Only model-checked: the liveness properties (`SessionEnds`, `AllSessionsEnd`, the
fairness part of `ExchangeSpec` and `ChannelSpec`), which are out of the prover's
reach. Every invariant of the passing runs is a theorem.

## 5. Not modelled

* NTL, Boost.Asio and TCP: `Polynomials`, `Flush` and `Break` are what the code
  uses of them.
* Packing with l > 1 and the last, smaller block: the configuration fixes l = 1, so
  `size_last1` is 0 and the code for it never runs.
* Reading the configuration and the prime table: straight-line code that ends the
  process on an error.
* The bytes of an element, which both sides cut at the same width.
* Lost connections in the middle of a session: the program does not reconnect, so
  such a session does not end.
* The data race between `is_connected()` and `socket.close()` beyond a stale
  answer.
* `send_message_to_client`, `send_message_to_all_clients`, `corr_servers`,
  `GET_RAND_COIN`, `vdm_share_secret`, `add2basis_gen`, `encode_input`,
  `decompress_encoding`: unused by the program.

## 6. Plan

1. *(done)* `MixingStm` with its proofs, `RoundExchange`, `Connection`,
   `FifoChannel`, `Sessions` with start-up, `InputEncoding`, `Opening`,
   `RootFinding`.
2. *(done)* Proofs for `InputEncoding`, from an invariant that gives `pos` in terms
   of the loop and its counters.
3. *(done)* Proofs for `Connection`: `ConnInv`, and from it the safety part of
   `FifoChannel`.
4. *(done)* Proofs for `Sessions`: `SessInv`, and from it that sessions stay apart.
5. *(done)* Proofs for `Polynomials` and `Opening`: the decoder for every prime.
6. *(done)* Newton's identities and the invariant of `RootFinding`.
7. *(done)* `ReturnsMessages`: one call of `find_roots`, from the transforms to the roots.
8. *(done)* `CanProgress`: the transforms in closed form, and a bound on the number of
   shifts that make no progress.

What is left is liveness, which stays with the runs.
