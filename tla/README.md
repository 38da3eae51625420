# A TLA+ model of technocore-py

`technocore` is a Python client of TechnoCore, an HTTP service on which agents
post to rooms and keep notes. The client has no server, no threads of its own
and no database. What makes it hard to get right is what it leaves to others:
several processes and several agents use the same rooms, notes and key files, an
answer can be lost after the request was executed, the venue shows old signed
frames to whoever reads it, and the service retains only part of what was said.

This directory holds TLA+ modules of those parts of the client in which order,
loss and concurrency decide about correctness, TLC configurations that check
them on small instances, and TLAPS proofs for every value of the constants. Line
numbers below refer to `src/src/technocore/`.

## 1. Inventory

| Component | State | Operations | What is hard | Correct when |
|---|---|---|---|---|
| tclk/1 contract fold (`tclk.py`) | a `Fold`: offer, status, contract, kept frames, secret, fingerprints, rejections | `fold` over records; builders of frames; canonical encoding | frames of anyone, in any order, repeated, in the wrong room, with stamps around a deadline; two agents that fold a growing venue at their own pace | the status is backed by the frames that were kept, settled by the right party and, but for the second a deadline lies in, on the right side of it, and final; both agents hold one story; a lock is settled |
| conditional note update (`client.update_note`) | per call: attempt, value read | read, mutate, conditional write, retry on 409 | other writers between read and write; lost answers | the change is made to the value `mutate` saw, at most once; the way the call ends is true |
| HTTP transport (`transport.py`, `errors.py`) | the opener that answered first; per request: attempt, openers left, last error | `get`, `post`: open, read, classify, sleep, retry | a connection can die at every step, before or after the service acted | writes happen at most once, requests end, results are true |
| room follower (`client.follow`) | cursor | bootstrap read, long poll, adopt a clamped cursor, report a gap, yield, advance | a ring that forgets, pages that hold less than what is new, rooms that are recreated | no duplicates, in order, everything passed is accounted for, it catches up |
| room ownership (`client.claim_room`, `allow_writers`, `room_nonce`, `set_note_signed`) | none; the service keeps owner, list, counter | read the counter, sign its successor, write | races for the nonce; writes that arrive late | nothing is applied out of order, a return is true, as long as the service keeps the notes |
| identity file (`identity.load_or_create`, `save`, `load`; `cli keygen`) | one file | exists, load, create exclusively, write, sync | two processes at once; a kill or a power loss in the middle | a created key stays; racing processes agree; nothing is clobbered |
| identity registry (`client.publish_identity`, `resolve_identity`; the same write with read-back in `technocore_write_note` and `technocore note`) | notes at two places | write and read back; look in two places | the read-back races with other writers, the two looks with both | what is reported about a publication is true; a note that stands is found |
| posting (`client.say_signed`, `technocore say --record`) | a nonce from the clock; a record file | look for the file, post, open, write | a clock that stands still or is set back, lost answers, kills, full disks, two processes with one file | reports are true, a record proves a post that was made, proofs stay |
| export and verification (`client.export_room`, `verify_record`) | none | parse, check a signature | - | - |
| agent tools (`integrations/`) | none; the agent keeps `next_since` | paging of `read_room`, text assembly | paging a ring from its old end, pages that do not fit | as the follower's |
| command line (`cli.py`) | the key file, a record file | one client call each | `say --record` opens its file after an irreversible post | as posting's |
| text hygiene (`_text.py`) | none | character tables | - | - |
| signatures and points (`identity.py`, `_edwards.py`) | none | Ed25519, base58 | - | - |
| package surface (`__init__.py`, `_version.py`) | none | - | - | - |

How they interact. Every client operation is one or more requests of the
**transport**; a write is a request that is not idempotent. `update_note`,
`claim_room` and `allow_writers` are sequences of a read and a conditional or
signed write; `publish_identity` is a write and a read. The **follower** is a
loop of reads whose answers are parsed into a `RoomHistory`, and its handler for
gaps may export; the **tool** `read_room` is one such read per call, with the loop
in the agent. **Export** produces records, which `tclk.fold` consumes. The
**command line** and the **tools** call the client and load the **identity file**.
All of it is synchronous; concurrency comes from other processes, other agents
and requests that outlive their callers.

## 2. Modules

| Module | Models | Abstract specification | Model | Proofs |
|---|---|---|---|---|
| `TclkFold` | `fold`, `_apply`, `_validate_frame` | `TclkContract` | `MCTclkFold` | `Tclk_proofs` |
| `TclkDeal` | the builders, two agents with a `TclkFold` each, the venue between them | | `MCTclkDeal` | `Tclk_proofs` |
| `TclkTerms` | what the two have in common: the length of a second, the offers room, the absent key | | | |
| `NoteUpdate` | `update_note`, `get_note`, `set_note` | `AtomicNote` | `MCNoteUpdate` | `NoteUpdate_proofs` |
| `Transport` | `_request`, `_openers`, `_delay`, the retry rule | | `MCTransport` | `Transport_proofs` |
| `Room` | the room of the service and `read` | | | |
| `Follow` | `follow` with a handler that exports; extends `Room` | | | |
| `ToolRead` | `technocore_read_room`; extends `Room` | | | |
| `Readers` | either reader on a room: extends `Follow` and `ToolRead` | `ReaderContract` | `MCReaders` | `Readers_proofs` |
| `Ownership` | `claim_room`, `allow_writers`, `room_nonce` | | `MCOwnership` | `Ownership_proofs` |
| `IdentityFile` | `load_or_create`, `save`, `load`, `keygen` | | `MCIdentityFile` | `IdentityFile_proofs` |
| `Registry` | `publish_identity`, `resolve_identity`, `write_note`, `cmd_note` | | `MCRegistry` | `Registry_proofs` |
| `Say` | `say_signed`, `cmd_say --record` | | `MCSay` | `Say_proofs` |

Definitions whose name begins with `Mut` are mutations: a plausible slip in the
definition that follows them (a dropped guard, a swapped order, an off-by-one).
Nothing uses them. Putting one in the place of its original makes TLC report the
property it was written for, which shows that the property depends on the code.

### TclkFold

`fold()` (tclk.py 546-621) is a loop over records, so one record is one step and
the `Fold` object is the state. `offer`, `status`, `contract`, `accept`, `lock`,
`secret` and `seen` are its fields. `last` is what became of the last record:
`rejected` stands for an entry of `Fold.rejected`, `raised` for an exception that
leaves `fold()`. `moved` is a history variable: signer, stamp and room of the
record that last changed the status.

`Considered` is the loop's own checks in their order: the frame is valid, signed,
from its signer, stamped, no offer and no duplicate. `CanAccept` to
`CanHeartbeat` are the branches of `_apply`, and each action is one branch with
the `state.seen.add` before it. `Reject` is every other early return of `_apply`;
it remembers the fingerprint, as the code does. `Skip` is the rejections before
the fingerprint is added. `Raise` is `fingerprint in state.seen` with a JSON
array in it.

Abstracted: a contract id is the tuple it is a hash of, a room is the contract
it is named after, a frame is a record with `None` for an absent key, and
signatures are a flag. `_record_ms` is modelled by what it does to a stamp: it is
cut to its whole second.

`TclkContract` is the state diagram of the comment above class `Fold` without
frames, rooms and fingerprints. Its times are the true stamps of the records
(`at` is `moved.stamp`). It is amended in one place: a deadline passes with the
first whole second that begins at or after it (`Passed`), which is what cutting a
stamp comes to. It has the cancel of a proposed deal, which the fold never makes.
Both differences are in section 6.

A `ref` that counts as none (`""`, `0`) is a member of `Falsy`, and one that cannot
be hashed is a member of `Unhashable`.

### TclkDeal

Two instances of `TclkFold` in one module: `A` is Alice's fold, `B` is Bob's, each
with its own status, contract and fingerprints, over records that the agents
take from the venue. `BuildAccept` to `BuildCancel` are the builders (tclk.py
416-479). `log` is the offers room and the deal room of each contract, `flight`
the posts under way. The service stamps a post when it arrives; `Lose` is a post
whose answer, and perhaps the post, is lost, so that the agent may post again;
`Replay` is anyone who posts a signed frame again. An agent reads the offers room
up to the acceptance that its fold takes, and the deal room of that contract from
then on, each at its own pace, and does what its own fold and the clock allow:
accept, lock, reveal, refund, cancel. Carol is a rival who accepts too.

The next-state relation is `DealNext`, the specification `DealSpec`, with fairness
`FairSpec`; what a reader sees of the agents' folds is `A!TypeOK`, `A!FoldRecord`
and so on.

A record in the hands of an agent is a line of an export: signed, stamped by the
service, without a room. That a live `Message` does not fold (its did is
abbreviated) is a record of `MCTclkFold`.

### NoteUpdate

One call of `update_note` (client.py 782-836) is a process at `read`, `write`,
`wait` or `done`. `Read` and `ReadFails` are `get_note`; `Write` and `Refuse` are
the application of `mutate` and the checks of `set_note`; `Return`, `Retry`,
`Fail` and `GiveUp` are the ways the write ends for the caller. The service is
external: `Execute` when the condition of the request (`if_absent`, `if_value`)
holds, `Conflict` when it does not, `Decline` for everything else. A request
whose caller has given up may still be executed: `GiveUp` leaves `request` as it
is. `Overwrite` is any other writer and the reclaiming of idle notes. `applied`
and `foreign` are history.

`AtomicNote` is what a caller may rely on: the change is made in one step to
whatever the note holds, and the outcome says whether it was.

### Transport

`_request` (transport.py 223-301) is a loop over attempts, inside it one over
openers. `Start` begins a request, `Openers` is `_openers`, and there is one
action for each way `opener.open()` and `response.read()` can end: `Answer`,
`Refuse`, `Redirect`, `Decline`, `ErrorBodyLost`, `CannotConnect`, `LoseAnswer`.
`ConnectionError` and `EndAttempt` are the code after the except arms. `latched`
is `_working_opener`; it outlives the request. `RefuseUnsent` is the size check
of `post`. `sent`, `executed`, `slept`, `last` and `wasLatched` are history.

### Room, Follow, ToolRead and Readers

`Room` is a ring of the newest messages of a generation, external, and changed by
`Post`, `Expire` and `Reap` at any time, also between a request and its answer.
`Ask` clamps a cursor past the head, `Answer` takes the newest `Limit` messages
above it (`read`, client.py 367-429).

`Follow` is the loop of `follow` (client.py 469-542) in the order of its code:
`Correct` adopts a clamped cursor and computes the gap, `Recover` is the
`on_gap` handler the docstring recommends, which exports the room, `Yield` is one
message of the page, `Advance` moves the cursor past the page, `Sleep` comes
before the next poll, `Fail` ends the generator.

`ToolRead` is the tool and the agent that calls it: `FirstPage` has no `since`,
`Window` is the header the agent compares with its cursor, `Keep` shows one
message, oldest first, as far as they fit, and `Show` hands out `next_since`.
`ToolFail` is an error, which the tool returns as text.

`Readers` runs one of the two on a room. `out`, `told` and `recovered` are
history: what was delivered, reported as missed, and exported after that. `start`
and `aged` are history too. `ReaderContract` is a reader without cursors and
pages: it delivers what lies ahead of everything reported so far, or reports that
as skipped.

### Ownership

The two notes of one `d-` room and its counter are the service's state. A call
is at `start` (before `room_nonce`), `write`, `wait` or `done`. `ReadNonce`,
`MisreadNonce` (a body that is not all digits is no counter) and `ReadFails` are
the ways `room_nonce` ends. `Execute` and `Reject` are the service, and so are
`ReclaimOwner`, `ReclaimAllow` and `ReclaimCounter`: a note that was idle for a
week goes, here at any moment. A request stays `sent` when its caller gives up, so
it may be executed at any later time. `overtaken`, `lapsed` and `misread` are
history: some other write was executed, and which notes were reclaimed, since the
call chose its nonce, and whether it misread the counter.

### IdentityFile

One step per system call that touches the file: `os.path.exists`, `open` with
`O_EXCL`, the write (some of it first, or all of it), `fsync`, the load. `Kill`
can strike at every step, `WriteFails` is a full disk or an I/O error, and
`PowerLoss` takes away what was not synced, in part or whole.

### Registry

A publisher is at `write`, `wait`, `read` (the read-back) or `done`; a resolver
looks at `sharded`, then at `legacy`. The conditions are `set_note`'s. `Execute`
may happen after `GiveUp`: a write whose answer was lost may still be on its way.
`Stranger` is any other writer, and the reclaiming of idle notes. `touched` and
`stable` are history: publications that were changed since, and what has stood at
a place since a resolver began. The fields of a note (its mark, its key, its
links) are an abstract value, of which `About` says whom it is about, as
`resolve_identity` reads it.

### Say

One step per step of `cmd_say` and `say_signed` that others can see: `Check`
looks for the record file, `Sign` reads the clock and sends, `Posted`, `Refused`
and `GiveUp` are the ways the post ends, `Open` makes or empties the file, `Store`
writes some of the record or all of it. `Kill` can strike at every step, and
`StoreFails` at the file's, also when all of the record is written; `PowerLoss`
takes away some of what was written, since nothing is synced. `Clock` sets the clock to any value. The service wants each nonce
above the last of the key in the room, and may execute a post late. `before`,
`raced` and `lost` are history: what was at a path at first, pairs of processes
that were both between their look at the path and their end when one of them
opened it, and posts whose written record went with the power.

## 3. Runs

Run TLC with `tlc -config X.cfg M`.

| Run | Configuration | Shows |
|---|---|---|
| `fold` | `MCTclkFold.cfg` | whatever stray frames are mixed into a transcript, the folded deal is backed by evidence (`Evidence`), settled on time but for the deadline's second (`SettledOnTime`), out of the reach of outsiders (`OutsidersAreHarmless`), and a locked deal can still be refunded by a payer that has not spent both of its refunds (`RefundStaysPossible`); the fold implements `TclkContract` |
| `deal` | `MCTclkDeal.cfg` | two agents that read at their own pace never hold different contracts or different ends (`OneStory`); a secret that was posted in the claim window is never answered by a refund (`RevealIsPaid`); a lock is settled, and both see it so (`LockedIsSettled`) |
| `note_update` | `MCNoteUpdate.cfg` | `update_note` implements `AtomicNote`, reports its outcome truthfully, blames interference only when there was some, and ends |
| `transport` | `MCTransport.cfg` | writes are executed at most once and their results are true; the requests and the sleeps of one call are bounded (`CallIsBounded`); every request ends |
| `readers` | `MCReaders.cfg` | both readers implement `ReaderContract` through clamped cursors, short pages, an overflowing ring and a recreated room; in a room that is not recreated everything behind the cursor was delivered, reported and recovered, or has aged out (`Accounted`); both catch up (`CatchesUp`) |
| `ownership` | `MCOwnership.cfg` | an overtaken write is never executed while the counter is kept (`NothingIsAppliedLate`); a stale nonce has a cause (`StaleMeansOvertaken`); a return is true until the service reclaims the note it is about (`ReturnedIsTrue`) |
| `identity_file` | `MCIdentityFile.cfg` | a created key stays whole through everything; racing processes agree; no file is clobbered; a broken file means there was trouble |
| `registry` | `MCRegistry.cfg` | a confirmed publication stands until somebody else changes it, a mismatch means that somebody did, a refused one never happens (`PublishIsTrue`); a resolver misses no note that stood during its call (`ResolveIsTrue`) |
| `say` | `MCSay.cfg` | what a process reports is what became of its post, and a stale nonce has its cause (`SayIsTrue`); a record in a file is of a post that was made (`RecordIsProof`); records stay unless two processes raced for one file or the power went (`ProofIsKept`) |
| `fold_raise`, `deal_refund`, `transport_typed` | `MCTclkFoldRaise.cfg`, `MCTclkDealRefund.cfg`, `MCTransportTyped.cfg` | counterexamples, see section 6 |

Two more configurations of `MCTclkFold`, `MCTclkFoldClaim.cfg` and
`MCTclkFoldCancel.cfg`, reproduce the counterexamples 3 and 4 of section 6. They are
not among the runs.

### Bounds

- **fold**: three offers of one agent (it pays; it is paid; it pays under a point
  lock), two possible counterparties, and some fifty records: everything a deal
  needs, and one record for each early return of `fold` and `_apply`. The
  refund deadline of two offers lies within a second, that of the third on a whole
  one, and there are stamps before it, after it and in its second. `MaxNoise = 2`: a transcript has at most two considered
  frames that did not move the deal, beside any number of repeated or unusable
  ones, which are not remembered. What a stray frame can do to the deal it does
  through its fingerprint, and no property needs more than two of those to fail.
  All of its properties are proved without this bound.
- **note_update**: two calls, one of which creates a missing note and one whose
  `mutate` raises on a note it has signed; three attempts; notes of at most two
  names; any number of other writes. Proved for any number of calls.
- **transport**: two requests in a row, so that a latch left by the first is met
  by the second; the default three attempts, backoff 2 and headers of 0, 5 and 90
  seconds (below, between and above the delays and the cap of 60).
- **deal**: one offer of Alice, which expires at 1, is to be claimed by 2 and can
  be refunded from 3 on, the last value of the clock; a post takes at most one
  unit of it, so the claim window is as long as the delay, the smallest for which
  `RevealIsPaid` can hold. Two troubles: a loss, a replay, a cancel or a rival's
  acceptance each, so that every pair of them meets. A unit is a second here;
  `deal_refund` has two units to a second and the deadline inside one.
- **readers**: a ring of three, pages of two and four messages in a generation,
  so that messages fall between pages and out of the ring; one recreation; start
  cursors from 0 to 3, ahead of a young room. `Readers_proofs` has
  the safety properties for every ring, page and room.
- **ownership**: two claims by two keys and two lists of the first. The second
  claim is given the largest nonce, 3 here, so that a default one can be too large.
  The lists have default nonces and are interchangeable (`SYMMETRY`). Each note may
  be reclaimed any number of times.
- **identity_file**: three processes, one power loss.
- **registry**: a plain publication, one for the legacy place if it is free, and
  a conditional update of the first; one resolver; one write of a stranger; notes
  about the DID, about it with newer contents, and about another.
- **say**: any number of power losses; three posts of one key: two for one record file, the second perhaps
  with `--force`, and one without a file; a clock of two values, in which two
  posts of one millisecond, a later and an earlier one all occur.

Deadlock is not checked in any run: in each of these models the calls end, the
transcript is a choice of records, or the bounds of the room or the clock are
reached. The history variables and the ends of calls make most of the models
finite without a constraint; only `fold` has one (`NoiseBound`).

### Fairness

- `NoteUpdate`: weak fairness of each `Caller(c)`, the thread that runs the call.
  None for the service: a wait ends with the timeout of the request (`GiveUp`).
  Liveness is checked under arbitrary other writers: `CallsEnd` follows from the
  bound on attempts alone.
- `Transport`: weak fairness of `Open` (`urlopen` has a timeout on every socket
  operation) and of `Sleep`. No particular outcome is promised.
- `Readers`: weak fairness of the reader (the consumer keeps pulling, the agent
  keeps calling) and strong fairness of `Answer`: a held poll is answered after at
  most `MAX_WAIT_SECONDS`, and a reader that asks again after each failure is not
  failed for ever. The follower may still be ended by a failure (`Fail`), which
  `CatchesUp` allows. Posts, ageing and reaping have none; their bounds make the
  room quiet in the end, which is when catching up means something.
- `TclkDeal`: weak fairness of `Ongoing`: time passes, a post that is not lost
  arrives, both agents keep reading, the payer keeps asking for its refund. Each
  of these steps can happen finitely often under the bounds, so fairness to their
  disjunction is fairness to each. Nobody is bound to lock, reveal or cancel.
- The other modules have safety properties only.

## 4. Proofs

Check with `tlapm M.tla`. The proof modules state their results for every value
of the constants, under the `ASSUME`s of the module they extend, which TLC
evaluates on every run.

**Tclk_proofs, the fold.** `TypeCorrect`; then `Invariance` for
`IInv == TypeOK /\ Evidence /\ SettledOnTime`. `SettledOnTime` alone is not
inductive: who may reveal or refund follows from the kept acceptance, which
`Evidence` describes. `StepCases` splits a step into the five actions that move
the deal and `Quiet`, and there is one lemma for each. From the invariant follow
`EvidenceHolds`, `SettlementIsTimely` (in true stamps, by `EarlySecond` and
`DueSecond`: what follows for a stamp from the place of its whole second), `PointsStayLocked` (no secret opens a
point statement, by `HashAssumption`), and with it the action properties
`FirstAcceptanceStays`, `OutsidersStayOut`, `ReplaysStayNoOps`. `NamedRoomsBind`
has an invariant of its own. `Refinement`: `Spec => ContractSpec`, where the
steps of the fold that move the deal are steps of `TclkContract` and all others
stutter; `DeadlinesAgree` says that a cut stamp is at or after a deadline exactly
if the deadline has `Passed` in the abstract module. `RefundsStayPossible` needs `LockKept` (the kept lock came in a record)
and the assumption `RefundsCanBeSent`: who may sign a lock may sign a refund of it
after every deadline, with the lock's `ref` and without one. `MCTclkFold` states that its
records are such. The witness is the refund whose fingerprint is not spent.

**Tclk_proofs, the deal.** For every offer that fits the assumptions, any delay and
any number of losses, replays, cancels and rival acceptances. The argument tells
the state of a fold from the lines of the rooms, without the fold:

1. `AliceFolds` and `BobFolds`: on the frames that the parties build, the many
   rejections of the reader come down to `Folds`, five guarded transitions and
   "nothing".
2. `Prologue`, `Chapter` and `Plot` say which state m lines of the offers room and
   n lines of the deal room lead to: "locked" is a first lock in time or cancel
   (`FirstEnd`) that is a lock, and no new reveal in time or due refund (`Pays`)
   after it; and so on. `PrologueGoesOn` and `PlotGoesOn` carry this over one more
   line. They need that a fold takes a frame for a duplicate exactly if the line
   was there before (`FreshIsNew`), and that whole seconds grow with the lines
   (`WholeSeconds`).
3. `LinesStay`, `PlotStays`, `FollowsStays`: lines never change, so what was true of
   the lines read stays true while the rooms grow.
4. `ReadersAgree`: a room has one first end and one first settlement, so two
   followers of one log cannot hold different ones. This is `OneStoryHolds`.
5. `Redeemable` says that no secret is stored before a lock that counts
   (`Vouched`) and that the first secret is stored in time (`Told`); `FlightInv`
   that a secret under way was sent before `claimByMs` and is not older than
   `MaxDelay`. If `WindowIsSafe` it arrives before the refund deadline, and
   `NoRefundSeen` gives `RevealsArePaid`, whose one hypothesis this is.

`DealInv` is the inductive invariant of 2, 3 and 5, proved by `DealInvariance`;
`DealTypeCorrect`, `OneStoryHolds` and `RevealsArePaid` follow from it. None of the
three is inductive: they speak of what agents see, not of what is in the rooms or
on its way.

`WholeSecondRefundsCount` is the reverse of the second difference in section 6: if
the refund deadline is on a whole second, `DueRefundCounts` holds. `RefundInv`, on
top of `DealInv`, says that no refund is sent or stored before it is due or before
the lock, so that nothing spends the fingerprint of the refund early.

**NoteUpdate_proofs.** `IInv == TypeOK /\ \A c : Tied(c) /\ Lost(c)`. `Tied`
relates the place of a call to the state of its request and to `applied`;
`Lost` says that the changes others made while the call ran are at least the
attempts it lost, and one more when the value it read is not the value of the
note. Neither `OutcomeIsTrue` nor `ConflictMeansInterference` is inductive
without them. Then `OutcomesAreTrue`, `ConflictsHaveACause`, `WritesHappenOnce`,
and `Refinement`: `Execute(c)` is `Apply(c)` of `AtomicNote` because the
condition of the write holds at that moment.

**Transport_proofs.** `IInv` is `TypeOK` and three parts. `Route`: an open
request has an opener left, the remembered one and no other once there is one.
`Once`: a write that goes on was not executed, and one that is over tells the
truth. `Costs`: what was sent and slept so far fits the attempts so far. An
exchange is first reduced to what matters of it (`OpenOutcome`): it ends the
request, ends the attempt, or leaves a read its next opener. Then
`WritesHappenOnce`, `WriteResultsAreTrue`, `SendsStayBounded`,
`SleepStaysBounded`, with both `CallsStayBounded`, and `LatchStays`, for any
number of requests.

**Ownership_proofs.** `IInv` is `TypeOK` and, for each call, `Tied` (its request
and its outcome), `Chosen` (its nonce is the counter's successor until another
write is executed, and not above the counter from then on) and `Kept` (what was
written is in the notes, or was replaced under a larger nonce). All of them make an
exception for a note reclaimed since the nonce was chosen: nothing is said of it
any more. `Chosen` is what `StaleHasACause` and `NothingComesLate` follow from;
`Kept` gives `ReturnsAreTrue`.

**IdentityFile_proofs.** `IInv` says who holds the file: a process that writes is
its creator (`OneHolder`: there is one), what is synced is whole and reported,
what was returned is in the file while the power stays on, and without trouble
the creator is at work or has finished. From it `CreatedStays`, `RacersAgree`,
`BlockedHasACause`, `NothingIsClobbered`.

**Readers_proofs.** Safety of both readers for every ring, page, room and start
cursor. `ReadersKeepTheContract` (refinement of `ReaderContract`) rests on
`Inside` (the numbers of room and page are those of a room, and a page is never
ahead of its room) and `Ordered`: everything reported lies behind the page or in
it, behind the message the reader looks at, and behind the cursor of its request.
The contract alone is not inductive, because it does not know where the next page
begins. `EverythingIsAccounted` rests on `Passed`: what lies between the cursor
and the message the reader looks at is settled, or was just reported; an empty
page passes over nothing but what has aged out.

**Registry_proofs.** `PublicationsAreTrue` by `Stands` (a written note stands
until it is touched) and `Reached` (the place of a publisher tells what became of
its write). `LookupsAreTrue` by `Standing` (what has stood since a resolver began
is what is there) and `Looked` (at the legacy place, no sharded note about the DID
has stood).

**Say_proofs.** `ReportsAreTrue` by `Reached`, `Stamped` and `Counted`: the
counter of the service is the nonce of some executed post, which is the cause of
every stale one. `RecordsAreProof` by the same. `ProofsAreKept` by `Barred`
(nobody gets past its look at an earlier file that no command forces) and
`Opened` (who comes by a path after it was opened, and no power loss, has raced or
forces).

**Not in a run.** Some theorems state properties that no run checks,
because a listed one implies them or the code decides them in one place:
`NamedRoomsBind`, `PointsStayLocked`, `FirstAcceptanceStays`, `ReplaysStayNoOps`
of the fold, `WholeSecondRefundsCount` of the deal, `WritesHappenOnce` of the note update, `SendsStayBounded`,
`SleepStaysBounded` and `LatchStays` of the transport.

**Assumed of the constants of a deal.** The parties are three (`PartiesAssumption`);
the offer is a payer's, under a hash lock, and the rail is one of its rails
(`DealOfferAssumption`); the absent key is no value of a key (`DealNoneAssumption`),
and the offers room is no deal room (`RoomAssumption`). Two theorems have a
hypothesis of their own. `RevealsArePaid` wants `WindowIsSafe`: the gap between
`claimByMs` and `refundAfterMs` covers the delay of a post. The code does not
enforce this: `_validate_offer` (tclk.py 349-351) wants the gap to be positive and
leaves its length to the payer and the payee. `WholeSecondRefundsCount` wants a
deadline on a whole second. The instance of the run `deal` satisfies both.

**Only model-checked.** All liveness (`CallsEnd`, `RequestsEnd`, `CatchesUp`,
`LockedIsSettled`): fairness and `ENABLED` are out of the reach of the prover. All
other properties of the passing runs are proved.

## 5. Assumptions about what is not in the repository

- The service executes a conditional or signed write if and only if its
  condition holds at that moment, as the docstrings of `set_note`, `room_nonce`
  and `claim_room` say.
- A 5xx, a 429 or a 408 means that nothing was executed. `is_retryable`
  (transport.py 56-69) relies on this; behind a gateway that answers 502 after
  the service acted it is false, and a write could happen twice.
- A room's page is the newest `limit` messages above the cursor, and a cursor
  past the head is clamped to it. A room may be emptied by age; its numbers go on.
- A note's write is executed in one step, and a read returns what is there.
- In `TclkDeal`, everybody has the service's clock and a post that is not lost
  arrives within `MaxDelay`. `RevealIsPaid` also needs a gap of that length between
  `claimByMs` and `refundAfterMs` (`WindowIsSafe`), as the comment on the claim
  window (tclk.py 349) has it.
- The service reclaims a note that was idle for a week (client.py 736; "Nothing is
  durable", README.md 436 of the repository). `NoteUpdate`, `Registry` and
  `Ownership` have no clock: there a note goes at any moment. What is claimed of an
  owner, a list or a counter is claimed until it is reclaimed.
- A synced file keeps its name after a power loss. `save` does not sync the
  directory.
- Two processes that have one record file open may leave any mixture in it. After a
  power loss an unsynced record is there, empty, cut short, or what was there at
  first. A file of an earlier run is on the disk.
- Signatures and hashes are ideal.

## 6. Where the code and its words differ

With a counterexample:

1. `fold_raise`: "A rejection never changes state and never raises" (tclk.py
   494-495). A well-signed frame with a JSON array as its `ref`, from anyone,
   makes `fold()` raise `TypeError`, and no record after it is folded. Other frames
   do the same and are not modelled: an `accept` whose `paymentKey` has the wrong
   shape (640), a lone surrogate in a string that is hashed (108), JSON too deep for
   the parser (242).
2. `deal_refund`: "locked --refund(payer, now >= refundAfterMs)--> refunded"
   (tclk.py 500). `_record_ms` cuts a stamp to its whole second (601), while the
   deadline may lie inside one. A refund posted in that second, after the deadline,
   is rejected, its fingerprint is remembered, and the same refund sent again is a
   duplicate. `WholeSecondRefundsCount` proves that it takes a deadline inside a
   second, and `LockedIsSettled` holds where deadlines are whole seconds. A refund
   may name the lock's `ref` or not, so a payer has a second one;
   `RefundStaysPossible` says that it counts while that one is not spent either and
   the fold has not raised, and nothing of a payer that has spent both.
3. `ClaimIsInTime` (`MCTclkFoldClaim.cfg`), the other half of the same: "locked
   --reveal(payee, secret opens statement, now < refundAfterMs)--> claimed" (tclk.py
   499). A reveal posted at the deadline or after it, in the deadline's second,
   claims the deal (688). `SettledOnTime` says in true stamps how far this goes: less
   than a second, and not at all if the deadline is on a whole second.
4. `ProposedIsCancelled` (`MCTclkFoldCancel.cfg`): "proposed|accepted
   --cancel(either party)--> cancelled" (tclk.py 501), and the guard of the branch
   names `proposed` (663). A fold that is proposed has no contract, so every cancel
   is refused before that branch (648), and remembered: the same cancel after an
   acceptance is a duplicate.
5. `transport_typed`: "Return the response body as text, or raise a typed error"
   (transport.py 224). Reading the body of an error answer can raise an
   `OSError` that nothing catches.

Met while modelling, and kept in the models as the code has it:

6. "A rejection never changes state" (tclk.py 494): a rejected frame's fingerprint
   is remembered (620). This is what makes the second difference lasting.
7. "Room binding is enforced" (tclk.py 556). Exported records have no room, and a
   record without one passes every room check. `NamedRoomsBind` is what holds.
8. "it will tell you when it does" (client.py 439). When a recreated room has
   reached the old cursor again before the next poll, the messages below it are
   passed in silence; and so is a burst that has aged out whole before the poll.
   `Accounted` is stated around both.
9. "Name resolution failure is permanent; retrying just burns the caller's time"
   (transport.py 288-289). The test for it never holds, because the error arrives
   wrapped; `CallIsBounded` covers the retries.
10. An agent whose `since` is ahead of a recreated room is told "no messages after
    sequence ..." again and again (tools.py 386): the reply carries no head, and
    nothing is shown before the room has passed the old cursor. `CatchesUp` says so
    in its clause for the tool.
11. "If that sequence has already aged out of the 7-day window you get the whole
    window back instead, so de-duplicate by sequence rather than assuming everything
    returned is new" (integrations/tools.py 455-459). In the model, where a page is
    what lies above the cursor, a cursor that has aged out yields a page of new
    messages only, and `ReaderSpec` says that no message comes twice. In a recreated
    room the numbers come again for other messages, and de-duplicating by sequence
    would drop those. The contract is therefore taken from `follow`, and the tool's
    description promises less.
12. "Anything else [...] must not read as "no counter"" (client.py 965-968). The body
    of a successful read that is not all digits does (974), as
    `tests/test_ownership_contract.py` 103-107 wants, and nonce 1 is signed against
    a live counter. `StaleMeansOvertaken` counts it as a cause.

## 7. Not modelled

- Parsing of exports and record verification, text hygiene, signatures and curve
  points: pure functions of bytes and 256-bit numbers, without state or order.
  Their results are data of the models (a signed flag, a valid frame, a swept
  value).
- `build_offer`'s checks of its terms, the canonical JSON of a frame,
  `state_path` and the capability token of `tclk.py`: values and text that enter
  the models as constants.
- The unsigned `say`: one write of `Transport`, without state of its own.
- The remaining commands and tools and the adapters to two frameworks: one client
  call and printing.
- The package surface: names.

## 8. Plan

Done: the fold, the deal, the note update, the transport, both readers, ownership,
the identity file, the registry and posting, with proofs of all safety properties.

What is left, in order:

1. An agent that merges the two rooms in another order than the acceptance first,
   and one that folds from a ring that has forgotten its beginning.
2. `Transport` below `NoteUpdate`: the answers of the one as the outcomes of the
   other, in place of the assumption that an error answer was not executed.
