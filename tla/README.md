# ATM and bank: specifications, model checks and proofs

This directory specifies the ATM/bank system of this repository in TLA+, checks the
specifications on small instances with TLC, and proves theorems about them with TLAPS.
Paths such as `bank/bank.c` are below `src/`.

## 1. The system

Two programs talk over UDP through a third; a fourth sets them up.

| component | code | state | operations |
|---|---|---|---|
| init | `init.c` | `<name>.bank`, `<name>.atm` on disk | draw a key, write it to both files |
| bank | `bank/bank.c`, `bank/bank-main.c` | user table, ring of accepted nonces, card files on disk | console: `create-user`, `deposit`, `balance`; network: `exists`, `auth`, `balance`, `withdraw` |
| ATM | `atm/atm.c`, `atm/atm-main.c` | `logged_in`, `current_user`, the request in flight | `begin-session`, `withdraw`, `balance`, `end-session` |
| router | `router/router.c`, `router-main.c` | receive buffer of its socket | forward by source port |
| wire protocol | `atm.c`, `bank.c`, `util/crypto.c` | datagrams under AES-GCM, each with a nonce | seal, open |
| list, hash table | `util/list.c`, `util/hash_table.c` | linked cells, bins, sizes | add, find, delete |
| archived submission | `break-it/6825f15e/` | the same system in another design: HMACs, session keys, counters; its own `init`; list, hash table and router are copies of those above | as above, and a login that yields a session key |
| text | `bank.c`, `atm.c`, `util/crypto.c`, archived `util/security.c` | none: functions on strings | split a line, read numbers, names, pins and keys, format and parse requests |

**How they interact.** An ATM command sends one request (`atm_send`) and waits for the
answer in `bank_request`, at most `ATM_RECV_ATTEMPTS` datagrams or 500 ms of silence. The router passes
datagrams on. The bank serves one request or one console line at a time. All a bank
remembers of requests is `BANK_NONCE_RING` nonces; its accounts live in memory, its card
files on disk, so that a restart loses the former and keeps the latter. `init` runs
before all of them; the card file is how the bank hands a secret to the ATM's user.

**What is hard.**
- *Late, lost, repeated and reordered datagrams*, and a timeout on the ATM's side: the
  answer to a command that failed arrives during a later one, and a request may be
  delivered after the ATM has given it up.
- *Restarts.* The replay filter and the accounts are lost, cards and old requests are not.
- *A bounded filter.* The ring forgets; its slots are uninitialised at the start.
- *Partial failure.* `create-user` may die or fail between card and account; `init`
  between two files, or race another `init`.
- *One datagram per request.* The archived ATM reads once and trusts what it gets to be
  the answer: one late datagram shifts every answer that follows.
- *Numbers at their width*: sums at INT_MAX, rows of digits longer than a long, counters
  up to UINT_MAX.
- *Two inputs, one loop.* `select()` looks at descriptors, `fgets()` at a buffer.
- *Pointer structures* under sequences of additions and deletions.

**What makes each part correct.** Bank: a balance stays in range, a name has one account
for ever, a request debits once within the window of the filter, and the filter drops
nothing fresh. ATM: it acts only on the answer to the command in progress, and every
command ends. Together: a user gets cash only against a debit, once, and only after
showing card and pin. Router: it repeats nothing. init: it writes over nothing and both
files agree. List and hash table: the memory is sound and an added key is found.
Bank loop: no line lost, no request starved. Archived submission: one session, counters
in step, the same promise to the user. Text: what one side writes the other reads as it
was meant.

## 2. Modules

```
NonceRing   Wire ------------------ Teller (abstract)      SessionWire
      \    /    \                     ^   ^                 /        \
       Bank      Atm                  |   |         SessionBank   SessionAtm
         \       /                    |   |                 \        /
          AtmBank ---- implements ----+   +- implements -- SessionSystem
             |                                                  |
           Routed                                         SessionRouted

     InitFiles    BankLoop    Text    ListOps - HashTable

proofs:   BankProofs - AtmBankProofs - RoutedProofs
          SessionSystemProofs - SessionRoutedProofs
          InitFilesProofs    InputProofs (Text, BankLoop)    HashTableProofs
```

| module | models | correspondence with the code |
|---|---|---|
| `NonceRing` | `nonce_seen`, `nonce_remember` | a record for `nonces`, `nonce_used`, `nonce_idx`; `garbage` is what `malloc` left in the slots |
| `Wire` | datagrams and the network | `net` is the set of all datagrams sent. A receiver gets any of them, any number of times or never. Encryption is perfect: what opens was sealed by a holder of the key, and anything else is `Junk`. `issued` counts nonces; a random 64-bit nonce is taken as fresh |
| `Bank` | the bank process | `users` is the table; `Serve*`, `Debit`, `RefuseDebit` are the branches of `handle_request` with the nonce check around them (`Accept`); `create-user` is `CreateCard` (card on disk) then `AddAccount` (table), since a kill between the two is visible. No request is served in between |
| `Atm` | the ATM process | `pc` says whether it waits for a command, a datagram or a pin; `Skip`, `Timeout`, `Receive` are the turns of the loop in `bank_request` |
| `AtmBank` | both | steps of either; `witnessed` and `dispensed` are history variables for the properties |
| `Teller` | nothing: it is the promise | open, deposit, debit, pay, close |
| `Routed` | sockets and the router | `atRouter`, `atBank`, `atAtm` are receive buffers. `failures` counts what goes wrong: a datagram lost at the end of a full buffer (`Lose`), a timeout of the ATM although the answer is on its way, a process killed. `Stray` is a datagram of another program, which keeps `bank_request` in its loop |
| `InitFiles` | `init.c`, the archived `init-main.c`, the loading of the keys | one action per system call of an invocation; `version` chooses the program. Of either any number of invocations run at the same time. The archived one is `Create` (`O_EXCL`) and `Write` (whose result is looked at) per file. `met` is a history variable: the invocations that were under way at the same time as this one |
| `Text` | the functions that read and write text | operators on sequences of characters; `text` grows by a character at a time through every short text |
| `BankLoop` | `bank-main.c` | lines in the kernel and in stdio's buffer, datagrams in the socket |
| `ListOps`, `HashTable` | `util/list.c`, `util/hash_table.c` | a list is a record of head, tail, size and live cells; `Find` returns the value in the cell, as `list_find` does, so that a stored NULL cannot be told from a key that is not there; the hash function is a constant |
| `SessionWire`, `SessionBank`, `SessionAtm`, `SessionSystem` | `break-it/6825f15e` | as above; an HMAC is a record that contains what it covers, and a session key is the record of what `derive_session_key` hashes. A failed command drops the ATM's session |
| `SessionRouted` | the archived system behind the router | the sockets and failures of `Routed`, without `Stray`: no other program sends to the ATM's port. The ATM reads one datagram per request and whatever it is decides the command; a refusal of the bank (`ERROR`, `AUTH_FAIL`) is a datagram too |
| `BankProofs`, `RoutedProofs`, `SessionSystemProofs`, ... | theorems about `Bank`, `Routed`, `SessionSystem`, ...; `AtmBankProofs` is about `Atm` and `AtmBank`, `InputProofs` about `Text` and `BankLoop` | section 5 |
| `MC*` | instances for TLC | symmetry sets and the hash function |

An operator commented "Faulty variant" is a plausible bug of the operator below it. No
specification uses it; it shows that a property can tell the code from the bug.

Input that the code rejects without changing state (usage errors, unknown users, junk)
is a stuttering step and appears as the guard of the action for good input.

## 3. Runs

Every run checks for deadlock unless the system may stop: `init` ends, the bank's loop
ends at the end of its input, a text has its full length, and in the two archived routed
runs the nonces are used up.

| run | what it shows | bounds, and why they suffice |
|---|---|---|
| `bank` | `FilterExact`: the ring holds exactly the last `RingSize` nonces since the start, whatever was in memory. `DebitWindow`: two debits of a request are more than `RingSize` accepted requests apart, across restarts too. `OneAccountPerName`, `CardIsOwn`: a name and its card belong to one account for ever | one name, two secrets, 3 nonces and 4 acceptances on a ring of 2: the ring wraps, a request gets past it and is served again, and the name is tried again after a restart |
| `system` | `SessionAuthentic` (both factors), `DispenseBacked`, `BalanceCurrent` (the balance shown was true while the user waited), `KeepsPromise` (implements `Teller`) | two pins, 4 requests: two to log in, two that can get each other's answers; 4 acceptances: those of a whole session, or of the login and of one withdrawal delivered twice. The ring has 4 slots, as many as there are acceptances, which is the hypothesis of `KeepsPromise` |
| `routed` | `KeepsPromise` without that hypothesis: a ring of one slot is enough when the network does not repeat datagrams. `BankSpec`: to the bank the ATM is a client that `Bank` allows for. `OutcomeWasAnswered`: nothing but the bank's answer to this command has a favourable effect. `FailureMessagesAreTrue`: until something fails every "no such user" and "no user logged in" is true, and no account was charged for a withdrawal that "insufficient funds" was printed for. `BankRequestReturns`: a command ends although foreign datagrams keep coming. `CoveredWithdrawalIsPaid`: after the last failure a covered withdrawal is paid, although answers to earlier commands are read first | 4 requests (two to log in, two more), 4 acceptances, two failures at any point: enough for a late answer to meet the next command and for something to go wrong in between. 2 receive attempts, so that a stale answer uses up all but one |
| `late_withdrawal` | *violated*: `RefusedNotDebited` | see below |
| `init_files` | for the archived program: `NeverWrittenOver`, `SuccessIsKept` (success leaves the key in both files for ever), and `KeysAgree` (a bank and an ATM that have started hold the same whole key). For the root program the same, except among invocations that met: an invocation may open, empty or replace the files of one that was under way at the same time, and of no other | 3 invocations, all at the same time or one after the other, each of which fails, is killed or finishes at any call; banks and ATMs start at any point. Two that meet disagree, a third comes before, between or after them |
| `text` | `SplitFindsTheWords`, `AmountIsExact` (no overflow gets by), `NumbersTravel` (what one side prints the other reads, and the archived `strtol` accepts a sign and white space in front of what `parse_amount` accepts, and nothing else), `KeysDecode`, `RequestsAreUnderstood` (a request that went through the ATM's checks is parsed as it was meant) | all texts of up to 5 of 9 characters; longer ones are a matter of proof (section 5). Base 3, INT_MAX 7, LONG_MAX 31: five digits go beyond both, and every wrap of the accumulator is reached |
| `hash_table` | `KeysAreUnique` (two values of one key are never in the table; a key has two entries only behind a NULL value), `WellLinked`: no dangling pointer, no cycle, no wrapped size, and a table as large as its lists say | three keys in one bin (the list bug needs three cells), a fourth elsewhere, a value and NULL, 5 allocations |
| `list_loses` | *violated*: `FindsWhatWasAdded` | see below |
| `bank_loop` | `NothingLostAtEof`; `RequestsAreServed` once the console is quiet, which `MaxLines` makes every console (one that never is starves the ATM); `CommandsAreProcessed`: every command typed at a terminal, and every one written to a pipe that is closed | 5 lines, 3 requests: two reads of several lines each |
| `session_system` | the archived design: `CountersAgree`, `LoginIsAuthentic`, `CardOpensAccount`, `BalanceWasCurrent`, `PaidAsAsked` and `SessionKeepsPromise` (implements `Teller`) | two logins of two requests each, one of the pins wrong: an answer of the first session meets the second, a repeated `AUTH` re-keys the bank. One card secret, so a name is not opened again after a restart in this instance |
| `session_routed` | the archived design behind the router. `OneSession`; `BacklogIsBounded`: the ATM falls behind by one datagram for each failure at most; until something fails, `HonestRequestsAreServed`, `LoginSucceeds` and `CoveredCashIsPaid` | two users, two card secrets, 4 nonces, two logins, one request in each session, one failure at any point: the smallest instance in which a second login ends the session of the first |
| `session_behind` | *violated*: `CatchesUp` | see below; one user, one failure, four nonces |

Constants that are only bounds of the model: `MaxRequests`, `MaxAccepted`, `MaxNonces`,
`MaxSessions`, `MaxCounter`, `MaxLines`, `MaxFailures`, `MaxLength`. They guard the actions that would exceed them.
`IntMax` is INT_MAX made small; 0 or 1 makes every sum hit the limit. `RecvAttempts`
stands for 6, `RingSize` for 1024, `MaxUsers` for 1000: parameters, not bounds.

**Fairness.** `Routed!RoutedSpec`: the router and both receive loops keep running (each is
a loop around a receive call), a blocked `recvfrom` returns after its timeout
(`SO_RCVTIMEO`) when no answer is under way, and `create-user`, once it has written the
card, completes. A timeout that beats an answer on its way is a failure, and nothing
makes failures happen; that there are finitely many is the hypothesis of "after the last
failure", never claimed of a real network. Nobody is assumed to type a command.
`SessionRouted!RoutedSpec`: the same, with the archived ATM's two seconds.
`BankLoop!LoopSpec`: the bank's loop keeps running. All other specifications are safety only.

## 4. Where code and documents part

Three runs are violations.

- **A withdrawal that is refused may have been charged** (`late_withdrawal`,
  `atm/atm.c:231`). The bank debits, the answer is late, `bank_request` fails and the ATM
  prints "Insufficient funds" (`atm.md:110-119` ties the debit to "dispensed"). `FailureMessagesAreTrue` in `routed`
  shows that a failure is the only way there, `KeepsPromise` that nothing worse happens.
- **The archived ATM does not catch up** (`session_behind`,
  `break-it/6825f15e/atm/atm.c:112`). `recv_response` reads one datagram per request. An
  answer that comes after the timeout stays in the socket and is read in the place of the
  next one, whose own answer then waits in turn: every later `begin-session` for a user who
  exists is refused, although nothing fails any more. (Its `atm.md:72-73` asks for the pin
  prompt; a loss or a restart of the ATM ends it.) `BacklogIsBounded` shows that it does
  not get worse. The root program's loop of `ATM_RECV_ATTEMPTS` is the remedy:
  `CoveredWithdrawalIsPaid` in `routed`, which fails when the loop is taken out.
- **The list loses elements** (`list_loses`, `util/list.c:59`). `list_add` never moves
  `tail`, so the third element replaces the second; the hash table then misses a key.
  `hash_table` shows that this stays a loss: memory and sizes remain consistent with what
  the lists count.

Others were met while modelling, follow from the same models, and have no run:

- A late answer also yields "No such user" for a user who exists (`atm.c:187`,
  `atm.md:58-61`) and "No user logged in" for one who is (`atm.c:252`, `atm.md:124`):
  `NoSuchUserIsTrue` and `NoUserLoggedInIsTrue` fail on `AtmBank!Spec` as
  `RefusedNotDebited` does, and hold in `routed` until something fails.
- Overlapping runs of the root `init` disagree: `access()` and `fopen("w")` are two steps
  (`init.c:36`), so that an invocation can empty or replace the files of another, which may
  have reported success, and two can leave different keys in the two files
  (`init.md:43-48`: "without writing over or creating *either* file"). `InitFiles` has
  these behaviours. `NeverWrittenOver`, `SuccessIsKept` and `KeysAgree` say how far they go,
  namely among invocations that `met`; each of the three fails for `version = "root"`
  without that scope. The archived program, with `O_EXCL`, needs no such exception.
- The hash table does have two entries with the same key (`hash_table.h:3` says it does
  not) when the first was added with a NULL value: `list_find` returns that value
  (`list.c:39`), and `hash_table_add` takes it for an absent key (`hash_table.c:91`).
  `KeysAreUnique` with `Cardinality(HitsOf(...)) <= 1` fails in `hash_table`, and holds
  when NULL is taken out of `Value`.
- `init` ignores the results of `fprintf` and `fclose`: on a full disk it exits with 0 and
  leaves an empty file (`init.c:60`; `init.md:50`). `InitFiles!Close` has those
  behaviours; the archived program reports them (`SuccessIsKept`).
- A line longer than the buffer of `fgets` (100 bytes for the pin, 1000 for a command) is
  read in two, the rest as the next command (`atm.c:201`, `atm-main.c:26`). Lines are
  read whole in the models.
- Commands piped to the bank in one write: the second waits in stdio's buffer until
  another line is written or the pipe is closed (`bank-main.c:41`). Hence the condition
  `terminal \/ eof` in `CommandsAreProcessed`.
- In the archived design a command that fails ends the ATM's session (its `atm.md:120,136`
  let the user stay logged in) and leaves the bank's active
  (`buildit-design-doc.md:296`); and a card is created with `"w"`, over an earlier run's
  (`buildit-design-doc.md:52`).

## 5. Proofs

Every theorem holds for all values of the constants that satisfy the named assumptions of
the modules (`WireAssumption`, `BankAssumption`, ...), which TLC evaluates in the runs.
They say that bounds are natural numbers, `RingSize`, `RecvAttempts` and the lengths of
pins and secrets positive, the base of numbers in 2 .. 10, a long wider than an int, the
number of bins finite, and that a special value (no user, no card, no key, a closed
account, NULL, no file) is not an ordinary one. Almost no property below is inductive; the
strengthenings are named with what they are needed for, and those of the composed systems
were checked by TLC on the instances of section 3 before they were proved.

### The bank

`BankProofs` is about `BankSpec`, the bank with every client that draws each nonce once.

| theorem | says |
|---|---|
| `BankIsTyped` | `[]BankTypeOK`: no balance leaves 0 .. INT_MAX |
| `NamesAreUnique`, `CardsAreOwn` | `[](OneAccountPerName /\ CardIsOwn)`, `[]CardIsOwn` |
| `FilterIsExact` | `[]FilterExact` |
| `NoEarlySecondDebit` | `[]DebitWindow` |
| `AnswersAreBacked` | an OK in the network to a login names both factors of an account that was opened, an OK to a withdrawal has its debit |

The strengthening `BankInv` has these parts:

1. `BankTypeOK`: needs part 2, because a debit goes to the account `FindUser` *chooses*.
2. `NamesInv`: adds that an account about to be added has its card on disk already and no
   namesake; without it `AddAccount` could not be shown to keep names apart. Since the
   card is looked for before it is written, the card files carry uniqueness across
   restarts.
3. `RequestsInv`: one request per nonce in the network. Two debits under one nonce are
   then debits of one name.
4. `RingInv`: where in `accepted` the content of slot i was written (`Written(i)`: slots
   below `idx` in this round, the others in the last), and that the ring is either in its
   first round since the start, with exactly the slots below `idx` in use, or full. From
   it `FilterExact` is arithmetic.
5. `DebitsInv`: ties each debit to the acceptance and the request it was made for, and
   says that an account debited before the last start is gone and cannot come back.

`DebitWindow` then splits: two debits under one nonce in one run of the process are
separated by the filter; two in different runs are impossible, as the name was used up.
`AnswersAreBacked` is what a client can rely on; it is stated over histories (`opened`,
`debits`), so that it stays true when the bank is restarted.

### The ATM, and both together

`AtmBankProofs` has the theorems about `AtmSpec`, the ATM with a bank that may give any
answer to any request at any time, and then those about `AtmBank!Spec`.

| theorem | says |
|---|---|
| `AtmIsTyped`, `OutcomesAreAnswered` | `AtmSpec => []AtmTypeOK`, `AtmSpec => []OutcomeWasAnswered` |
| `SystemImplementsBank`, `SystemImplementsAtm` | `Spec => BankSpec`, `Spec => AtmSpec` |
| `SystemKeepsBank`, `SystemKeepsAtm` | so all of the above holds in the system |
| `SessionsAreAuthentic` | `Spec => []SessionAuthentic` |
| `CashIsDebited` | `Spec => []DispenseBacked` |
| `BalancesAreCurrent` | `Spec => []BalanceCurrent` |
| `SystemKeepsPromise` | `Spec /\ [](Len(accepted) <= RingSize) => KeepsPromise` |

For the ATM alone the strengthening is `PendingWasSent`: what the ATM waits for is in the
network. It turns the comparison of nonces in `bank_request` into the statement about
requests that `OutcomeWasAnswered` makes. The two refinements have the identity as their
mapping; the first needs `UserKnown` (the ATM knows a user's name whenever it is about to
send a request), the second that the bank's answers carry the nonce of a request that was
sent.

`SystemInv` then relates the two sides. `SessionAuthentic` follows from
`AnswersBacked`, since a session begins with an OK to an `auth` request. For
`DispenseBacked` the debit found there must be one of the *user in session*: `CommandInv`
says that a pending withdrawal is that user's. For `BalanceCurrent`, `BalancesSeen` says
that an answer to the pending balance request carries a balance of the time since the
request was made: an earlier answer has another nonce.

`SystemKeepsPromise` maps the table of accounts, the debits and the payments to `Teller`,
and each step of the system to a step of it or to none. `PaidInv` (payments are for
requests before the pending one) shows that nothing is paid twice. That nothing is debited
twice, `NonceDebitedOnce`, is what `DebitWindow` gives as long as the ring has not
forgotten anything, and the premise of the theorem says just that. It is not
avoidable: on a network that repeats datagrams, the run `bank` has a request
that is debited again after the ring has wrapped. (`ShortRunsKeepPromise` replaces the
premise by `MaxAccepted <= RingSize`, which is how the run `system` meets it.)

### Behind the router

`RoutedProofs` is about `RoutedSpec`.

| theorem | says |
|---|---|
| `RoutedImplementsSystem` | `RoutedSpec => AtmBank!Spec` |
| `RoutedKeepsSystem` | so what was proved of the system holds behind the router |
| `RoutedKeepsPromise` | `RoutedSpec => KeepsPromise`, for every size of the ring |
| `FailureMessagesHold` | `[]FailureMessagesAreTrue` |

`InTransit` (the sockets hold datagrams that were sent) gives the refinement.
`RoutedKeepsPromise` needs no premise, because the router repeats nothing. Its
invariant `OnceInv` is about order: the nonces of the requests on their way grow
along the two buffers (`InOrder`), and those debited are below all of them
(`DebitedBefore`), so that a request the filter has forgotten cannot come back.
`FailureMessagesHold` rests on `CalmInv`: until something fails, either nothing is on its
way, or exactly the pending request is and the bank has not served it (`RequestUnderway`),
or exactly its answer is, and is true (`ReplyUnderway`).

### The archived submission

`SessionSystemProofs` is about `SessionSystem!Spec`, any network.

| theorem | says |
|---|---|
| `OneSessionAtATime`, `CardsOpenAccounts` | `[]OneSession`, `[]CardOpensAccount` |
| `LoginsAreAuthentic`, `SessionTypesHold` | `[]LoginIsAuthentic`, `[]SessionTypeOK` |
| `CountersStayInStep` | `[]CountersAgree` |
| `BalancesWereCurrent`, `CashIsPaidAsAsked` | `[]BalanceWasCurrent`, `PaidAsAsked` |
| `SystemKeepsPromise` | `Spec => SessionKeepsPromise`, without a premise |

`Inv` and `SessionInv` are about one side each. `GrantsOpened` carries the argument for
logins: an AUTH_OK is only sent for an account in memory, and therefore, after that is gone
and the datagram is still there, for one that was opened. `OneSession` matters because a
request is checked against the key of the *first* active user of the list.

`SystemInv` relates the sides, and is about keys. `KeysInv`: a session key is granted to
one nonce pair, and never again. `RequestsInv`, `AnswersInv`: under a key and a counter
there is one request and one answer. `BankKeepsUp` and `PhaseInv` bracket the bank's last
counter between the ATM's next one and the one before, which is `CountersAgree`. Of one
answer per key and counter `PaidAsAsked` is a consequence, although the ATM never compares
amounts. `DebitsInv` says that the bank's last counter is beyond every debit under the
current key: this does for any length of run what the ring does for `RingSize` requests, and
is why there is no premise.

`SessionRoutedProofs` is about `SessionRouted!RoutedSpec`.

| theorem | says |
|---|---|
| `RoutedImplementsSystem` | `RoutedSpec => SessionSystem!Spec` |
| `RoutedKeepsSystem`, `RoutedKeepsPromise` | so all of the above holds behind the router |
| `BacklogStaysBounded` | `[]BacklogIsBounded` |
| `HonestRequestsServed` | `[]HonestRequestsAreServed` |

A request that the bank refuses is answered by a datagram that `SessionSystem` does not
have, so the step must be a stutter there, of the history `witnessed` too; `WitnessInv` says
that what it would add is in it already. `BacklogIsBounded` is inductive once the buffers
are sequences (`InTransit`). `CalmInv` is that of `RoutedProofs` with what the two sides
know: with nothing on its way and a session at the ATM, they `Agree` on key and counter;
with an answer on its way, they agree once it is read.

### Files, input, hash table

| module, theorem | says |
|---|---|
| `InitFilesProofs`: `FilesAreNotOverwritten`, `SuccessLasts`, `KeysAlwaysAgree` | `NeverWrittenOver`, `SuccessIsKept`, `[]KeysAgree`, for any number of invocations |
| `InputProofs`: `NothingIsLost` | `LoopSpec => []NothingLostAtEof` |
| `InputProofs`: `WordsAreFound`, `AmountsAreExact`, `NumbersAreKept`, `KeysTravel`, `RequestsMeanTheSame` | `[]SplitFindsTheWords`, `[]AmountIsExact`, `[]NumbersTravel`, `[]KeysDecode`, `[]RequestsAreUnderstood`, for texts of any length, every base from 2 to 10 and every width of an int |
| `HashTableProofs`: `KeysStayUnique`, `ListsStayWellLinked` | `[]KeysAreUnique`, `[]WellLinked`, for any hash function, numbers of keys, bins and cells |

`InitFilesProofs`: any number of invocations run, of either program. `MetInv`: those under
way have met, and meeting is mutual. `RootInv` is about the root program: an invocation that
`HasOpened` the files has met everyone else who found them absent (`Looking`) or opened
them, since whoever comes later finds them there. So what `fopen` empties, what a successful
invocation finds replaced, and the keys that differ belong to invocations that met
(`Contents`). `ArchivedInv`: `O_EXCL` gives each file one creator, and nobody comes to the
second file without having written the first. `KeptInv` says that the files of a success
and the keys once loaded are still there.

`InputProofs`, the loop of the bank (`LoopInv`): every line typed is processed, in stdio's
buffer or in the kernel, and the loop ends with both empty.

`InputProofs`, text. Every reachable `text` is a sequence of characters, and the properties
are proved of every such sequence. The definitions are folds and recursive functions, and
what these compute is shown by induction on numbers (`StrongInduction`, `TextInduction`).
`Recursion` and `SetRecursion` say that a function defined by recursion exists and is what
its definition says, so that `ScannedAppend`, `AmountAppend`, `NumberSteps` and
`DecimalSteps` can give one step of each. On these rest the arguments:

- *Words.* `ScanInv` is the invariant of the loop of `split`: the words found are the runs
  that are closed, in their order, and the word it is in is the open run at the end.
- *Amounts.* `Number` is a sum over positions and has no order; `NumberSteps` (one more
  digit shifts all the others) is proved for any order of summation (`SumTakes`).
  `AccumulatedIsNumber`: after any text the loop of `parse_amount` holds what the digits
  read so far denote, or has failed, and once beyond INT_MAX no further digit brings it
  back. The comparison follows each digit, so `val` never exceeds 10 * INT_MAX + 9 and the
  long never wraps. For this `TextAssumption` asks that a long holds that much: it does on a
  64-bit system. (With a 32-bit long, `val > INT_MAX` could never be true.)
- *Numbers.* `DecimalDenotes`: the digits `snprintf` prints denote the number. `DigitsAreRead`:
  `strtol` and `strtoul` find neither white space nor sign in them.
- *Keys.* A byte is two places of base 16 (`TwoPlaces`), so printing undoes decoding
  (`KeyTravels`).
- *Requests.* `Line` says how far the bank's `split` has come in a request that is put
  together word by word. `NamesArePlain`, `PinsArePlain`, `SecretsArePlain` and
  `AmountsArePlain`: nothing that passes the ATM's checks is empty or contains a separator,
  which is all the bank needs to find the words again.

`HashTableProofs`: because of the bug in `list_add` a list can take three shapes only. It
is empty (cells may have been lost, none is reached), or has one element with the tail at
it or NULL, or has two with the tail at the first (`ListInv`), which has the key of the second
only if its value is NULL (`NotFound`, `OneValue`). `AddKeeps` and `DelKeeps` show
that both functions keep to them, `TraversalIsSteps` what a traversal of such a list sees.
That `Traversal`, a recursive function, is what it is defined to be, and that the sum of
the sizes (`Total`, a fold) changes as one of them does, is shown by induction on numbers
(`Induction`, from the well-foundedness of < on Nat). The arithmetic of a size that is
subtracted and added at the width of `uint32_t` is `WrapsLikeTheSum`.

**Only model-checked.** Liveness (`BankRequestReturns`, `CoveredWithdrawalIsPaid`,
`RequestsAreServed`, `CommandsAreProcessed`, `LoginSucceeds`, `CoveredCashIsPaid`) and
anything about ENABLED stay with TLC, because TLAPS does not reason about fairness here.
Every
other property of a passing run is a theorem. The three violated properties are what TLC
found them to be.

## 6. Not modelled

- AES-GCM, HMAC-SHA256, the random generator: modelled by what they guarantee.
- The text of the archived submission's datagrams (words like the root's requests, each
  closed by its HMAC), and lines longer than the buffers that read them.
- Memory exhaustion in the lists; `list_free`, `hash_table_free`.
- Datagrams from ports other than the two the router knows: it drops them.
- The wrap of the archived design's `unsigned` counters at UINT_MAX (`atm.c:515`,
  `bank.c:631`; its `VULNERABILITY-ANALYSIS.md:99` mentions counter overflow). The counters of the
  model are natural numbers, and `CountersAgree`, `HonestRequestsAreServed`,
  `CoveredCashIsPaid` and the other properties of the archived design are about sessions of fewer than 2^32 requests.
- Datagrams of other programs at the archived ATM's port. (`Routed` has them for the root
  ATM: `Stray`.)
- A line read ahead from a pipe that stays open waits (section 4), and a console that never
  falls quiet starves the ATM: no property of `BankLoop` claims otherwise.
- `break-it/6825f15e/attack`, a demonstration outside both systems; the example programs
  of list and hash table; `public2.py`.

## 7. Plan

Order: the money path first (`NonceRing`, `Wire`, `Bank`, `Atm`, `AtmBank`, `Teller`,
`Routed`), then what surrounds it (`InitFiles`, `BankLoop`, `HashTable`, `Text`), then the
archived design with its own composition behind the router. All of these exist, and the
safety properties of every passing run are theorems. What is left:

1. For the archived design, what a failure costs: that a user who ends the session and
   starts again is served as soon as the backlog is read.
2. The text of the archived design's datagrams, as `Text` has that of the root's requests.
