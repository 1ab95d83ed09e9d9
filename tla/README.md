# dns_update in TLA+

A model of dns_update: `dns_srv`, a DNS server for names whose addresses change,
and `dns_update`, the client that cron runs to tell it an address. The modules are
checked with TLC and, where the table below says so, proved with TLAPS.

## 1. The system

| component | source | state | operations |
|---|---|---|---|
| update protocol | `dns_update.c` main; `dns.c` proc_cmd; `util.c` udp_* | the server's table domain → ip text (memory only); per run of the client: socket, one poll | send a request; insert or overwrite; answer; give up after a second |
| packet sealing | `util.c` pack_update_pkg, unpack_update_pkg, crypto_derive_key | header (time stamp, checksum, rnd), key, iv, iv_off, chunk buffer | derive key and iv, encrypt in chunks, decrypt, test checksum and clock |
| server main | `dns.c` main, sigproc; `util.c` change_process_user, write_log | two sockets, `run`, revents | start, poll, serve both sockets, stop on a signal |
| query handler | `dns.c` proc_dns_query, dns_resove_query, dns_write_domain, check_domain_char | offsets into one receive buffer, reused; response buffer | parse, look up, write an answer |
| domain table | `rbtree.c`, with the callbacks of `dns.c` | nodes with links and colours, root, count | insert, find, delete, verify; walk, print, dot, free |
| AES, MD5, CRC-32 | `aes.c`, `md5.c`, `crc32.c` | contexts on the stack: two key schedules, the md5 buffer and length | key schedules, a block, CFB stream; update/finish; fold over a table |
| JSON | `cjson.c` (cJSON, in the repository) | items with links and texts on the heap; per parse or print an offset, a depth and a buffer | parse, look up an item, delete; print in a growing, a prepared or a given buffer |
| texts of the protocol | `dns_update.c` (sprintf, retcode), `dns.c` proc_cmd, fill_binary_ip | the request and the answer as texts, the ip text in a node | format, parse, look up, convert an address |
| logging | `util.c` write_log, write_log_hex, hex2asc | a file opened per line | append a line |
| build, cron | `makefile`, `dns_update.sh` | – | cron runs the client once a minute |

How they interact. A client run packs `{"domain": .., "ip": ..}` under its key and clock,
sends one datagram and polls once. The server's loop reads the datagram, unpacks it
in place with its own clock and key, puts the ip into the tree and answers
`{"retcode": 0 | 1}`, sealed in the same way. A DNS query arriving on the other socket
is parsed, looked up in the same tree and answered with the stored address. Everything
on the server is one thread; only signal handlers interrupt it. Nothing is persistent.

What is hard about it:

* **The network.** Requests and answers are lost, duplicated, late and out of order. An
  answer names neither run, domain nor request; nothing but its arrival at the right port,
  a key and a clock within `TIME_DIFF` ties it to what was asked.
* **Crash and restart** empty the table; only further runs of cron fill it.
* **Clocks**: unsigned differences, `abs` of a wrapped value, a clock of the sender's own.
* **Signals** arrive anywhere: between the test of `run` and `poll`, or while main is in a call of the C library
  that the handler's `write_log` cannot bear below it: another `write_log`, `cJSON_Parse`, malloc, `cJSON_Delete`.
* **Buffers reused** from datagram to datagram, and lengths that can be -1.
* **Pointers**: rotations and removals that must keep parent and child links in step, and
  a removal that exchanges contents and gives back a node other than the one found.
* **State carried between calls**: `iv`/`iv_off` between chunks, the md5 context.
* **Memory**: the parser builds lists while malloc may fail anywhere; it decodes strings
  into room it estimated; the printer estimates before each write and moves its block.
* **A common fault**: client and server run the same AES, MD5 and CRC-32, so a fault in
  them keeps every packet readable.

Properties that make each component correct: a client told "ok" was served, only timely
trusted requests change the table, the table ends up with the present address (protocol);
two ends derive the same key and get the same bytes (sealing); both sockets are
served, and a signal that does not interrupt the library ends the server within a round (main); no access outside buffers, and
the name asked for is repeated in the answer byte by byte, in small letters (queries); a set of keys in a balanced tree (table);
nothing lost, leaked, freed twice or written past its room, and the value the grammar gives
(JSON); what the client asked is what a query is answered with (texts); FIPS 197, RFC 1321's
padding and polynomial division (AES, MD5, CRC-32).
`PROJECT.json` lists the hazards line by line.

## 2. Modules

```
UpdatePacket  <- UpdateProtocol <- MCUpdateProtocol        UpdateService (abstract)
                       ^---- implements ------------------------^
                       ^---- UpdateProtocolProofs
ServerLoop <- ServerLoopProofs     DnsQuery <- DnsQueryProofs
RbTree <- MCRbTree, implements Dictionary (abstract)       RbTree <- RbTreeProofs
Md5Key, CfbStream, Crc32 and Aes (both over Words) <- MCSealing
Md5Key <- Md5KeyProofs     CfbStream, Crc32 <- SealingProofs
JsonHeap <- JsonParse <- JsonValue <- JsonPrint \
                      <- UpdateCommand ---------- MCJson
            JsonParse <- JsonParseProofs, JsonValue <- JsonValueProofs
```

Definitions named `X_Something` and headed "Variant" are broken forms of `X`: a dropped
guard, a missing reset, a boundary moved by one. No specification uses them. Each exists
so that a property can be seen to fail when the code has that bug.

**UpdatePacket** – what a receiver can tell of a sealed packet, a pair of key and time
stamp, and the clock test of `unpack_update_pkg` in C arithmetic: `USub` wraps at
`UIntModulus` (2^32), `ToInt` reinterprets, `AbsResults` is a set because `abs(INT_MIN)`
is undefined. Another key is taken to fail the checksum: a 32-bit CRC that agrees by
chance is left out, as are `rnd` and the text inside.

**UpdateProtocol** – any number of clients, the server, the network. A client run is
`Start` (socket, pack, send) or `StartFails`, then `Receive` or `GiveUp`; the
server has `HandleUpdate` (insert and overwrite are one assignment to `registry`),
`MallocFails` and `RejectUpdate`; `Crash`, `Restart`, `Move` (a client's address
changes) and `Tick` (a second) are the environment. Ports are the kernel's
choice: `PortReuse` says whether it may hand out a port while datagrams that name it are
under way. `ReplyTo` keeps what proc_cmd does with an `ip` given in the
request: it answers to that address, through a pointer into json already freed. Ghosts: a
datagram's age `life` and whether it is of an earlier run, `old`; `served`.

**UpdateService** – the abstract service: a table only trusted clients change, runs that end
"ok" only when their own request was applied, a wipe at any time.

**ServerLoop** – main with a program counter, the two sockets as counts of waiting
datagrams, and a stack of running handlers. `CmdBindFails` is the test the
code makes (of `dns_fd`, not `cmd_fd`). A call that logs, and each part of proc_cmd at the heap (`cJSON_Parse`, the malloc
of a node, `cJSON_Delete`), is a place of its own, where a signal can come: a handler on top of it calls `write_log`
and so enters the library a second time (`broken`). That is undefined; from then on each call of the library, the handler's or a
later one of main's, may wait for ever or crash (`LibraryFails`). The rest of a handler's work on a datagram is one step with its receipt.

**DnsQuery** – bytes are chosen as they are read, each length and each character once. `domain` is the name as the parser
leaves it, with dots and no lengths; the writer splits it at its dots again, and `name` is what it writes. The ghost
`question` is what the query holds, in small letters as `strlower` makes them. `left` is an int compared with an unsigned size, so `TooShort` is
false for -1. `high` records how far the parser has looked. The table is a choice: found or not.

**RbTree** – the heap: root, count, links and colours per node, `val` for contents. Every
function is an action and a tail call the next one; the recursive search, which changes
nothing, is made at one step. `find_subtree_min` includes the exchange of contents that
node_swap of `dns.c` makes. `rbtree_verify` is translated as functions. The server uses insert
and find; delete and verify are the library's, for its contract.

**Dictionary** – the abstract set of keys: a call takes effect once, between start and return.

**CfbStream** – sender and receiver loops, a byte per step, over an arbitrary function in
the place of AES (`aes_crypt_ecb`; which one is `aes_setkey_enc`'s choice).

**Md5Key** – crypto_derive_key and md5 over md5_update and md5_finish. A byte is where it
came from, the state the sequence of bytes processed, so "the right bytes in the
right order" is an equation. The rounds of `md5_process` are abstracted to that sequence.

**Words** – bytes, their XOR, and 32-bit words as four bytes, least significant first.

**Crc32** – crc32 a byte per step; of its table only the entries for single bits are written
down, as the others are sums of them. **Aes** – both key schedules and `aes_crypt_ecb`, a loop
iteration or a round per step, with the tables of rounds as functions of the two substitution
boxes. The other tables in `crc32.c` and `aes.c` have been compared entry by entry with
these definitions. The properties are stated without tables: division of
polynomials, and FIPS 197 with bytes in a square.

**JsonHeap** – items with `next`, `prev`, `child`, `string` and `valuestring`, the blocks
that are allocated, cJSON_New_Item, cJSON_Delete, look-up by name. **JsonParse** –
cJSON_ParseWithOpts; the calls of parse_array and parse_object that have not returned are a stack
of frames, the scan and the copy of a string go a character per step, and wherever malloc is called
it may fail. The place in the text, `offset`, is moved as the code moves it, a step back in front of the first
element included. **JsonValue** – the promise: the grammar of JSON as a recursive function of
the text, and the value a tree of items stands for.

**JsonPrint** – print, cJSON_PrintBuffered and cJSON_PrintPreallocated: each call of `ensure`
and what is written into its room is a step; a block's unwritten bytes are `Junk`; realloc may fail,
and exists or not. What sprintf makes of a number is a constant. Printing is the library's; neither program calls it.

**UpdateCommand** – from text to text: the request dns_update formats, parsed by JsonParse, what
proc_cmd finds in it, the node, the answer, which the client parses in turn, and the address
`fill_binary_ip` makes of the node's text when a query asks. Following a NULL is the state
`undefined`. **MCJson** and **MCSealing** put these together for TLC.

## 3. What is checked

| run | instance | shows |
|---|---|---|
| `confirmed` | 2 clients of one domain, 2 addresses, 2 ports, 2 datagrams, 1 move, 1 crash; no port reuse | `TypeOK`, `ConfirmedIsApplied`, and that the protocol implements UpdateService |
| `spaced` | 2 clients, one without the key, one whose clock is ahead; one port, reused at once; datagrams up to 3 seconds late | with runs more than 2·TIME_DIFF apart, `ConfirmedIsApplied` holds all the same; `AppliedInTime` |
| `converges` | 1 client, 2 moves, 1 crash, 3 datagrams with duplicates | `Converges`: in the end the table holds the present address for good |
| `loop` | both signals, queues of 2 | `BoundedWorkAfterStop`, `NoSocketStarves`, `SignalStops` |
| `query` | names to 7 characters and a dot, datagrams to 31 bytes, every content over '.', 'A' and 'a' | `StaysInBuffers`, `StaleOnlyWhenFull`, `EchoesQuestion` |
| `tree` | 10 keys, 10 nodes, every sequence of calls | `TakenForGranted`, `LinksAgree`, `NoneLost` at every step, `BalancedAtRest`, `VerifyIsExact`, and that the tree implements Dictionary |
| `sealing` | md5: blocks of 8, words of 32, passwords to 31; cfb: 1-bit bytes, blocks of 2, chunks of 3, packets to 5, every permutation; crc: 293 packets; aes: 6 keys, 2 blocks | `KeyTypeOK`, `NothingSkipped`, `StaysInBuffer`, `KeyIsDerived`; `TypeOK`, `RoundTrip`; `CrcIsRemainder`; `AesIsStandard` |
| `json` | all texts of up to 3 of 12 characters, longer ones and requests with any one character replaced, left out or last; malloc and realloc fail anywhere | `TypeOK`, `StaysInText`, `OutputFits`, `NestingBounded`, `NothingLost`, `ParsesGrammar`; `HonestRequestsAreServed`, `AnswerIsAddress`, `ClientLearnsOutcome`; `EstimatesHold`, `ReadsBack` |
| `shared_port` | 2 clients at one address, a port reused at once | **violated** `ConfirmedIsApplied` |
| `explicit_ip` | a client that names another address | **violated** `AnswersReturn` |
| `both_listening` | the second bind may fail | **violated** `BothListening` |
| `short_query` | as `query` | **violated** `AcceptedInFull` |

The last four are places where the code departs from what it, or its usage text, says:

* *shared_port*: an answer names no run. Two clients behind one router, a late answer
  and a port handed out again make "update domain ... ok!" untrue (`dns_update.c:128`). `spaced` and the
  theorems say when that cannot happen: fresh ports, or runs 2·TIME_DIFF apart at addresses
  of their own.
* *explicit_ip*: with `[ip]` on the command line the answer goes to that address and the
  client that asked times out (`dns.c:672`).
* *both_listening*: the second bind's result is never tested (`dns.c:72`).
* *short_query*: a query cut off right after its last label gets past the length test
  with -1, and type and class are read from what an earlier datagram left (`dns.c:489`).

**Bounds.** `confirmed`, `spaced`: two clients suffice for every confusion of one run with
another or with another client's; TIME_DIFF is 1. In `confirmed` MaxLife = 3 lets a datagram be in time, just late, and gone; in `spaced` the one client with the
server's key is a second ahead, so MaxLife = 4, for its requests, 0 to 3 seconds old, are 1, 0, 1 and 2 from the server's clock, and the last is
late. The clock (6 to 10 values) wraps within a run; two datagrams allow an old and a new
one, or a request and an answer, to overtake each other. `converges` needs
three: an old request, its duplicate's answer and the new request. `query`: 7 characters and a dot hold four labels, and
the shortest query the handler takes can be filled by labels to its last byte; 31 bytes are exactly the room the longest name
and its answer need, and a length may be one too many for either, so every boundary is met. '.' is the character that would confuse
the writer, 'A' one that is changed, 'a' any other. `tree`: ten
keys are the fewest for which the repair after a removal climbs to a node that is not the root
(eight or nine never do). `sealing`: a chunk ends in the middle of a
block, and packets take two chunks, the second ending at that block or past it. Passwords cover every remainder of a block around the 56/64 boundary,
inputs of up to five blocks, and a total that carries into the second word; the key ends inside a
digest, which the program's 32 bytes do not. The packets summed are every byte alone, 0 to 9
bytes, and all of three bytes out of {0, 1, 129}; since the checksum is linear up to its inversions, single
bytes and the ways to combine them are what can differ. AES is run on the keys and the block of FIPS 197's
examples in all three sizes, and on keys and blocks of ones; a round has no branches. These
two are run once, under the empty password, not for every one.
`json`: three characters reach every pair of neighbours, so every place where the parser steps back or
looks ahead; the longer texts hold each kind of escape, literals for one and for two halves of a
character, nested and empty lists, and each of them cut off. Six items and six strings suffice
for them, and running out of either is one of the ways malloc fails. The byte behind a text is 0 or a
quote, the only one that matters. `NestingLimit` 2 and `NumberBuffer` 3 stand for 1000 and 64, so that both are met, and the
names of a request are single letters. Printing: first blocks of 4 (for 256), 1, 7 and 30
bytes, and 0 to 50 bytes given by the caller, so that `ensure` has to grow, and fails, at every write; `IntMax` 60 is reached.

**Reductions.** `confirmed` is symmetric in clients, ports and addresses (no liveness is checked
under symmetry). `tree` has a VIEW, `Seen`: nodes are named by their content, and what will not be read
again of a call is dropped. That is sound: actions treat nodes alike, the pieces dropped
are overwritten before they are used, and every transition is still compared with Dictionary when it is made.
In JsonHeap malloc returns a CHOOSEn free block: pointers are only compared with each other and with NULL.

**Fairness.** `converges`: time passes; a run that waits ends (poll has a timeout); an operator
restarts a dead server; cron starts runs again and again, and not all fail to send (SF of
`Start`); of the requests sent from a client's present address not all are lost or late (SF of `Heard`,
the usual fair-lossy channel: without it no protocol converges). Nothing is assumed about
answers. Moves and crashes are finitely many, which is what "in the end" means. `loop`: the process is scheduled, and
`poll` returns within its timeout; datagrams and signals are under no fairness.

**Deadlock.** It is checked for the protocol, the queries and the tree. ServerLoop may exit, fail to start, or hang or crash in the library; a packet,
a parse and a printed text are finished: `loop`, `sealing` and `json` say so.

## 4. What is proved

| theorem | of | rests on |
|---|---|---|
| `WindowIsExact` | UpdatePacket | arithmetic: for every even modulus and every TIME_DIFF below half of it the clock test answers `distance <= TIME_DIFF`, except for clocks exactly half the circle apart |
| `TypeCorrect` | UpdateProtocol | a step per action |
| `ConfirmedWithFreshPorts` | | `~PortReuse`; `PortInv`: whatever names a waiting client's port was sent to or by that very run |
| `OnlyTimelyRequestsApplied` | | `ClockInv`: the unsigned clock is ahead of a datagram's stamp by exactly its age plus the skew |
| `ConfirmedWhenSpaced` | | addresses of their own and no `[ip]`; `AddressInv` and `SpacingInv`: a datagram of an earlier run is older than the time since the latest one began, plus what its clock was ahead |
| `ProtocolImplementsService` | | `~PortReuse`; `PortInv`, `KeyInv`: an accepted request was sealed by a trusted client. Every step maps to a step of UpdateService or to a stutter |
| `StopIsBounded` | ServerLoop | `LateInv`: how many datagrams were taken since `run` was cleared, by place in the round |
| `LoopTypeCorrect` | | `LoopInv`: a queue that poll reported is not empty when main reads it, as main alone takes datagrams |
| `HandlerStaysInBuffers`, `StaleReadOnlyWhenFull`, `ResponseEchoesQuestion`, `QueryTypeCorrect` | DnsQuery | `Places`, which ties `left`, `high`, `out` and the length of the name to each other by where the handler is, and `Contents`, below |
| `PacketsSurvive`, `PacketTypeCorrect` | CfbStream | invariants `Sending` and `Receiving`: the receiver's register is what the sender's was before the same byte (ghost `trace`) |
| `KeyNothingSkipped`, `KeyStaysInBuffer`, `KeyTypeCorrect` | Md5Key | `KeyInv`: the room in `ctx.buffer` is what the total, modulo a block, leaves, whatever the sizes of the calls |
| `KeyDerivation` | | `DerivedInv`: by the calls still to come, what of the padded message has been fed; by the bytes of the key, the rounds that are done and that the latest is in `md_buf` |
| `ParserStaysInText`, `ParserNestingBounded`, `ParseTypeCorrect` | JsonParse | `ParseInv`: where each step may be in the text, and `depth` against the stack of calls that have not returned |
| `DecodedTextFits` | | `RoomInv`: what has been decoded and what the rest of the string can still become, against the room that was counted |
| `ParseLosesNothing` | | `KeptInv`, below: the items make up the lists under construction, and every text has one owner |
| `ParserMeetsGrammar` | JsonValue | `GrammarInv`, below: at every place, what is built and what the grammar reads of the rest make up what it reads of the whole |
| `CrcOfEveryPacket` | Crc32 | `CrcInv`, below: what is left of the long division, by the bytes that have been summed |
| `LinksKept`, `NodesAreReached`, `CountKept`, `TreeTypeCorrect` | RbTree | `TreeInv`, below |
| `GrantedHolds`, `TreeStaysBalanced`, `VerifierIsExact` | | `TreeInv`, and `RuleInv` for the red-black rules |
| `TreeIsDictionary` | | both, and `KeyInv` for the order of the keys. Every step maps to a step of Dictionary or to a stutter |

Why strengthening is needed: `ConfirmedIsApplied` speaks of a client that is done, while
the reason lies in the datagrams under way before; so the invariants describe the network. The
theorems hold for any number of clients, ports and datagrams, and all sizes; the assumptions are those named in
the modules (`PacketAssumption`, `ProtocolAssumption`, ...). `ProtocolAssumption` asks that no
datagram lives for half the range of the clock (68 years); `QueryAssumption` that the
buffers have room for the longest name and its answer (1024 bytes each in the program, for names of up to 255 characters).

**The name in a response.** The parser drops the lengths of the labels and the writer finds them again, so `EchoesQuestion`
compares bytes. `Contents` says, by where the handler is, how the dotted name and the ghost `question` spell the same labels: `Growing` while labels
are read (behind each place where one begins its length, its characters and a dot), `Complete` when the last dot is gone, and `Written`,
that what the writer has put down is the beginning of the question, up to the start of a label. It needs what
`check_domain_char` grants: that no character is a dot, so that the first dot behind a place is where the length says.

**The tree.** A rotation keeps links in step only if node, child, parent and inner child are
different nodes; locally consistent links do not say so, as they may run in a circle. `TreeInv`
therefore holds `NoCycle`: no non-empty set of nodes contains the parents of all of them. That is
"every way up ends" without recursion, and each change has a short argument why a set that were a circle
after it would make one before it (add the node that moved). The same in the other direction (`NoDescent`) gives
induction over the tree, from the root down and from the leaves up (`FromAbove`, `FromBelow`): the lemmas about
what a search reaches and what `rbtree_verify` computes are proved by it. Rotations to the right and
removals of a node with a left child follow from the others on the tree with left and right exchanged (`Mirrored`).
Beside the links `TreeInv` says who owns a node: every allocated one is in the tree or is the one the caller holds.

`RuleInv` states the red-black rules by a number per node, its black height, that agrees with the
numbers of its children (`Balance`), with the one exception the case about to run is there to repair: a red
node that may have a red parent, or a node below which one black node is missing. The siblings, grandparents and nephews
that the code follows without a test are there by these numbers: a node short of one black node has a sibling
because that side counts one more. So `TakenForGranted` is not assumed, and no theorem about the tree has a condition.

`KeyInv` states the order of the keys by an interval per node that lies inside that of its parent, on the
side the node hangs (`Sorted`). A rotation hands intervals on; an insertion gives the new leaf the part of
its parent's interval the search came down; during a deletion the node that will be removed, which after the exchange
of values holds a key that is out of place, is given some place of its own with room for no key (`Leaving`, `Room`). A
search then finds a key that is there, by induction down the way to it, and `TreeIsDictionary`
follows action by action (`DictStep`): an insert takes effect where the leaf is hung in, a delete in `replace_child`, and
every case between is a stutter.

**The memory of a parse.** `NothingLost` speaks of the items that are reached from the lists under construction. What is reached is
computed by following `next` and `child` as often as there are items; the proof first shows that this is enough (`SpreadEnds`) and that
the result is the least set that holds the first item and goes on along both links (`ReachedIs`). `KeptInv` then has two parts.
`Built` says that every item is in exactly one of the lists of the stack (or in the result), that `prev` is the way back of `next` and no
item is the child of two, that nothing leads to the first item of a list, and that the item a list is being made for is in the list below, without a
child yet. `Texted` says that an item's name and value are texts of its own, and that a text no item has is the one being decoded. Each change is
a lemma: a new list, an item appended, a list hung below the item it is the value of, a list freed, a text handed over. When malloc
fails or the text is wrong, `Unwind` frees from the innermost list outwards, and the invariant holds again after it. It is kept apart
from `ParseInv`, which it rests on for the places and types.

**The value of a text.** `ParserMeetsGrammar` compares a machine with a stack and a heap with a recursive function, for every text, heap, limit and
failure of malloc. `Grammar` is a function of what is read, the place and the levels that are left; it exists because every reading inside
another begins further on, or is of a value where a member began (`Far`, `Nearer`), and it answers with a value and a place behind it
(`Good`). The loops of parse_string are compared first: the count pass stops at the quote at which the grammar's
string ends, or runs to the 0 when it has none (`Visits`), and the decoding pass, literal by literal, leaves to be decoded what the grammar says of the rest
(`Follows`). Trees are compared by `Told`: W gives every item of a set a value that its fields and the values on its list say; `ValueOf`
is the only such W when nothing is circular, which `KeptInv` has shown. The invariant is `Meant`. `Held` says that all items but the last of
each open list are told; `Expect` that the value the text must have is the one whose lists have those members, and after them whatever
is read where the last one began; and by the state of the parser `Needs`, `NeedsNext` and `HasRead` say what that is: what the grammar reads here, its
answer when a value is done, `Nothing` on the way out of a wrong text. When the last value is done `Expect` has no unknown left.
A failure of malloc ends the claim (`short`), as the property does. Texts with a `\u` of wrong digits are left out, as in the property.

**The checksum.** A word is taken for the set of its exponents (`Exponents`), and `^` for the sum of polynomials over GF(2), the
symmetric difference of sets (`XorIsPlus`). Sums, multiplication by x and by x^8 modulo the generator are then linear, and a table
entry, which is the sum of the entries of its bits, is its byte times x^32 modulo the generator (`TableIs`): eight entries are worked
out bit by bit, the other 248 follow. So a step of the loop does what eight steps of the long division do. `CrcInv` says so of
a whole packet: when `place` bytes have been summed, the division of the packet with its first 32 bits inverted has been
carried that far, and what is left of it is `crc`, at the height of the next byte, plus the bytes still to come (`Halfway`). When none is
to come that is the remainder. Packets of fewer than four bytes, where the inverted bits reach below the packet, are no special case.

Induction here never uses the library's induction theorems, which take an operator as a parameter: it is
stated by hand, as that every non-empty set has a least element (`Least`), or that no non-empty set of nodes has all
parents or all children in itself. That a function defined by recursion exists is proved by giving one that solves its equation (`RoundIs`,
`UptoExists`), and that it computes what it should by looking at the least place where it would not.

**Only model-checked**: all liveness (`Converges`, `NoSocketStarves`, `SignalStops`), which the provers do not
reach; for JSON `EstimatesHold` and `ReadsBack`; the texts of the protocol
(`HonestRequestsAreServed`, `AnswerIsAddress`, `ClientLearnsOutcome`); and
`AesIsStandard`. These compare a whole computation with a reference definition, on inputs the run names.

## 5. What is not modelled

* cJSON: Minify, making, changing, duplicating and comparing trees, Raw items; neither program calls them. Read beside
  the rest: `cJSON_ReplaceItemInObject` leaves the replacement its own name;
  replacing an item that is not there and adding NULL to an object follow NULL; `cJSON_Compare` compares as far
  as the shorter array goes; a failing `cJSON_PrintBuffered` or realloc leaks the block printed so far.
* What strtod and sprintf make of a number: a number in a text is one value, its text a constant.
* `ParsesGrammar` says nothing of texts with a `\u` escape of wrong digits: the code, and the model, read it as `\u0000`.
* AES in CBC mode, `aes_gen_tables` (not compiled: `AES_ROM_TABLES` is defined); the rounds of MD5, which are a
  sequence of the bytes they were given.
* rbtree_walk, _print, _dot and _free: they read the tree or end it; the server calls none.
* What a call of the C library does that another one interrupted. The kind of harm is a choice, hang or crash; a heap that goes on
  with wrong contents is not followed.
* Texts of log lines, `write_log_hex`, `hex2asc`, option parsing, the makefile.
* `dns_update.c:102`: the 0 written after a received packet of exactly the size of the buffer. An honest server's answers
  are far shorter; the model receives answers of the server only.

## 6. Plan

Done, in this order: protocol with its abstract service and proofs; server loop; queries; tree with its dictionary;
sealing (CFB, MD5, CRC-32, AES); JSON parsed, printed and freed; the texts from the command line to the answer of a
query; the tree, proved: links, rules, order, and that it implements its dictionary;
the key, the memory of a parse, the checksum, and the value of a parsed text, proved.

What could follow:

1. JsonPrint: a proof of `EstimatesHold`, which needs a bound per kind of item.
2. The tree-building half of cJSON, should the programs come to use it.
