# A verification of the bitcointest RPC server

The repository is the beginning of a Bitcoin-style JSON-RPC server: an HTTP
server on libevent, a handler for JSON-RPC requests, a command table and the
UniValue JSON library.  This directory holds TLA+ specifications of it, the TLC
configurations that check them on small instances, and proofs of their central
properties that TLAPS checks for every instance.

Paths below are relative to the repository's root.  `src/` is its directory of
that name.

## 1. Inventory

| Part | Files | State | Operations |
|---|---|---|---|
| Start | `src/init.cpp`, `src/httpserver.cpp`, `support/events.h`, `src/httprpc.cpp`, `rpc/protocol.cpp` | `eventBase`, `eventHTTP`, `boundSockets`, `pathHandlers`, `strRPCUserColonPass`, `timerInterface`, the file `./.cookie`, the ports | `main`, `AppInitServers`, `InitHTTPServer`, `HTTPBindAddresses`, `StartHTTPRPC`, `GenerateAuthCookie`, `RegisterHTTPHandler`, `RPCSetTimerInterface` |
| HTTP request | `src/httpserver.{h,cpp}` | per request `req`, `replySent`; the evhttp_request's headers and output buffer; the loop's active events | constructor, destructor, `GetHeader`, `ReadBody`, `WriteHeader`, `WriteReply`; `HTTPEvent`: constructor, `trigger`, callback |
| Request handler | `src/httprpc.cpp` | `jreq`, in particular `jreq.id` | `HTTPReq_JSONRPC`, `JSONErrorReply` |
| JSON-RPC call | `rpc/server.{h,cpp}`, `rpc/protocol.{h,cpp}` | `mapCommands`, `g_rpc_running` | `parse`, `execute`, `transformNamedArguments`, `JSONRPCExecOne`, `JSONRPCExecBatch`, the four commands, `appendCommand`, reply objects |
| JSON reader | `univalue/univalue_read.cpp` | in `read` a bit mask, the last token, a stack of pointers into the tree that grows; in the string branch a `JSONUTF8StringFilter` | `read`, `getJsonToken`, `push_back`, `push_back_u`, `finalize` |
| JSON writer | `univalue/univalue_write.cpp`, `univalue_escapes.h` | none | `write`, `writeArray`, `writeObject`, `json_escape` |
| JSON values | `univalue/univalue.{h,cpp}`, `univalue_get.cpp` | a tree of UniValues: type, text, keys, values | setters, `push_back`, `push_backV`, `pushKV`, `pushKVs`, `operator[]`, `find_value`, `getObjMap`, `checkObject`, `ParseInt32`, `get_int` ... |
| Timers | `src/httprpc.cpp`, `src/httpserver.cpp`, `rpc/server.{h,cpp}` | `timerInterface`; one `HTTPEvent` per timer, in libevent's heap or list of active events | `NewTimer`, the timer's destructor, `HTTPEvent`; no caller yet |
| Helpers | `src/random.cpp`, `util/` | none | "random" bytes (all ones), hexadecimal, `MakeUnique` |
| Demonstrations | `src/eventtest.cpp`, `src/eventtesttimer.cpp` | none of the server's | a libevent timer that rearms itself |

How they interact.  `main` starts the HTTP server and registers
`HTTPReq_JSONRPC` for `/`.  The handler gets a wrapper of an evhttp_request,
reads its body through `UniValue::read`, has one call or a batch executed, and
calls `WriteReply`.  That adds the body to the request's output buffer,
allocates an `HTTPEvent` whose closure sends the reply, activates it on the
event base, and gives the request up.  The loop runs the closure later, on its
own thread.  A wrapper destroyed without a reply makes one itself.

What the program does not contain: `main` ends behind the start.  No code
creates an `HTTPRequest`, looks up `pathHandlers` or runs the loop.  The
specifications take this *driver* from the comments of `src/httpserver.h`
("transferred back to main thread", "cross-thread trigger", "Replies must be
sent in the main loop in the main http thread, this cannot be done from worker
threads") and consider both drivers that fit: handlers called inside the loop's
callback, and handlers on worker threads.

What is hard here, and what must hold:

* the hand-over of a request from its handler to the loop, on two threads:
  one answer per request, nothing touches a request that was handed over;
* allocation failures between the statements of `WriteReply`, which run into
  catch blocks that reply again, into the destructor, or out of the handler;
* the shared request object of a batch, and the moment the id is stored:
  each reply carries the id and error of its own call;
* named arguments with aliases, gaps and duplicates: the command gets the
  vector its argument list promises, no argument is lost, none refused wrongly;
* `UniValue::read`: five expectation bits, the last token and a stack of raw
  pointers into growing vectors: it accepts JSON and nothing else, its pointers
  stay valid, what it builds prints as what it read;
* the UTF-8 filter between bytes and `\u` escapes: it keeps an unfinished
  sequence and an unfinished surrogate pair at once, accepts every text and
  stores what it means;
* the tokenizer at the edges of numbers, keywords and escapes, and of the text:
  it takes JSON numbers and nothing else, and never ends behind the text;
* three tables and two ideas of a character between `json_escape` and the string
  scanner: what one writes the other reads back;
* text to integer: clamping, `errno`, padding and two widths of `long`; a number
  is returned exactly or not at all;
* a UniValue used for one thing after another, setters that fail halfway, keys
  there twice: an object has a value per key and behaves as a map;
* timers deleted in any state while the loop runs on the same thread: nothing
  freed is used, nothing leaks, each fires once and in time;
* several processes that start in one directory, crash and restart: sockets,
  handles and the cookie file agree.

`PROJECT.json` lists the hazards one by one, at their lines, with the
properties that cover them.

## 2. Plan

In this order, most important first.

1. `ArgContract`, `NamedArgs`, `NamedArgsProofs`: named arguments; checked, proved.
2. `JsonRpc`, `RpcService`, `HttpRpc`, `HttpRpcProofs`: a request from the client to its
   answer; `RpcService` is the abstract specification; the safety invariants and the
   refinement checked and proved.
3. `JsonGrammar`, `JsonReader`, `JsonWriter`, `JsonReaderProofs`: the reader against
   an abstract acceptor, and the writer as its inverse; checked and proved.
4. `Startup`, `StartupProofs`: the start; checked and proved.
5. `Utf8Text`, `Utf8Filter`: `JSONUTF8StringFilter` over bytes and `\u` escapes
   against a decoder of what a string means; checked, and proved in `JsonTokenProofs`.
6. Findings as runs that TLC refutes.
7. `JsonNumber`, `JsonToken`, `JsonTokenProofs`: `getJsonToken`, `json_escape`,
   `ParseInt32` and `ParseInt64`; checked and proved.  `SequenceFacts` has the lemmas
   on sequences and recursive functions that 3 and 7 share.
8. `ObjectMap`, `UniValueObject`, `UniValueProofs`: the containers against a map;
   checked and proved, the refinement included.
9. `RpcTimer`, `RpcTimerProofs`: timers and reply events with their memory;
   checked, the safety properties proved.

Left for when the code gets there: `appendCommand` beside calls that execute,
which has no caller; the loop and the driver, which `main` lacks.

No module uses a `RECURSIVE` operator: `JsonWriter`, `Utf8Text`, `JsonNumber` and
`JsonToken` use recursive functions, about which proofs are possible.

## 3. Modules

### ArgContract, NamedArgs (`rpc/server.cpp`, `transformNamedArguments`)

`NamedArgs` follows the function: `InsertArg` is a turn of the loop that fills
`argsIn`, `TakeArg` and `SkipArg` are the two outcomes of a turn over the
argument patterns, `Finish` is the test for leftovers.  A value is the position
of its member, 0 is the null that fills a hole.  Patterns are already split at
`|`.  `ArgContract` says without a loop which vector the command gets
(`IsPositional`, `PositionalVector`) and which names are unknown
(`UnknownNames`).  The assumption `ArgsAssumption` asks that no name is an alias
of two arguments of one command, which holds of every command in the table.

### JsonRpc (`rpc/server.cpp`, `rpc/protocol.{h,cpp}`, part of `src/httprpc.cpp`)

Operators for one call: `Parse`, `Execute`, `JSONRPCExecOne`, `ErrorStatus`.
An exception is the `error` of the record an operator returns.  A call is a
record of what `parse` and the commands look at.  A result is identified by the
command's name; texts of messages are left out.  Named arguments go through
`ArgContract`'s `PositionalVector`, which `NamedArgs` shows to be what the loop
computes.  Of the commands only `help` looks at its arguments.

### RpcService and HttpRpc (`src/httprpc.cpp`, `src/httpserver.{h,cpp}`)

`RpcService` has two variables, what each client sent and the answers it got,
and two actions.  `AnswerTo` states the protocol: one answer per request, the
status, headers and body its content calls for, each call of a batch under its
own id.  It defines errors by the malformed, unknown and surplus parts of a
call, and looks for an argument by name or position rather than through a
transformed vector.

`HttpRpc` has one action per step of a handler that another thread, the loop or
a failure can get behind:

| Code | Actions |
|---|---|
| `HTTPReq_JSONRPC`, before the try block | `RefuseMethod`, `RefuseUnauthorized` |
| the try block and its catch blocks | `RefuseBody`, `ExecSingle`, `EnterBatch`, `ExecNext`, `FinishBatch` |
| `WriteReply` | `CallWriteReply`, `AddBody`, `NewEvent` / `NewEventThrows` / `NoEvent`, `Trigger`, `MarkSent` |
| `~HTTPRequest` | `Destroy` |
| `httpevent_callback_fn` and the closure | `RunEvent` |
| the client, the driver, the loop's poll (external) | `Send`, `Accept`, `Block` |

`scope` says where `WriteReply` was called: only in the try block is a
`bad_alloc` caught.  An exception outside it, or in the destructor, ends the
process (`aborted`), as does a failing assertion.  An authorization header is
present or not: the code compares it with nothing (the call of `RPCAuthorized`
is commented out).  `AddBody` also stands for `evbuffer_add` failing unnoticed.
Failures are bounded by `MaxFaults`; failures of other allocations (strings,
the JSON tree) happen before any step of the reply and are answered by the same
catch blocks, so that they are left out.

libevent is used as it is initialised, without `evthread_use_pthreads`: the
list of active events is not locked, and `event_active` from another thread
does not wake a loop blocked in its poll.  The race on the list is undefined
behaviour.  The model takes one of its outcomes, the loss of the event, when
the loop is awake or another worker triggers; a corrupted list is beyond a
model at this level.

`HTTPRequest::ReadBody`, `GetHeader` and `GetURI` are reads inside the handler's
steps.  A handler does not outlive its client: connections that break are
handled by libevent, and evhttp_send_reply on them is its business.

### JsonGrammar, JsonReader, JsonWriter (`univalue/`)

`JsonGrammar` is an acceptor with a stack of openers and one of ten places in a
text.  `JsonReader` is `UniValue::read`, one action per case of its switch; the
if-chain over `expectMask` is `Expected` and `Cleared`, what the cases refuse
themselves is `CaseAccepts`, `return false` is `Fail`, the code behind the loop
`CheckEnd`.  A UniValue is a node with its type, the number of its keys, and
pointers to its values; a pointer is an index.  `null`, `true` and `false` are
one token, as the three are one case.  The refinement mapping takes the stack of
pointers to the types of what it points at (`OpenTypes`), and mask and last
token to a place (`Place`).  `JsonWriter` adds `write(prettyIndent, indentLevel)`
as the tokens, spaces and line ends it prints: `Write`, a function that is
recursive in the node and the level, hands `indentLevel` on as `write`,
`writeArray` and `writeObject` hand it to each other, `Container` is the body of
the latter two, and `Members` their loop.

### JsonNumber and JsonToken (`univalue/univalue_read.cpp`, `univalue_get.cpp`, `univalue_write.cpp`)

Texts are sequences of bytes, and behind each lies a NUL, as behind the
`std::string` both callers of `read` pass: `At` is the byte a pointer sees.
`getJsonToken` is an operator with a branch per case of the switch, and returns
the token, where it begins, and where `raw` stands behind it or at the character
it refuses.  A copying loop is `Skip`; `ScanNumber` makes the tests of the number
branch in their order; `StartsAt` is the `strncmp` of a keyword, which may look
behind the text.  `Turn` is a turn of the string loop, `ScanString` the turns up
to the closing quote and the units they push, and `StringToken` the whole branch: the
filter is fed those units (`Filtered`), and a string token comes out only if
`finalize` agrees.  `ParseInt` is `ParsePrechecks`, `strtol` (the C
library's, with its white space, sign, clamping and `errno`) and the tests behind
it; the limits of `int` and `long` are constants.  `json_escape` looks each byte
up in `Escape`, the table of `univalue_escapes.h`.  Beside them stands the grammar
of RFC 4627, `IsNumber`, `IsInteger`, stated over all ways to split a text.

The module's behaviours make the inputs and run the string loop over them.  `Grow`
(external) adds a piece while the scan reaches the end of the text, so that every
prefix is looked at once.  At any prefix the loop may be entered: `Begin` is the
opening quote, `PushUnit` a turn that pushes a unit, to the filter of `Utf8Filter`,
and `EndString` the turn at the closing quote, with `finalize`.  A turn that returns
`JTOK_ERR` ends the call, and is no step.  `StringsRead` relates the loop's end to
what `getJsonToken` returns for the text.  `MCJsonToken` has the behaviours of
`TokenSpec` over small sets of pieces, and beside them those of `MCUtf8Filter`, in
which the filter is pushed more units, and of more kinds, than the texts spell.

### ObjectMap and UniValueObject (`univalue/univalue.{h,cpp}`)

A value is its four members `typ`, `val`, `keys`, `values`; a behaviour is any
sequence of calls on a few values.  Calls that return false change nothing, and
are no steps.  `SetFloat` has the outcome where the number is printed as "inf" or
"nan": `setNumStr` refuses that, and the type is set all the same.  The lookups
are operators: `findKey` and `find_value` take the first member of a key,
`getObjMap` the last.  `ObjectMap` is what users rely on, a value or `Missing` per
key; the refinement mapping looks every key up by `operator[]`.

### RpcTimer (`src/httprpc.cpp`, `src/httpserver.{h,cpp}`)

`NewTimer` is the construction of an `HTTPRPCTimer`, its `HTTPEvent` and the call
of `trigger(tv)`; `NewReplyEvent` is what `WriteReply` does; `Delete` is the delete
of a timer, down to `event_free`, which takes the event out of libevent's heap
(`armed`) and list (`active`).  `httpevent_callback_fn` is two actions, `Call`,
which runs the function, and `Return`, which looks at the event behind it: between
them the function may make and delete timers.  `Expire` and `Tick` are the loop's
heap and clock (external).  No code calls `NewTimer` yet, and `rpc/server.h` says of
its user only that a delete "cleans up the whole state".  That the user makes and
deletes timers on the loop's thread, each at most once, and none within its own
function (section 5), are assumptions of this module; the last is the guard
`running # e` of `Delete`.  Where `event_new` fails, `assert(ev)` ends the process,
which no safety property notices: that outcome is left out.

### Utf8Text and Utf8Filter (`univalue/univalue_utffilter.h`)

`Utf8Text` says what a string means, without a state: a unit is a byte or a
`\u` escape, `CharsAt` is the character that starts at a unit (a shortest
sequence of bytes, an escape, or an escaped surrogate pair), and `Meanings` is
the set of texts a whole string can be taken for, empty for a string that is
none.  `Utf8Filter` is the class: the record `filter` has its members, and
`push_back` (with `Continue`, its branch for an open sequence), `push_back_u`,
`append_codepoint` and `finalize` are operators on such a record, named as the
methods are.  `Feed` is the choice the string loop makes between the two pushes,
`Filtered` a filter that was fed a whole string.  The actions are `Push`, of any
unit, and `Finalize`; `MCUtf8Filter` bounds the units, for the runs of findings 3
and 4 and for `json_token`, and `JsonToken` makes the same steps with the units that
its scan finds in a text.  What is stored is a sequence of code points:
`append_codepoint` spells each number below 2^21 in one way, so that the bytes are
left out.  Shifts and
masks are divisions and powers; `|` is an addition where `TypeOK` says that
the bits are free, and is not where they are not (`OrPlane1`).  Escapes of one
character (`\n`) go through `push_back` and are the bytes they stand for.

### Startup (`src/init.cpp` and what it calls)

Each process runs `main`: `Boot`, `ObtainBase`, `ObtainHttp`, `Bind` per
endpoint, `FinishInit` (the end of `InitHTTPServer`, where the owning pointers
release or free), `OpenCookie`, `WriteCookie`, `Register`; `Exit` may happen at
any point and stands for the return of `main`, an uncaught exception, a failing
assertion and a crash alike.  Between processes lie the listeners of the two
endpoints and the cookie file.  A port that is free may still not bind (a host
without IPv6).  The cookie is one constant, for `GetRandBytes` fills its buffer
with ones (`src/random.cpp`): every start writes the same.  `main` does not run
the loop yet, so "serving" means that the start has succeeded and the process is
still there.

## 4. Runs

| Run | Instance | Shows |
|---|---|---|
| `service` | 2 requests, 15 kinds of request, handlers in the loop or on workers, no failure, fairness | no wrong, mixed or second answer under any interleaving (`Implements`); in the loop each request is answered in the end (`ServesInLoop`) |
| `faults` | 2 requests, 8 kinds, 2 failures, both drivers, fairness | one event or answer per request, no use after the hand-over, no failed assertion; in the loop every request is answered unless the process ends |
| `named_args` | 5 names, objects of up to 4 members, lists of up to 4 patterns with aliases | the loop computes the contract |
| `json_reader` | every token sequence of up to 9 tokens, and one further token that may refuse it | grammar, pointers, keys, round trip, indentation |
| `json_token` | the filter alone: strings of up to 4 units out of 10 bytes and 8 escapes; texts of up to 7 bytes, and strings of up to 20 bytes and 3 units; `int` of -11..10, `long` the same or -81..80 | every text accepted, stored as it is meant below U+20000, no halves stored; numbers are JSON, scans stay in their text, integers exact, strings read as they are meant and refused where they end within a character, escapes read back |
| `univalue` | 2 values, 2 keys, members of 2 types, size 3 | a value per key, a map under `operator[]`, where duplicates come from |
| `rpc_timers` | 3 events, times of 0 to 2, a clock to 3, fairness | nothing freed is used, one who deletes, once and in time, timers fire |
| `startup` | 3 interchangeable processes, any number of starts | sockets, handles and cookie file agree |
| `reply_written_twice` | 1 request, 1 failure | finding 1 |
| `worker_does_not_wake_loop` | 2 requests, worker threads, fairness | finding 2 |
| `utf8_pairs`, `utf8_adjacent` | strings of up to 3 units | findings 3 and 4 |

The largest, `json_token`, has 480000 states (two minutes), nearly half of them of the
filter alone, `service` and `faults` have 110000 and 150000.

Why these bounds are enough.  Requests interact only through the loop and its
list of events, so that two show every interference of a request with another;
the kinds of request take every branch of the handler and every error, alone and
in different positions of a batch.  Two failures let the second one hit the
reply made because of the first.  Nine tokens nest containers four deep, put
two members in an object and close containers of either kind behind either
kind.  The bytes are the borders of every class the filter
tells apart, with C3, E0, ED and F0 to begin characters, overlong forms and
surrogates in bytes; the escapes are a plain and the last character of the first
plane, and halves that make pairs on both sides of U+20000; four units hold the
longest character, two pairs, or a pair in the middle of a sequence.  The strings of
`json_token` have every way to go through a turn of the string loop, the quote,
the backslash, DEL and a byte below 20 included, with units that begin and end
characters; three are enough for a pair or a character of two bytes beside another
unit, or for one cut by it, while longer ones are left to the filter alone.  The
digits 0, 1 and 8, the signs, the point, the exponent's letter, a letter that belongs
nowhere and a digit behind each make every path through the number branch and
every way to leave it, in 7 bytes; keywords are whole, cut, or beside the end of
the text.  The limits 11 and 81 put "-11", "10" and "80" on each side of them:
what does not fit `int` but fits a wider `long`, and what is clamped to either.  Two
keys and a size of 3 make members that are there twice, and members between
them.  Three events let two timers and a reply, or three timers, be in different
lists at once; a clock to 3 lets a timer be made while another one is due.  Two
starting processes can split the endpoints; the third is there to start beside
them, and all may come back as often as they like.

Deadlock checking is off in all runs: a system whose requests are answered, or
whose bound of starts or tokens is used up, has nothing left to do.

Fairness (`HttpRpc`).  Weak fairness of each handler's steps says that a thread
is not stopped forever, weak fairness of `RunEvent` that a loop that is awake
works through its events; the code adds nothing to either, and clients are under
no obligation to send.  `Block` is not fair, and is not made impossible: it is
what `worker_does_not_wake_loop` needs.  A request that arrives wakes the loop,
`Accept`, since libevent polls its socket.

Fairness (`RpcTimer`).  Time passes (`Tick`), and the loop moves what is due to
its list (`Expire`) and runs it (`Call`, `Return`): weak fairness of each, as the
loop does nothing else.  Nobody is obliged to make or delete a timer.  The clock
ends at `MaxTime`, and no timer is made that would be due behind it.

Every property of a passing run has a mutant: an operator beside the definition
it changes (`ExecNextByReference`, `TakeKeepingHole`, ...) that makes a plausible
mistake in that code and breaks the property.

## 5. Findings

1. A `bad_alloc` in `WriteReply`, after the body was added to the buffer, ends in
   `JSONErrorReply` and a second `WriteReply` on the same request: one answer
   with two bodies and two Content-Type headers, although the method "can be
   called only once" (`src/httpserver.h:92`).
2. `HTTPEvent` "can be used ... as a cross-thread trigger" (`src/httpserver.h:112`),
   but `InitHTTPServer` never switches on libevent's locking: a blocked loop is
   not woken, and a request whose handler runs on another thread may wait for the
   next one to arrive.
3. `push_back_u` joins surrogate pairs with `0x10000 |` instead of adding:
   `\uDBFF\uDC00` becomes U+FFC00 and not U+10FC00, although the filter "collates
   UTF-16 surrogate pairs as specified in RFC4627"
   (`univalue/univalue_utffilter.h:10`).
4. "First half of surrogate pair not followed by second - fail"
   (`univalue/univalue_utffilter.h:66`), but ASCII characters pass by that check:
   `\uD83DA\uDE00` is accepted, and stored as A followed by the pair.

Observations that need no run:

* The filter "generates and validates UTF-8"
  (`univalue/univalue_utffilter.h:10`) but looks at the class of each byte only:
  overlong sequences (C0 80), numbers above 10FFFF and surrogate pairs spelled in
  bytes are accepted, since `push_back` and `Continue` have no condition on the
  number.
* `GenerateAuthCookie` is to "write it to disk" (`rpc/protocol.h:92`) and reports
  success when the write or the flush fails (`rpc/protocol.cpp:64`).  `Startup`
  has that outcome in `WriteCookie`, and `WholeServerKeepsCookie` excepts it.
* The cookie is "random" (`src/httprpc.cpp:144`), its bytes come from
  `GetRandBytes`, which is to "Generate random data via the internal PRNG"
  (`random.h`) and fills the buffer with ones: all starts share one cookie, as
  `Startup` has it.
* `StartHTTPRPC` has the precondition that RPC "has been started"
  (`src/httprpc.h:9`); `AppInitServers` calls it with `StartRPC` commented out, so
  that `IsRPCRunning` is never true.
* A minus sign alone at the end of a text is a number token
  (`univalue/univalue_read.cpp:128` asks for a digit only where the text goes on), so
  that `setNumStr("-")` succeeds; within an array or object the next character
  refuses it.  `NumbersAreJson` excepts it.
* `validNumStr` looks at the first token only: `setNumStr("1 2")` and
  `setNumStr("1]")` succeed and keep the whole text, which `write` then prints.
  `get_int` refuses such texts (`IntegersExact`).
* `ParsePrechecks` is to admit no padding (`univalue/univalue_get.cpp:23`), by
  `json_isspace`; vertical tabs and form feeds in front pass it, and `strtol` skips
  them.  No text `validNumStr` accepts begins with one.
* `setFloat` of an infinity or NaN fails and leaves a VNUM with the former text and
  members (`univalue/univalue.cpp:81`): `write` prints that text as a number, and
  `find_value`, which asks for no type, still finds the members.  `unset` keeps
  track of such values, and `WellFormed` says that any other setter makes up for it.
* Of a key that is there twice `find_value`, `operator[]` and `checkObject` take the
  first member, `getObjMap` and `transformNamedArguments` the last: `parse` reads
  "method" by the former, a command its arguments by the latter.
* `obj.pushKVs(obj)` adds to the vector it walks and never ends, and
  `push_backV` with the array's own values inserts a range of the vector into
  itself.  Nothing here calls them so; `PushKVs` and `PushBackV` take another value.
* `getJsonToken` compares keywords, and looks behind a leading minus or zero,
  without asking `end`: `read(raw, len)` relies on a NUL behind the text.
* A timer whose function deletes the timer makes `httpevent_callback_fn` look at a
  freed event (`src/httpserver.cpp:52`).  "delete cleans up the whole state"
  (`rpc/server.h:13`) holds from everywhere else (`NothingFreedIsUsed`).

## 6. Proofs

TLAPS checks the following for every value of the constants, under the
assumptions named in the modules.

* `NamedArgsProofs`: `TypeCorrect`, `AlwaysPositional`, `NoArgumentLost`, from
  `ArgsAssumption`.  Neither property is inductive.  The invariant `IInv` says
  of the map that, while it is filled, it holds the last value read of each name
  (`MapHoldsPrefix`), and afterwards what no processed pattern has taken
  (`TakenFromOwnPattern`, `MapHoldsRest`), and of the vector that it is
  positional for the patterns processed so far, the open hole excepted
  (`VectorSoFar`).  Disjoint aliases are needed where a pattern takes its
  argument: no earlier pattern can have erased it.
* `HttpRpcProofs`: `TypeCorrect`, `AtMostOneAnswer`, `NothingAfterHandOver`,
  `NeverAsserts`, from `HttpAssumption` and `NullIdAssumption`, for any number
  of requests and failures and both drivers.  The invariant adds `Wrapped`: at
  each place of a handler, whether the wrapper still has its request and whether
  a reply was sent.  `OneAnswer` follows because only `Trigger` adds an event, and
  a handler is there only while nothing of its request was handed over.
  `ServesRightly` is the refinement of `RpcService` where no
  allocation fails (`MaxFaults = 0`; with failures it does not hold, finding 1), for
  any requests and inputs, with handlers in the loop or on workers.  One half is
  about operators: what `Run` makes of a call is what the service promises
  (`SameReply`), although one goes through the transformed vector and the other
  looks for the argument by name.  The other is the invariant `AnswersRightly`,
  which says at each place of a handler what of the right answer is written
  already; the id of `jreq` is still null where a batch copies it, and the output
  is still empty where `~HTTPRequest` answers.
* `StartupProofs`: `TypeCorrect`, `NoStraySocket`, `CookieOfWholeServer`, for any
  number of processes and starts.  `Placed` says what each place of `main`
  implies, in particular that a process at work on the cookie file has a socket;
  `FileOwner` concludes that it is alone if it has them all.
* `JsonReaderProofs`: `TypeCorrect`, `PointersLive`, `KeysMatch`, and
  `ReadsEveryText`, the refinement of `JsonGrammar`: for texts of any length and
  depth, `UniValue::read` accepts the JSON texts and refuses the others at the
  first wrong token.  Pointers are live because each open container is the last
  value of the one around it and only the innermost one's vector grows; the
  stack's indices rise (`StackRises`), so that the innermost is none of the others.
  The keys match because one is ahead of its value exactly between them
  (`KeysSoFar`), which the mask tells (`MaskFits`).  For the refinement one more
  invariant says what the last token can be where a value is complete
  (`LastToken`), and lemmas go through the cases of the switch and show that
  `Expected`, `CaseAccepts` and `Cleared` are a step of the grammar (`PlaceFits`).
* `JsonReaderProofs`, on the writer: `WritesWhatWasRead` and `LinesAreIndented`, for
  values of any size and depth.  The reader's invariants say nothing of *which*
  tokens made the tree, so that `RoundTrip` needs one more, `Layout` (`LayoutHolds`):
  there are a first place `at` and a place behind the last `end` for every node, so
  that the text has the node's token at `at`; its first value, a name and a colon
  before it in an object, follows, and each further one stands behind the end of the
  one before it and a comma (`ValueLaid`); a node that is closed has its closer
  behind its last value (`ClosedLaid`); only the last value of an open container can
  be open; and the reader stands in the innermost one where mask and last token have
  it (`Reached`).  A token that adds no value only makes the text longer
  (`StaysLayout`), one that adds a value gives a node more its place (`AddedLaid`),
  a closer gives the innermost node its end (`ClosedIs`).  At the end nothing is open
  (`AllShut`) and the tree's pointers point behind their nodes (`Forward`), which is
  why the recursive function of `Write` exists (`WritesExists`, `WriteIs`).  Going
  down from the last node, the tokens of what `write` makes of a node are the part
  of the text from `at` to `end` (`ReadsAll`), since the turns of the loop of
  `writeArray` and `writeObject` meet there (`MembersCut`).
  For the indentation a text is run through an automaton that knows the depth and
  the spaces of the line so far (`Moves`, `Leads`).  What `write` makes of a value
  leads back to the depth it began at, from behind a name as from behind the
  line's spaces (`NodesHang`), and in a text the automaton can go through the spaces
  are twice the containers open (`DepthCounts`, `LineBegins`, `LinesOf`).
* `JsonTokenProofs`, on the filter: `TypeCorrect`, `NeverHalves`, `AcceptsAll` and
  `StoresTheMeaning`, for strings of any length out of any bytes and escapes.
  `TypeOK` is where the arithmetic is: the bits of `codepoint` that a byte is ored into are clear, and every number is below 2^21.
  The last two are about `Meanings`, a recursive function from the right, and a
  filter that goes from the left.  The lemmas first show that such functions
  exist (`Downward` of `SequenceFacts`, from the least number where one would not) and that a meaning
  is spelled by places that cut the text (`MeaningSpelled`); cuts can be taken
  apart at the last character (`SpellsLast`).  The invariant `Tracks` says what the
  filter's members are wherever a text that means something may end (`AtRest`),
  after a high half behind such a text (`InPair`) and within a character behind it
  (`InCharacter`: the bits missing, and the sum of those seen).  A unit more
  completes a character in one of three ways (`Ways`) or comes within one
  (`SeenMore`), and the filter does what each asks for.
* `JsonTokenProofs`, on the tokenizer: `NeverBeyondText`, `GettersExact`,
  `NumbersByGrammar`, `StringsAreRead` and `RereadsWhatWasStored`, for
  texts of any length of any bytes and any limits of `int` and `long`, from
  `TokenAssumption`.  `Skip` chooses the one place behind a run, which exists
  because no class of characters has the NUL behind the text.  The string loop and
  the value of digits are recursive functions that exist by `Downward` and `Upward`.
  What `strtol` takes is compared with the grammar of integers, and `IsNumber` is
  put in terms of the places where the scan stops.  `StringsAreRead` joins the scan
  and the filter.  Its invariant `Reading` says that, wherever the loop stands, the
  units pushed so far and those `ScanString` finds from `raw` on are the units of
  the whole literal (`ToRead`, `AllRead`), and that the filter is what `Filtered`
  makes of those pushed; that function exists, as the others do, by a least
  counterexample (`FeedingExists`).  At the closing quote nothing is left, so that
  the filter of the loop is the one `StringToken` asks, and what the filter's own
  invariants say of it is what `getJsonToken` returns.  These hold in the loop because
  each turn that pushes is a step of the filter (`TokenMoves`).
  `RereadsWhatWasStored` goes through `FlattenSeq` twice: what is put together from
  pieces is described by the offsets of the pieces (`Pieced`), for the UTF-8 of the
  characters and for the escapes of its bytes.  The string loop takes each escape
  for the byte it was written for (`TurnOnEscape`, `ScanWritten`), and the units of
  one character of one to four bytes are read as that character and in no other way
  (`CharWritten`), so that the whole means the string alone (`MeaningsWritten`).
* `UniValueProofs`: `TypeCorrect`, `AlwaysWellFormed`, `AlwaysAgree`,
  `OnlyPushKVsDuplicates`, and `ObjectIsMap`, the refinement of `ObjectMap`, for any
  number of values, keys and members.  The lemmas say what the first place of a
  key is in a sequence that was appended to, joined or changed at one place.
* `RpcTimerProofs`: `TypeCorrect`, `DeletedIsForgotten`, `OneOwner`,
  `FiresOnceAndInTime`, for any number of events and any times.  The invariant adds
  `Lists`: an event is in one of libevent's lists, once, before it has fired.

Model-checked only: `ServesInLoop`, `AnsweredUnlessAborted` and `TimersFire`.
Liveness and fairness are beyond the prover.  Every invariant, action property and
refinement that a passing run checks is proved.  Induction over data, which the
prover has not, is replaced where recursive functions are concerned (the scan, the
decoder of `Utf8Text`, the value of digits, `Write` on trees) by an invariant, or by
the least or greatest counterexample (`FromLeft`, `FromRight`).

## 7. Not modelled

`appendCommand` and the flag it asks, `IsRPCRunning`: nothing calls it, or
`StartRPC`, and the table is constant once `main` begins.  `get_real` and
`ParseDouble`: floating point, which TLA+ has not.  The getters that test a type and
return a member, `operator[](size_t)`, `MakeUnique` and `HexStr`: no state, nothing
that could be ordered wrongly.  `__pushKV` and the constructor from a type and a
text trust their caller and are modelled where `pushKVs` and the reader call them.
The demonstrations are programs of their own, one commented out.  Timeouts and size
limits of evhttp are libevent's.  What follows a start, a thread that runs the loop
and a lookup of `pathHandlers`, is not in the repository; `HttpRpc` says what it
assumes of it.
