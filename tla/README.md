# ngx_http_headers_control_module, specified

TLA+ modules of the nginx module in `src/`, TLC runs that check them on small
instances, and TLAPS proofs of what holds for every instance. File names below
are those under `src/src/`, without the prefix `ngx_http_headers_control_`.

## 1. The system

Directives are read into each block's rules (`util.c`), merged from the http
block down to the locations (`module.c`), and run on every request for a
location: rules for request headers by a handler at the end of the rewrite
phase, rules for response headers by a header filter. A rule's own handler then
changes the headers (`headers_in.c`, `headers_out.c`).

| component | state | operations | what makes it correct |
|---|---|---|---|
| list surgery, `util.c` 388-505 | the parts, `last` and `nalloc` of an `ngx_list_t` | remove one header (seven branches); nginx pushes | the list stays a list for nginx's pushes and traversals; one header goes, no other moves |
| bitmap, `util.c` 340-385 | words of bits | init, set, isset; unchecked writes in the loops | no write outside of the words |
| rule loop, `module.c` 106-174, 370-478 | position, bitmap of ids that broke their chain | run, decline, skip, fail | a rule is skipped exactly if an earlier one locked its header |
| directives, `util.c` 15-335 | arrays, counts, ids per block; `requires_*` | accept, reject | what is accepted is the documented syntax, and means one thing |
| merging, `module.c` 208-319 | the same, shared between blocks by pointer | merge a block with its parent | leaving out a parent's rule is never seen in a request; no block changes another |
| post-configuration, `module.c` 322-367 | nginx's filter chain and phase handlers, static `prev_cycle`, the master's and each worker's | install, once per http block and reload | every worker runs the filter if a block of its configuration needs it |
| request headers, `headers_in.c` 50-724 | the list, pointers, chains, fields computed from headers | one handler per kind of name | list, pointers and fields change together, as the operator's description says |
| Host validation, `headers_in.c` 727-924 | a scan of the value | accept with the host, or decline | exact, in spite of wrap-around in `size_t` |
| response headers, `headers_out.c` | list with hash marks, pointers, content type | one handler per kind of name | as for requests; cleared headers stay as marked slots |
| phase engine, `module.c` 383-415 | nginx's handler array, shared by all requests; the index of each request | move the handler to the end, once per worker | no request skips or repeats a handler; the rules see what the other handlers did |
| subrequests, `headers_in.c` 378-385 | the list heads of a request and its subrequests, on shared parts | create, copy to the parents, remove | the parents see the header created; a removal takes that header only |

Interaction: merging calls the bitmap and hands arrays, counts and ids to the
loop, which trusts them unchecked. The loop calls a handler, which calls the
list surgery. nginx pushes headers and keeps pointers to them, so no header may
move. A worker is single-threaded: a rule and a whole loop run without a pause;
requests interleave only between phases.

What is hard: long sequences of removals and pushes; unsigned counts; state kept
in three places (list, pointer, field); arrays shared between blocks; ids that
mean an index only after merging; memory failures half-way; the scan that starts
anew after each removal; an array of handlers that moves under waiting requests;
statics that outlive a rejected configuration; list parts shared with subrequests. `PROJECT.json` lists each hazard with its line and the
properties for it.

## 2. Modules

| module | models | refers to |
|---|---|---|
| `HeaderSeq` | the abstract promise: a sequence of slots; push at the end, remove one | - |
| `NgxList` | the list and `rm_header_helper` | `HeaderSeq` (refined) |
| `Bitmap` | the bitmap | - |
| `RuleChain` | the loop, for both directions | `Bitmap` |
| `Picks` | the members of a sequence at some of its indexes: `SelectSeq` as a function of a set, so that it can be proved about | - |
| `RuleConf` | parsing, merging, installing | `Bitmap`, `Picks` |
| `HeaderRules` | configuration and requests together | `RuleConf`, `RuleChain` (instance) |
| `PhaseEngine` | the rewrite phase, and the handler's move to its end | - |
| `PostConfig` | `post_config` over reloads, in the master and its workers | `PhaseEngine` |
| `Subrequests` | the lists of a request and its subrequests, with pointers | `NgxList` (refined), `Picks` |
| `HeadersIn` | the handlers of request headers | `NgxList`, `Picks` |
| `ValidateHost` | `validate_host` | - |
| `HeadersOut` | the handlers of response headers, and what nginx's filters then send | `Picks` |
| `ContentType` | the scan of `set_content_type_header` | - |
| `*Proofs` | theorems about the module of that name; `HeaderRulesProofs` about `RuleConf` and its grammar too, `SeqProofs` about `Picks` and what the others need of sequences, `ScanProofs` about `ValidateHost` and `ContentType`, `WorkerProofs` about `PhaseEngine`, `PostConfig` and `RuleChain` | that module |
| `MC*` | constants of small instances | that module; `MCWorker` runs `PostConfig`, `MCParsers` one of `ValidateHost`, `ContentType` and `RuleConf`'s grammar |

**NgxList.** A part is its address, first slot, count and a ghost `end` of its
memory; the `next` pointers are the order of a sequence. `brk` and `fresh` are the
pool. Each branch of `rm_header_helper` is an operator; `Rm` is a removal that
needs no memory, `RmGrow` the one that splits a part. `Push`, `PushGrow` are
`ngx_list_push` (external).

**RuleChain.** `Begin` is the code before the loop; `Skip`, `NotMet`, `Fail`,
`RunOn`, `RunAndLock`, `RunAndFault` are what a turn of it comes to. A rule's
condition is an input. `RunAndFault` is the unchecked write that misses.

**RuleConf.** `parse_directive` is a function of the tokens; `Accept` and `Reject`
its effects. `expr` is whether nginx is built with
`ngx_expr_module`. `Merge(b, memory)` is `merge_loc_conf` for both directions, in any
order in which parents come first. `text` is a ghost: the rules as written.
Its `PostConfig(again)` installs, at the first reading; `again` stands for
`multi_http_blocks`, which the module `PostConfig` derives from the cycles.

**PhaseEngine.** `ph` is the rewrite phase's part of nginx's array, `at` each request's
`r->phase_handler`. `Postpone` is the first call, which moves the handler and makes the
checker do the slot again; `Decline`, `Finish` are any other. The rest is nginx and other
modules: handlers wait (`Pause`, `Resume`), URIs are rewritten, requests are redirected and
aborted. `Movers` may hold others that move by the same trick. One request runs at a time.

**PostConfig.** `reading` is the configuration that the master reads, `linked` whether the
filter is in the chain that its statics begin; `post_config` is called per http block. A
configuration is accepted or rejected, a worker dies and is replaced: what a worker has is
what the master's statics held when it was forked.

**Subrequests.** `NgxList` keeps a list as a sequence of parts, which lists that share
parts cannot be. Here parts are memory with `next` pointers, a request is the address of
its embedded part, and each branch of `rm_header_helper` is an update of memory. `Start` is
`ngx_http_subrequest`; `Create` a push and the copies to the parents; `Delete` a removal
with the assertion behind it. A push behind a part's block is undefined and left out
(`InBlock`). `MainAlone` refines `NgxList` as long as no subrequest changes its copy.

**HeadersIn.** `Receive` is nginx reading a request: the list, the first-header
pointers and the chains. One action per handler and outcome (`SetHeader`,
`SetAbsentBuiltin`, `KeepBuiltin`, `ClearBuiltin`, `ReplaceBuiltin`, `SetMulti`, ...);
then `set_header_helper`, one action per turn of its loop (`Miss`, `AddNothing`,
`TakeValue`, `RemoveHeader`, ...) and per outcome of creating a header. The steps of
a rule follow each other with no choice but that of memory. Its list actions are
those of `NgxList`, conjoined. `derived` is the value that the fields which depend
on a header were computed from (`server`, `content_length_n`, the browser flags,
`connection_type`): they are functions of it. The names are classes: one that nginx
does not know, and one of each kind of handler.

**ValidateHost.** One action per case of the switch; a value is a sequence of
characters, of which each class has one member; `size_t` wraps at `SIZE`.

**HeadersOut.** A cleared response header is marked (`hash` 0) and keeps its slot, so
this list only grows and is the sequence of its slots. No scan starts anew and a rule
is carried out without a pause: it is one step, one action per handler and outcome
(`SetHeader`, `SetAbsentBuiltin`, `ClearBuiltin`, `SetType`, `ChangeChain`, ...), with
`Helper` for `set_header_helper`. `Produce` is nginx's content handler. What the client
gets is `Sent(name)`: the live slots of that name, and the lines nginx's later filters
add from fields or of themselves (`Own`, external): Server and Date unless their pointer
is set, Content-Length from `content_length_n`, Accept-Ranges from `allow_ranges`,
Content-Type with its charset. `Pointer` is the table of handlers: a name may be handled
under another one's pointer, as E-Tag is under `etag`.

**ContentType.** One action per way through the loop of `set_content_type_header`.
The comparison with `charset=` is one step, so `NAME` is one character; lengths wrap at
`TYPE_SIZE`. Its outcome is `CharsetOf` in `HeadersOut`.

## 3. Runs

| run | question | bounds |
|---|---|---|
| `list` | do all sequences of pushes and removals keep the list a list, and implement `HeaderSeq`? | parts of 4 slots, 10 slots, 7 parts: a part of four is the smallest in which a split leaves a part that can itself be split or emptied, and ten slots make three allocations |
| `chain` | which rules run; do the writes fit? | 4 rules, 2 names, words of 2 bits, so that the last word is partial or full |
| `parsers` | is exactly the documented syntax accepted, in builds with `ngx_expr_module` and without? is every Host judged right? is the charset of a Content-Type found where it is? | every line of an operation and up to 4 tokens of 7 kinds, or 5 for `set`: one more than any directive of that operation has; every Host of up to 5 characters of 9 classes, ports of 4 to 6 digits around 65535; every type of up to 6 characters of 5 classes: two parameters with spaces and quotes |
| `rules` | from file to request: do merged lists, and the loop over them, run the rules as written? | http, server, two locations (one level to inherit through, one array to share); 3 rules; every order of merging, memory outcome and outcome of conditions; locations are symmetric |
| `input` | does a rule do what the operator's description says, and end? do pointers, chains and fields follow? | 2 rules, parts of 3 (splits, emptied parts, a reused part), over two families of names: 4 headers of names nginx does not know and a wildcard over them; or 3 headers of 4 names, one per kind of handler, and a wildcard over one of them. A list never mixes the two, and a value that is refused is only given where something checks it |
| `output` | does a rule do to what the client gets what its operator says? | up to 2 headers; a name of each kind: Server, Content-Length, Accept-Ranges, Content-Type, Cache-Control (a chain of up to 2), one nginx does not know; a wildcard over all but two; 2 rules, so that one meets what the other cleared |
| `worker` | does every request pass every handler once, and the rules last? does every worker have the filter its configuration needs? | 3 handlers, two of which move, in every order; 2 requests with 2 passages and one pause each: one that waits while the other moves handlers, and a passage over the moved array. 3 configurations of up to 2 http blocks, 2 cycles (so that an address comes back), 2 crashes. The master acts before the worker has requests, and requests come to the first worker: neither has memory of the other |
| `subrequest` | what do lists that share parts do to each other? | a request, its subrequest and one of that; parts of 3, 5 slots, 2 new parts, 2 changes by subrequests: a creation and a removal, in either order |

Four runs show where the code departs from what it says of itself:

- `input_set`: `clear Refer*` leaves `r->headers_in.referer` pointing to the removed
  header; `set Referer v` then writes into that element and returns, and the request
  has no Referer (README.md:160, "Replace the header value, or add it if absent").
- `input_add_multi`: `add` of a Cookie that exists empties the chain nginx reads and
  puts an unset local variable in its place (README.md:162, "Set only if the header does
  **not** already exist"). Only the value `UNSET` stands for that variable; what follows
  from using it is not modelled. `ChainRebuilt` shows that a later `set` or `clear` repairs
  the chain.
- `output_etag`: the handler of the pointer `etag` is listed under `E-Tag`; a rule for that
  name clears or renames the ETag, and a rule for ETag is handled like any other name.
- `subrequest_assert`: nginx as it is (`StockSpec`), where no module repairs a subrequest's
  `last`. The main request has one header; a subrequest is started with a copy of the list,
  whose `last` is still the part embedded in the parent; a rule clears the header in the
  subrequest. `rm_header_helper` finds that the part is not `last` (`util.c` 412) and
  asserts that one is behind it, `cur->next != NULL` (`util.c` 443): there is none, and the
  worker ends (it is a plain `assert`, in every build without NDEBUG). Where a module does
  repair it, `SubSpec` has a behaviour of as many steps that ends at the same line: the
  subrequest creates a header with a pointer, the copy of its `headers_in` leaves the main
  request with the subrequest's part as its `last`, and a rule clears the header there. In
  a list of one part with several headers, it is the removal of the first or the last one
  that ends the worker, by the assertion in `set_header_helper` (`headers_in.c` 305).
  `RemovesOne` is what can be said of removals on shared lists: where `last` is the list's
  own, one header goes, and others lose that one or nothing.

Other departures are part of the properties that hold, which say exactly what happens:

- `EffectExact` leaves out a rule for a name whose pointer is stale, and `PointersExact`
  such a pointer; those are the cases of `input_set`.
- `FieldsFollow`: `set` and `clear` keep the header and the fields computed from it
  together; an `add` or a `rewrite` of a Host, Connection, Content-Length or User-Agent
  changes the fields even where it leaves the header alone.
- `OutEffectExact` gives each response rule its documented effect, or, for the rules in
  `Departs`, the one in `Departure`: Content-Type and Cache-Control are set whatever the
  operator, `add` included; a header that a rule cleared keeps its pointer and counts as
  present, so that a `rewrite` brings it back and an `add` does not; a Content-Type without
  a charset keeps the one before; a `set` of Accept-Ranges leaves `allow_ranges`, and the
  range filter adds a second line. A rule whose name goes by the pointer of another (`E-Tag`)
  may do to that one what it says of its own. A wildcard `clear` takes out the headers of the list and
  not those that nginx sends of itself. Wildcards with another operator, of which nothing is
  documented, are only held to leaving the names alone that they do not match.
- `LengthPartedBy`: nothing but an `add` that keeps the header, or a wildcard, parts the
  Content-Length that is sent from `content_length_n`, by which nginx frames the body.
- `CharsetExact` lets a parameter directly behind an empty one be passed over (the scan
  skips the second semicolon); `CharsetInValue` shows that a value ending in `charset="` is
  the only one whose length wraps around.
- `FilterServes` has one exception: a worker that replaces a dead one after a rejected
  reload. If `post_config` was called once since the configuration in use was accepted, for
  one without response rules, it set `prev_cycle` and unlinked the filter in the master.

`CHECK_DEADLOCK FALSE` is said where the modelled system stops: a rejected
configuration, one that serves (in runs without requests), a value that is parsed, requests
whose rules or passages are through, an assertion that failed. `list` and `chain` check
deadlock.

**Fairness.** `HeadersIn`: weak fairness of `Helper`, the steps of a C function that has
been called. The worker runs it to its end; `RuleEnds` is the question whether the end is
ever reached. `PostConfig`: per request, weak fairness of the worker's own steps and of
`Resume`, because the event loop runs what is runnable and an awaited event or its timeout
comes; and of `RejectConfig`, so that a reading ends one way or another. New requests,
aborts, reloads and crashes are never assumed. `PassEnds` is the question whether the slot
that is done again can be done again for ever. Everything else is safety.

Every property has a mutant in `PROJECT.json`: a slip of the kind one could make in
that code, kept beside the operator it changes, that violates it.

## 4. Proofs

| module | theorem | says |
|---|---|---|
| `NgxListProofs` | `TypeCorrect`, `LastStaysTail`, `NoSharedSlot`, `TraversalExact`, `PushStaysSafe` | the safety properties of `NgxList` for every capacity and pool size |
| `NgxListProofs` | `ListImplementsSeq` | `Refinement`: the list implements `HeaderSeq`, for every capacity and pool size |
| `NgxListProofs` | `EachInItsSlot` | no slot is in the list twice, so a header's place is a function of its slot |
| `HeaderRulesProofs` | `GrammarCorrect` | `GrammarExact` for lines of any length |
| `HeaderRulesProofs` | `IdsCorrect`, `SharingIsSafe`, `RulesAreServed` | `IdsArePositions`, `MergedStays` and `ServedWhereWritten` for every tree of blocks and sequence of directives |
| `HeaderRulesProofs` | `MergingIsSound` | `MergeSound`: what merging leaves of a parent's rules runs what all of them would, for every tree, order of merging and memory failure |
| `HeaderRulesProofs` | `ConfiguresAsAlone` | `HeaderRules` implements `RuleConf`, so the four theorems above are about requests too |
| `HeaderRulesProofs` | `RequestsRunWhatIsWritten`, `WritesFitTheBitmap` | `RunsAsWritten` and `WritesFit`: from the file to the rules a request runs, and no write outside of the bitmap on the way |
| `ScanProofs` | `PositionsInValue` | `ValidateHost`'s `TypeOK` for values of any length |
| `ScanProofs` | `HostIsExact` | `HostExact` for values of any length |
| `ScanProofs` | `CharsetFound`, `CharsetStaysInValue` | `CharsetExact` and `CharsetInValue` for values of any length |
| `HeadersInProofs` | `HeadersTypeCorrect` | `HeadersTypeOK` for all names, values and rules |
| `HeadersInProofs` | `RulesKeepToList`, `LoopReadsHeaders`, `RequestListSound` | the rules implement `NgxList`, for all names, rules and headers, and so keep what it keeps, and implement what it implements |
| `HeadersInProofs` | `RulesDoAsDocumented` | `EffectExact`: each rule has its documented effect on the list, for all names, wildcards, rules and headers |
| `HeadersInProofs` | `PointersLead`, `ChainsAreRebuilt`, `FieldsAgree` | `PointersExact`, `ChainRebuilt` and `FieldsFollow`: pointers, chains and fields follow the list |
| `HeadersOutProofs` | `OutTypeCorrect`, `PointersCorrect`, `ChainCorrect` | pointers of `r->headers_out` and the Cache-Control chain for every table of handlers, aliases and wildcards included |
| `HeadersOutProofs` | `ResponsesAsDocumented` | `OutEffectExact`: each rule has its documented effect on what the client gets, or the departure that is stated, and leaves other names alone |
| `HeadersOutProofs` | `LengthFollows` | `LengthPartedBy`: what can part the Content-Length that is sent from `content_length_n` |
| `WorkerProofs` | `NoneSkipped`, `ResumedByItsOwn`, `RulesRunAtTail` | `EachOnce`, `ResumesItsOwn` and `RunsAtTail` for any handlers, movers and requests |
| `WorkerProofs` | `FilterIsServed` | `FilterServes` for any number of blocks, reloads, rejected configurations and crashes |
| `WorkerProofs` | `ChainCorrect`, `WritesInBounds` | `ChainExact` and `FaultOnlyWithoutMemory` for every word size, set of names and list of rules |
| `SubrequestsProofs` | `SubInvariance` | whatever parts lists share, their pointers together make no circle and lead to no part that was not handed out, for any tree of subrequests |
| `SubrequestsProofs` | `CreatedPropagates` | `ParentsFollow` for any tree of subrequests |
| `SubrequestsProofs` | `RemovalTakesOne` | `RemovesOne` for any tree of subrequests and any sharing of parts |
| `SubrequestsProofs` | `MainIsNgxList` | `MainAlone`: the pointers implement `NgxList`, for any tree of subrequests |

Assumptions are the named ASSUMEs of the modules: a list is created with at least
one slot, and the pool has that many; words have at least one bit; the blocks form a
tree, in which every block is below the http block; names, values and characters are
classified consistently (Content-Length, Accept-Ranges and Content-Type are one name each,
and none of them stands for another); `NULL` is no value; a value is shorter than the
address space; an array of handlers has each of them once; of any subrequests one is started
by a request that is not among them, so that they form a tree, and the part embedded in a
request is none of the pool's.

*NgxList.* `WellFormed` is inductive: the chain of parts ends in `last` with distinct
addresses; no part is empty unless it is the only one; the parts' spans, a last part's
free room included, are disjoint and inside their blocks; `nalloc` covers the last
part and is at least one. None of the properties is inductive alone: that a push
is safe needs the room to be disjoint, that needs every branch to give `nalloc` the
right value, and that `nalloc` is never zero needs that no part is empty. Each branch
has a lemma; all but the pushes are instances of `Reshape`: cutting spans into pieces
keeps a list well formed.

*The refinement.* The contents of a list are its parts' runs of slots, joined. A removal
replaces one run by none, one or two that together lack one slot, and leaves the others
(`Reslotted`), so the contents lose that one slot and nothing moves (`OneGone`). A push
makes the last run one longer or adds a run of one. `FlattenSeq` is recursive: that it
distributes over concatenation is proved from the least counterexample (`Least`), since a
set of naturals can be a fact where an operator cannot. That the slot pushed holds no header
is `PushSafe`.

*RuleChain.* Ids are indexes, the bitmap's size is the number of rules, and the bit
of a rule is set exactly when it ran and breaks its chain (`LockedIsRan`).

*Sequences.* What `SelectSeq` keeps of a list is stated as a pick of indexes, an increasing
sequence of those that satisfy the condition: tlapm does not expand `SelectSeq`, and a pick
is determined by which indexes it takes (`OneEnumeration`). So a list that gained, lost or
changed one element is compared with the old one index by index.

*RuleConf.* `IInv` ties every array to the counts of the blocks that share it (`Owned`): an
unmerged block's array is its own, and nobody else points to it until it is merged. Of the
rules it says where those of an array were written (`Origins`), and that the list of a block
embeds in the whole of what the file says for it (`AllListed`): it is part of that in the
same order, and whatever conditions are met, its rules run there when they run here, and
nothing else runs there (`Embeds`). So the same rules of both run (`EmbedsRan`).
That is because the bitmap has set only bits of rules that a rule of the block bars
(`OnlyDisabled`), and not necessarily all of them: without memory for the bitmap, none.
What a block's rules are in the file is recursive in the tree of blocks; it is a function,
and unique by the least block at which two such functions differ (`WholesAgree`).

*HeaderRules.* `RequestInv` is the loop's invariant on the list and the count that merging
left: the bitmap has the words the count asks for, the bit of a rule is set exactly when it
ran and breaks its chain, and each rule in front of the index has its verdict. The
conditions of the rules that ran (`MetHere`) are then outcomes for which `Ran` names just
those rules, of the list that merging left and, because it embeds, of the file's.

*The grammar.* A line is the grammar's five parts joined exactly when each token is at the
index that the parts in front of it leave (`Places`). The code's indexes are those of one
reading, and what it checks at them leaves no other.

*ValidateHost.* `Scanned` says per state of the scan what the characters in front of it are,
where the last dot is, and that `port` is what the digits say. Any reading of the value ends
where the scan finds the host's end: a name before the first colon, a literal at the first
closing bracket (`EndIsEnd`). So there is one reading at most, and a character, dot or port
that the code declines is in it.

*ContentType.* `Passed`: of the parameters whose semicolon is in front of the scan none is
a charset, but for those behind an empty parameter. A step takes the scan over one
semicolon, or to the first NAME behind it and spaces, which is where the parameter's name
must be.

*HeadersIn.* `HInv` is `NgxList`'s invariant and `Cursor`: the loop's position is in
the list, at most one element behind a part. With `NoEmptyPart` that makes the
unchecked read of a next part's first element a read of a header, hence each removal
one that `NgxList` allows. `Known` adds what the loop is doing. Through all its rounds the
effect that is still owed, on the list as it is now, equals the effect owed when the rule
was begun (`Owed`); of the headers that the loop has passed, only the matched one is of
names the rule is about, it is the first of them and it has its value (`Seen`). Between
rules every pointer leads to the first header of its name (`Resting`), during one all but
those of names being removed do (`Guiding`). The exception is a pointer that a wildcard
`clear` left behind (`Lost`), where a `set` owes more than it does: the case of `input_set`.
`OneGone` turns each removal of the loop into one header less of the contents.

*HeadersOut.* That a pointer's header is the only live one of its name is not inductive: a
rule that creates a header does so because its scan found none. The invariant says so:
whatever is live under a name with a handler is pointed to (`Owned`), a pointer's slot has
one of the names the pointer stands for (`Named`), and the same of chains (`ChainNamed`,
`Linked`). It holds for an alias because a live slot of the alias's name is pointed to as well.
Each rule is one step, so its effect is what the step does to the picks of the live slots of
a name: none of them changes, the one that is pointed to does, or the pushed one comes behind.
That needs `OInv` to know that the pointer tells whether a live header is there, and where
(`OldIsShown`), and that no Content-Type is ever in the list (`Unlisted`).

*PhaseEngine.* A handler moves at its first call, and a request that waits has called
every handler up to its index. So whatever moves is behind every waiting request: what a
passage has run is what the array holds in front of its index (`InFront`), at any time.

*PostConfig.* `Links`: the master has the filter linked while it reads blocks that need it,
and afterwards if the accepted configuration does and `post_config` was not called since; a
worker has it, or was forked after one call that did not need it, which is the exception in
`FilterServes`.

*Subrequests.* Once a subrequest changes its copy of a list, little can be said of one list
alone: two share parts, and one of them may go on where the other ended. What holds is a fact
of all the memory (`SubInv`): from any set of parts a pointer leads out (`Ends`), so there is no
circle, and no pointer is ahead of the pool (`Pooled`), so a part that is handed out is new to
every list. Each step changes pointers in one of three ways, and each keeps that: an embedded
part gets another's pointer (nothing points to it: `HeadsChanged`), a part is passed over
(`PartPassed`), one is put in between (`PartInserted`). Hence each request has one chain of parts
(`OneChain`), and as the list is read by a bounded recursive function, that it is what `Chain`
computes is proved from the least counterexample too (`ChainIs`). `RemovesOne` then asks of each
of the ways to remove (`Removal`) what it does to the list of *any* request: whether or not the
part it changes is on that list (`OnList`), its runs of slots lose that one slot or nothing.
`MainAlone` needs one thing more, and only as long as no subrequest changes its list
(`AloneInv`): the main request's `last` is the end of its chain. That is what the branches of
`rm_header_helper` take for granted, and what a subrequest's `last` need not be: the case of
`subrequest_assert`. Both invariants were run as invariants of `Subrequests.cfg` first.

Only model-checked:
- liveness (`RuleEnds`, `PassEnds`): TLAPS has no rules for fairness here;
- and the four departures, which are counterexamples.

## 5. Not modelled

- The nginx versions before 1.23, which have arrays in place of chains of headers: the code
  for them is not compiled for later ones.
- `hv->_rt_locked`, which is written and never read.
- The text of values: the compiled value, its trailing NUL, the spelling of names. A rule's
  value is an input, and a condition's outcome too.
- `ngx_array_push_n` without memory (`module.c` 267): the rules would be written behind the
  child's array. What that does is undefined.
- What happens after an undefined step: a push behind a part's block in `Subrequests`, a use
  of the variable that `UNSET` stands for.
- `ddebug.h` and logging, which change no state; the build scripts; the tests, which were
  read as documentation.

## 6. Plan

Every part that keeps state is modelled, and every safety property of a run is proved for all
values of the constants. What is left is a bound on the steps of a rule, the length of what is
left to scan, from which `RuleEnds` would follow but for fairness.
