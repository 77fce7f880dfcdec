# bee.fish: TLA+ models, checks and proofs

bee.fish is a web site with a database of its own. The database is one file that
any number of threads and processes open at once: a binary tree whose paths are
keys, with JSON documents, a word index and logon sessions stored in it. Nothing
but a mutex in shared memory, a map of locks next to it and the order of reads
and writes keeps the file in one piece. That is what these modules are about.
Paths below are under `src/code/`.

## 1. Inventory

### Branch file — `Database/DatabaseBase.hpp`, `Branch.hpp`, `File.hpp`
*State.* The file: `Branch` records (`_parent`, `_left`, `_right`, `_dataIndex`) and
data records (a size, then that many bytes), appended one after the other and
never moved. An index is an offset; 0 is the root branch and, in a link, "none".
*Operations.* Opening writes the root of an empty file. `getNextIndex` appends a
branch, `allocate` appends data, both under the global mutex. `getBranch`,
`setBranch`, `getData`, `setData`, `deleteData`, `deleteBranch` read and write
in place without any lock.
*Hard.* Every update is a read, a change of a local copy, and a write of the whole
record; other handles write in between. A crash can come between any two accesses.
*Correct when* records never overlap, the branches form a forest, every data index
leads to a complete record that belongs to one branch only.

### Path — `Database/Path.hpp`
*State.* A cursor, the index of a branch, over one `Database` object.
*Operations.* `operator[]` and `<<` walk the bits a key is encoded in; `goLeft` and
`goRight` make missing branches (an unlocked look, the global mutex, a second
look). `contains`, `getData`, `setData`, `clear()`, `clear(value)`, `++`, `--`,
`goUp`, `parent`.
*Hard.* Links are changed under the global mutex, data under the lock of the branch
(`Path::ScopedLock`), deletions under nothing: three disciplines for one record.
*Correct when* two handles that write the same bits meet on the same branch, a put
is not lost, and removing one key leaves the others.

### Path locks — `Database/LockFile.hpp`, `Path::ScopedLock`
*State.* In shared memory: a map from index to a recursive mutex and a counter, and
a global recursive mutex.
*Operations.* `lock(index)`, `unlock(index)`.
*Hard.* A thread that is not the first lets go of the global mutex and looks the entry
up again before it waits; entries are erased on the way.
*Correct when* each index has one lock, different indices do not block each other, and
every `lock` returns, as long as its callers do not wait for one another in a circle.

### Shared memory segments — `Miscellaneous/SharedMemory.hpp`
*State.* A named segment with a mutex, a counter of users, and what its owner puts in.
*Operations.* Open or create, count in, lock, count out, remove the name.
*Hard.* The count in is not locked, and the name is removed whatever segment has it.
*Correct when* all who use a name at one time share one segment, and none is left over.

### Timestamps and ids — `Id/Id.hpp`
*State.* In a segment of its own, the last millisecond and increment.
*Correct when* no two timestamps are equal and they come in order, as long as the clock
does.

### Power encoding — `power-encoding/`
Turns numbers and strings into bits. *Correct when* no code extends another (keys then
end at branches of their own) and reading gives back what was written.

### Ordered traversal — `Database/PathBase.hpp`, `Miscellaneous/Stack.hpp`, `Database/Iterable.hpp`
`next`, `previous`, `min`, `max` and iterators, by depth-first walks with a stack of
bits. *Correct when* every key is met once, in order, in both directions.

### JSON documents — `Database/JSONPath.hpp`, `JSONDatabase.hpp`, `JSONPathParser.hpp`
*State.* Below the root: documents, with type, children, properties by position and by
name, pages of strings; an index of the objects below each document and of the owners of
each property. *Operations.* `operator[]` by property or index, setters by type, strings
page by page, `clear`, `deleteProperty`, `truncateArray`; the parser calls them as the
text of a value comes in.
*Hard.* Creation of properties and array items is double checked under the lock of the
document; deletion changes five indexes without one.
*Correct when* a property has one position and a position one property, whoever made it,
and what is read is what was written.

### Word index — `addWords`, `removeWords`, `tokenise`
Counts of each word by document, shared by all documents, read and written without a
lock. *Correct when* a word of a document is found below it and below all it is in.

### Queries — `query/`
An expression of words, `and`, `or`, `not` and brackets is read into a path that walks
several trees at once; the results leave out a document when one inside it is shown.
*Correct when* each document asked for is shown once, in order, and a walk taken up from the index
of a document shows those after it.

### Parsers — `parser/`, `json/`, `web-request/`
Matchers that take a text character by character as it comes in, with callbacks on the way.
*Correct when* a text is accepted with its last character and not before, and the callbacks
come in its order.

### Database pool, authentication — `Authentication/server.h`, `authentication.h`
*State.* Some `Database` objects, each with a mutex, and one mutex used as a wake-up
signal; secrets, users and sessions in the file. *Operations.* `requestDatabase`,
`releaseDatabase`, `logon`, `logoff`, `authenticate`.
*Hard.* The scan and the sleep are separate; the methods read and write without a lock.
*Correct when* nobody sleeps beside a free database for ever, and a session that is
authenticated has the user who logged on.

### HTTPS server, sessions, applications — `https/`
Callbacks of boost::asio and a pool of threads: accept, handshake, read, parse, add to the
file of transactions, respond, restart or `delete this`. Six applications are tried in
order until one sets a status; the response is written later, with another handle.
*Correct when* a session is in one hand at a time, each request is in the file whole, and
each request is answered, with what its own user stored.

### Strings — `b-string/`
Data conversions. Sequential and without shared state.

### Superseded — `DBServer/`, `WebServer/`, `Apache2/`, `https/storage.h`, `Database/Locks.hpp`, `LeastRecentlyUsedCache.hpp`, `Allocator.hpp`, `client/`
Not part of the current build, or in other languages.

## 2. The modules

| module | what it is |
|---|---|
| `Database` | branch file and `Path`, one file access per step |
| `KeyValue` | what they promise to those who put data under keys: a store |
| `LockFile` | `lock` and `unlock` with the map in shared memory |
| `IndexLocks` | what they promise: a recursive lock per index |
| `SharedMemory` | attaching to and leaving a segment |
| `Timestamp` | timestamps, on `SharedMemory` |
| `Document` | documents, their indexes and words, and the parser that writes them |
| `PowerEncoding` | numbers and strings as bits |
| `Traversal` | walks over trees of keys, of one path or several |
| `Matcher`, `Parser` | the matchers of a grammar, and how they take characters |
| `JSONText`, `QueryText`, `Request` | the grammars, and what they tell while they read |
| `Links`, `Results` | ids of documents and links to them; the walk over the results of a query |
| `Reading` | a text read with a grammar, and the walk: the specification of the nine above |
| `Pool`, `Authentication` | the handles threads share; logon, logoff, authenticate with them |
| `Apps`, `Response` | the applications; the answer of a request |
| `Session` | the life of a connection over callbacks and tasks, the file of transactions |
| `Server` | all of the last five, with clients |
| `DatabaseProofs`, `StoreProofs` | theorems on `Database`, the second on the first |
| `LockProofs`, `StampProofs`, `EncodingProofs` | theorems on `LockFile`, `Timestamp` and `PowerEncoding` |
| `TransactionProofs`, `TypeProofs`, `AnswerProofs` | theorems on `Server`, each module on the one before it |
| `MC...` | instances for TLC |

`Database` and `LockFile` are the ground: `Document` takes keys and locks as what they
implement (a key is read or written in one step, a lock is recursive and belongs to one
thread), and `Server` takes a document written as one step.

### Database
| model | code |
|---|---|
| `branch`, `blob`, `size` | the file: branch records, data records, its length. Offsets are record numbers; only equality and order of offsets matter. A data record has a `size` and a `body`, `NoValue` until its bytes are written |
| `mutex` | the mutex of the segment, `LockFile::ScopedLock` |
| `h[p]` | a handle: one thread with a `Database` object. Its cursor, local copies of branches (`copy`, `spare`), the index it is appending at (`fresh`), the branches still to delete (`todo`, the recursion of `deleteBranch`), `lastIndex` and `lastBit` of `clear(value)` (`fork`, `side`), whether it holds `Path::ScopedLock` (`locked`) |
| `Open`, `Create` | the constructor of `Database` |
| `Start` | the caller: `path[k]`, `path[k].setData(v)`, `path.contains(k)` and `getData`, `path[k].clear()`, `path.clear(k)` |
| `Go`, `Claim`, `GetNextIndex`, `SetLink` | `goLeft`, `goRight` |
| `Load`, `Allocate`, `WriteHeader`, `WritePayload`, `SetBranch`, `Rewrite` | `setData`, `allocate` |
| `DeleteDataRead/Write`, `DeleteBranchRead/Parent/Write`, `Clear` | `deleteData`, `deleteBranch`, `clear()` |
| `ContainsBit`, `Trace`, `Prune` | `contains`; the rest of `clear(value)` |
| `GetBranch`, `GetData` | `getData` |
| `Crash` | every process ends between two accesses and the segment is removed (reboot, or `-reset`) |

One step is one access to the file. What is merged: taking a mutex with the first read
under it (nothing observable lies between them), the last write with the release, the
read of a data record with the read of its branch in `Load` (only holders of the same
path lock change a data record in place), and the root read in the constructor of
`Contains`, which is read again for the first bit. `getNextIndex` locks a recursive
mutex its caller has; that is no step. Path locks are `PathLocked`: that a lock map gives
one lock per index is what `LockFile` checks. A key is the sequence of bits its encoding
writes.

### LockFile
`map`, `global` and the scopes of each thread (`held`). `Lock` is the global mutex and the
counter, `LockFirst` the wait under the global mutex, `LookUp` and `LockWait` the
second lookup and the wait without it, `Unlock` and `Drop` the two halves of
`unlock`. Assumed of the callers: scopes nest. The indices of a thread come in any order, so that threads can wait
for one another in a circle (`Stuck`); whether they do is a matter of their callers, of which `LocksDown` of
`Document` speaks. A lookup is atomic, also beside a thread that
changes the map: what a lookup in a tree under rotation does is undefined.

### SharedMemory and Timestamp
`SharedMemory` numbers the segments made under one name. A user is an object of any thread
or process. `CountRead` and `CountWrite` are the two halves of `++(*_counter)`.
`MaxActive` says how many users may be in a constructor or destructor at a time.
`Timestamp` adds the clock, which ticks and may be set back, and the values in the segment.
`steady` is the condition under which timestamps can be unique: the clock was never set
back and no segment was made anew in a millisecond that had timestamps already.

### Document
| model | code |
|---|---|
| `doc[n]` | what is stored under the id of a document: type, properties with their positions (`names`) and the reverse (`slots`), count, children by position (`kids`), pages of a string, its parent, whether its words and those of its children are indexed |
| node 0, 1, 2 | the root, an origin, the root document of a user, where operations start |
| `objects`, `owners`, `words` | `objects()`, `properties()`, `words()` |
| `held` | `Path::ScopedLock` of a document: recursive |
| `stack[p]` | what a thread has still to do: a call is a frame; a step runs the top one and puts the calls it makes in its place |
| `reg[p]` | the stacks of `JSONPathParser` (`paths`, `indexes`, `keys`, `types`) and what calls return |
| `Begin`, `Push`, `ObjectKey`, `ObjectValue`, `ArrayValue`, `Assign`, `BeginString`, `Text`, `EndObject`, `EndArray`, `Pop`, `Outermost` | the callbacks of `JSONPathParser` |
| `Find`, `Insert`, `Name`, `Child`, `Reach` | `operator[]` by property: a look, the lock, a second look |
| `Item`, `Grow`, `Counted`, `Truncate` | `operator[]` by index, `truncateArray` |
| `Retype`, `AddObject`, `RemoveObject` | `setType` and the index of objects |
| `AddRead`, `AddWrite`, `TakeRead`, `TakeWrite`, `TakeClear` | `addWords`, `removeWords`: a count is read in one step and written in another |
| `SetPage`, `WritePage`, `EndString` | a string by pages, with the word that goes on from one page to the next |
| `Clear...`, `Wipe`, `Delete...`, `Forget`, `Undefine` | `clear`, `deleteProperty`, `setUndefined` |

One step reads or writes at most one key that another thread may write, and whatever only
the holder of the lock may. `null` stands for all types without content. Two operations run
at the same time if they are of one `group`; those of the group `alone` (removals, arrays
that end, strings over strings) run with no other. `before` and `log` are history, and so is `astray`: the
counts of words that may be too low, because two threads counted at once (`Meet`) or because of what `setString`
does at the boundary of a page it keeps (`Cut`, see "Where the code does not do what it says").

### Reading
`Matcher` has the shapes of matchers (a character, a word, a sequence, a choice, a repeat, an
optional part), `Parser` how they take a character (`Feed`) and the end of the text (`Eof`):
a match is a value, and feeding it gives the match after the character and the events told.
`JSONText`, `QueryText` and `Request` are the grammars of `json/`, `query/` and
`web-request/` with their callbacks. `PowerEncoding` writes numbers and strings as bits and
`Traversal` walks over trees of such keys: a node of a path is the set of keys below, or two
paths joined by and, or, not. `Results` is `query/Iterable.hpp` on top, `Links` the ids and links of
`JSONPath` and of the search page. `Reading` ties them together: `ReadCharacter` and `ReadEof` are
`Parser::read` and `Parser::eof`, `BeginWalk` and `AdvanceWalk` the loop over the
results of a query, `TakeUpWalk` `begin(from)`, `ReturnWalk` the iterators that go back. The index `begin` is given is that
of any document: what the link to the next page has for one is never set. `setValue` without `JSON_INDEX` calls
`toString(parent)`, a member of the class around it, without an object (`query/Iterable.hpp` 378, 384), so that this build
seems not to compile as it stands; it is modelled by what it means. The alphabets have one character for each case the grammars tell apart. A
text is any beginning of one of `Texts`, or any text at all up to the length `Loose`.

### Server
| model | code |
|---|---|
| `databases`, `signal`, `ask[t]` | `Pool`: the mutexes of the handles, `_databaseLock`, a call of `requestDatabase` or `releaseDatabase` |
| `secrets`, `seen`, `auth[t]` and its steps | `Authentication`: secrets, sessions in the file; an `Authentication` object. One step per access with a handle |
| `storage`, `json`, `app[t]` | `Apps`: the pages a user posted under a key, his document; the application a thread is in. `n` is its place in the order of `main.cpp` 94-104 |
| `answer[c]`, `up[c]` | `Response`: what the client has received; whether it is there |
| `session[c]`, `queue`, `thread[t]`, `coming[c]` | `Session`: the session object, the tasks of the pool of threads, the bytes that came in |
| `mutex`, `transactions` | `_mutex`, the file of transactions |
| `HandleAccept`, `HandleHandshake`, `HandleRead` | the callbacks; one thread runs them (`main.cpp`, one `io_context.run`) |
| `TakeTask` ... `CloseOrRestart`, `HandleException` | `threadedHandleRead` and what it calls |
| `client`, `cookie`, `plan`, `posted`, `known` | the clients, and history: external |

A client sends its requests one after the other, each in one or two parts, and waits for an
answer before the next (what is left in a buffer behind a request is lost when a session
restarts, so clients that pipeline are not served). Bodies that do not parse, a
temporary file that does not open, and a query that cannot be read are attributes of a request (`broken`, `fails`, `valid`).
`_databaseLock` is unlocked by threads that do not own it, also when it is not locked: this is
undefined, and modelled by what the build does, a flag that is set again. Release sets the
flag, a thread that found no handle sleeps until it can clear it.

## 3. What the runs check

| run | instance | checks | about |
|---|---|---|---|
| `DatabaseForest` | 2 handles, keys 1 and 11, values of two sizes, all operations, 2 each, 1 crash | `TypeOK`, `WellFormed`, `Inv`, `DataPrivate`, `ExtentsFixed` | the file under every interleaving |
| `DatabaseStore` | 2 handles, keys 10 and 11, 3 values of two sizes, 2 puts each, 1 crash | `ImplementsStore` | refinement of `KeyValue` |
| `DatabaseWalk` | 3 handles, keys 10 and 11, 1 operation each | `CursorAtKey`, `LinksStay`, `OperationsEnd` | `goLeft`/`goRight`, liveness |
| `DatabaseClear` | 1 handle, keys 10, 110, 111, 5 operations, 1 crash | `KeyCleared`, `OthersRemain` | `clear(value)` alone |
| `DatabaseClearing` | 2 handles, keys 10 and 11 | violates `OthersRemain` | `clear(value)` beside an insertion |
| `DatabaseLinks` | 2 handles, keys 1 and 11 | violates `LinksStay` | `setData` beside `goRight` |
| `LockFile` | 3 threads, 2 indices, 2 locks each, in any order | `TypeOK`, `EntryKept`, `MutexHeld`, `GlobalBrief`, `ImplementsLocks`, `LockReturns` | the lock map |
| `Timestamp` | 3 users, 2 segments, clock 0..2, 3 timestamps, 1 step back, one in constructor or destructor | `StampTypeOK`, `Exclusive`, `OneSegment`, `NoneLeft`, `NoDuplicates`, `InOrder` | segments and timestamps |
| `TimestampRace` | the same, two in constructor or destructor | violates `Exclusive` | the unlocked counter |
| `Document` | 2 threads, 15 values, 3 operations, up to 2 at a time, 14 nodes | `TypeOK`, `OnePosition`, `ReadsBack`, `ObjectsExact`, `WordsFound`, `LocksDown` | documents and their indexes |
| `Reading` | JSON, queries, requests with a JSON body and with one of bytes; pages of 2 characters; any text of 2 characters (requests: 1) | `TypeOK`, `TextsRead`, `ResultExact`, `LinksFollow`, `RequestRead` | matchers, keys, walks |
| `Server` | 2 threads, 2 connections, 1 or 2 browsers, 1 or 2 handles, 19 plans | `TypeOK`, `OneHandler`, `Transactions`, `OwnAnswer`, `Served`, `Answers` | the server from accept to answer |

What the last three say, and two of the locks:
- `LockReturns`: a call of `lock` returns, unless threads wait for one another's indices. What it excludes is a wait of
  `LockFile`'s own making: behind the global mutex, or for the mutex of an entry that was erased.
- `LocksDown`: a thread that writes documents locks one only while the documents it has locked are above it, so that threads do
  not wait in a circle. `setUndefined` is excepted, which has the child when `deleteProperty` locks the parent.
- `OnePosition`: a property has one position and one child, at every step, whoever makes it.
- `ReadsBack`: when no operation is running, what is read is what the operations that ran
  since the last such moment leave when they run in some order. `Written` is the reference:
  objects are merged, arrays and strings replaced.
- `ObjectsExact`: then the index of objects has each document with a value below itself and below each node
  above it, and nothing else.
- `WordsFound`: then each word of a string or property is found below its document and all it is in.
  Excepted are exactly the counts (a word at a document) that two threads read and wrote at once, as they are incremented
  without a lock, and the words at the end of a page that a string kept when the page after it changed. All other words of the same
  operations are checked. Without either exception the run finds the word missing.
- `TextsRead`: a JSON text is accepted with its last character, not before, and its events, put
  together, are one of the values the text was made from.
- `ResultExact`: a query, evaluated on sets, gives the documents; the walk over
  bits shows those with no other of them inside, in order; from the index of a document it shows those after it, and is
  refused just when the query does not ask for that document; `count` counts them. Backwards every one of them is shown.
- `LinksFollow`: the link shown for a document leads to it.
- `RequestRead`: a request gives the method, path, search, headers and body it was made of.
- `OneHandler`: an open session waits for bytes, is in the queue, or is at one thread.
- `Transactions`: requests are whole in the file, and a POST is there when it is answered.
- `OwnAnswer`: who is told to be logged on is the user of his secret and gets what was posted
  with it, whole. Excepted are a session cleared while it was authenticated, the first logon
  with a secret made twice at once, and a text posted while it was read; see below.
- `Served`, `Answers`: a wait for a handle ends; a request sent whole is answered. Excepted are a DELETE, a query that
  cannot be read (`Unfinished`), and a text changed while it is sent; see below.

Bounds. Two handles are enough for a stale copy and its overwriter, and for a
crash of both halfway; the third in `DatabaseWalk` lets a handle pass while two contend. Keys
of two bits give a fork below the root and a key that extends another; `ThreeKeys` has a
fork below a fork. Two operations each let a handle meet what it left itself. Values of
equal and of different size take setData through all four of its ways. One crash cuts
every operation at every access. Three threads on one index are an owner, a waiter and a
newcomer while the entry is being erased. Two segments are one removed and its successor.

In `Document` two threads create the same property and the same items, and share a child of an object, at
once (the first two operations), and the third works on what they left. The values have an
object in an object, an array, a property that becomes another type, strings of one and of two pages with a
word over the boundary, written over one another with the same first page and with another, and removals on both levels. Who finds no node
free would stand still, which the check for deadlocks excludes. In `Reading` there are eight
documents with ids, among them one inside another, one with a capital in its name, and two
users; queries have up to four words and all operators, so that and, or, not and brackets
nest. In `Server` the first plan takes one client through each application and method; the
others have two requests at once that share a handle, a session, a secret or a stored text, and
clients that go away, and sessions that expire, at any step.

`Timestamp`, `Reading` and `Server` stop when their users have done all they may, therefore they do not check
deadlock; `Served` and `Answers` say of the server that nobody waits for ever. In the other runs
a step `Finished` (in `Document`, `Done`) marks the end of all work (in `LockFile` also threads that wait for one another's indices), so that any other standstill is a deadlock.

### Where the code does not do what it says
Three are shown by runs:
- `DatabaseLinks`: `setData` writes back a branch it read before another handle stored a
  link in it (`Path.hpp` 527, 543): the link is zero again and the subtree lost. It takes
  a key that extends another, as the properties of a document extend the document.
  `DatabaseWalk`, with keys none of which extends another, shows that it does not happen
  there.
- `DatabaseClearing`: `clear(value)` deletes the branch below the last fork it saw
  (`Path.hpp` 633-665); a key inserted there meanwhile goes with it. `DatabaseClear`
  shows the algorithm right for one handle.
- `TimestampRace`: a segment opened but not yet counted, or miscounted, can be removed
  (`SharedMemory.hpp` 58-77, 99-107); later users get another, and locks on one file no
  longer exclude each other. The server opens its databases from one thread
  (`Authentication/server.h` 92-100), which is the case `Timestamp` covers.

These runs do not contradict `WellFormed`: what is lost is lost whole, and the file stays
a forest. That is what is proved.

The models have more that a reader should know, as it shapes what the properties may say:

*Documents.* Conflicting types written to one path at once, and removals beside other operations, leave a mixture: hence
the groups. A page of a string that is as it was is kept and does not go through `addWords` (`JSONPath.hpp` 537-572), so `partWord` does not
get its last word: when the next page changes or is gone, the word at the boundary is not indexed, and that of the old string is taken
out in part (`"y|x"` over `"y|y"`, with a page for each letter, leaves no "yx"). A page that ends in a blank joins its last word with the first of the next.
Array items get words of the properties above them that `clear` and `truncateArray` do not take
back (`Test.hpp` 2741 expects them gone). `{"a":undefined}` for a property that is not there leaves
an entry for it. `operator[](Index)` on an object with a deleted position makes a child nobody finds.
`setUndefined` locks the child and then, in `deleteProperty` and `setType`, its parent (`JSONPath.hpp` 400-416), `operator[]` the
parent and then the child (254-272, 1249-1264): two threads, one of which removes the property the other is making, can wait for each
other for ever. `LocksDown` excepts it; no run has a removal beside another operation. `{"my":1}` does
not translate "my", while it does for strings and objects.

*Texts.* Optional parts that fail are dropped, so `[1,]`, `[-]`, `{"a"}` and `1e` are JSON, and `[1,{]`
begins an object that does not end. `"\/"` takes the quote behind it. A GET without headers is
not complete before the connection ends, and a header with an empty value ends the headers. A request whose
JSON does not parse succeeds without JSON. `DELETE` has no alternative of its own in `Request`: it behaves
as OPTIONS does there. Words of a query that begin with "and", "or" or "not" are
an operator and a rest; an operator where a path is expected is cast to a path
(undefined: the reading stops there, "wild").

*Queries.* Of two documents whose names differ only in case one hides the other. `previous` passes over a
key that ends where it has just gone left (`Test.hpp` 2121 expects 3); ids of documents do not come to
that. The page of a search gives the id of the grandparent for a document inside `{http}`. Paging
does not work: the link to the next page has `it.index()` after `++it` (`response-stream.h` 272-297), the document that comes first there, and
`begin(from)` starts after the document it is given (`query/Iterable.hpp` 298-313), so that one would be left out; and
`_index` is never assigned in `query/Iterable.hpp` but from another iterator, so the link has an index that means nothing.
`TakeUpWalk` and `ResultExact` are about `begin(from)`, for any index.

*Server.* A DELETE is read as a body without end, so it is never answered and `StorageApp`'s branch for it is never
reached, though `allow-methods` announces it. The first logon with a secret made twice at once makes two
users; `logoff` while another request authenticates leaves a session with no user,
and if it comes between the look for the time and its reading, the time is read from the memory of
an empty string. A stored text that is changed while it is sent
ends short of the length announced, and the client waits. A query that does not parse, or a `next` that is no number, throws
after the headers of a chunked content are sent (`Query.hpp` 596-597 from `response-stream.h` 149 and 172; `std::stol` at 218, where
only an `InvalidStackException` is caught). `Response::handleResponse` logs it and goes on (`response.h` 92-115), the last chunk is
not written, and a client that keeps the connection waits for ever. Chunked contents of a whole number of
pages have the last chunk twice. `FileSystemApp` does not look at the method, and "/x" is the
file system's unless there is a search.

### Fairness
`FairSpec` of `Database`: weak fairness of each handle's steps inside an operation; that is
the scheduling of a thread that is not blocked, as both mutexes are modelled by guards. It
is weak, so nobody is promised a contended mutex: `OperationsEnd` holds because contention
ends, every handle having a bounded number of operations. It does not make a handle
start anything, and there is no crash in that run. `LockFile` likewise; a thread that
holds a lock and is not waiting is also taken to leave its scope, as all scopes of the code end. `Server`: weak fairness of each thread of the
pool and of the one thread that runs the callbacks. Clients are not fair: they may stop at any time, and
`Answers` holds nevertheless. Two threads that wait for one handle are served because each request ends.

## 4. What is proved

For any values of the constants (threads, handles, keys, values, indices, users, plans, bounds):

| module | theorem | statement |
|---|---|---|
| `DatabaseProofs` | `InvCorrect` | `Spec => []Inv` |
| | `TypeCorrect` | `Spec => []TypeOK` |
| | `ForestCorrect` | `Spec => []WellFormed` |
| | `ExtentsCorrect` | `Spec => ExtentsFixed` |
| | `DataCorrect` | `Spec => []DataPrivate` |
| `StoreProofs` | `CursorCorrect` | `Spec => []CursorAtKey`, of `NoDelete` and `PrefixFree` |
| | `LinksCorrect` | the same for `LinksStay` |
| | `StoreCorrect` | the same for `ImplementsStore` |
| | `StoreOfCodesCorrect` | the same for keys that are codes: `NoDelete` and `Key \subseteq Encoding!Code` |
| | `ClearedCorrect` | `Spec => KeyCleared`, of `OneHandle` |
| | `OthersCorrect` | `Spec => OthersRemain`, of `OneHandle` and `PrefixFree` |
| `EncodingProofs` | `KeyEnds` | the count of `writeBit` is zero at the end of a code and nowhere before |
| | `CodesPrefixFree` | no code of a number or a string extends another |
| | `NumberReadBack` | `Decode(Encode(v) \o s) = [value ↦ v, rest ↦ s]` |
| | `StringReadBack` | `DecodeString(EncodeString(t) \o s) = [value ↦ t, rest ↦ s]` |
| `LockProofs` | `TypeCorrect` | `Spec => []TypeOK` |
| | `EntryCorrect` | `Spec => []EntryKept` |
| | `MutexCorrect` | `Spec => []MutexHeld` |
| | `GlobalCorrect` | `Spec => []GlobalBrief` |
| | `LocksCorrect` | `Spec => ImplementsLocks` |
| `StampProofs` | `StampTypeCorrect` | `OneAtATime => (StampSpec => []StampTypeOK)` |
| | `SegmentCorrect` | the same for `OneSegment` |
| | `ExclusiveCorrect` | the same for `Exclusive` |
| | `RemovalCorrect` | the same for `NoneLeft` |
| | `OrderCorrect` | the same for `InOrder` |
| | `UniqueCorrect` | the same for `NoDuplicates` |
| `TransactionProofs` | `HandlerCorrect` | `Spec => []OneHandler` |
| `TransactionProofs` | `TransactionsCorrect` | `Spec => []Transactions` |
| | `HandlesCorrect` | `Spec => []OneHolder` |
| `TypeProofs` | `TypesCorrect` | `Spec => []TypeOK` |
| `AnswerProofs` | `OwnAnswers` | `Spec => []OwnAnswer` |

Assumptions are the named ASSUMEs of the modules (keys are non-empty sequences of bits, sizes
and bounds are numbers, no thread, handle, user or value is the "none" of its kind, the plans of the
clients are sequences of requests to a server with at least one handle, as `main.cpp` has it), and four hypotheses that stand in the theorems.
`PlansAssumption` of `Server` says of a plan that it begins with what a server leaves: as many users as secrets that have one,
no two with the same, session ids and cookies of users who logged on; and that there are finitely many connections.
The hypotheses:
- `OneAtATime` of `StampProofs`: users are finitely many, and one at a time is in a constructor or
  destructor. It is needed, as `TimestampRace` shows.
- `NoDelete` of `StoreProofs`: the handles insert, put and get. It is needed, as `DatabaseClearing` shows:
  beside deletions keys get lost.
- `OneHandle` of `StoreProofs`: there is one handle at most; its operations are any, the deletions included. It is needed by
  `OthersCorrect` for the same reason.
- `PrefixFree` of `StoreProofs`: no key extends another. It is needed, as `DatabaseLinks` shows. The keys
  under one path of a document are of this kind, as no code of `PowerEncoding` extends another
  (`CodesPrefixFree`, from which `StoreOfCodesCorrect` follows); a path and the paths below it are not.
  `ClearedCorrect` does without it; `OthersCorrect` does not, for clearing a key takes those that extend it with it.

*The file.* `WellFormed` alone is not inductive: a handle that writes a branch back may
write anything it has in its hands. `Inv` says what that is (`HandleOK`): a copy a handle
will write is sound (`SoundAt`: its links lead to children of that branch, its data index
to a complete record) even if it is stale, and a record a handle is appending is at
the end of the file because it holds the mutex. Three lemmas carry the rest. Records only
accumulate (`RecordsKept`), so a sound copy stays sound whatever others do (`SoundKept`,
`HandleKept`). A step that leaves the file alone must only leave its own handle sound
(`ReadKeepsInv`); one that writes a branch must write a sound copy
(`WriteBackKeepsInv`). Each action is then one lemma, and `ExtentsFixed` follows from the
same invariant. `DataCorrect` stands on it: `Private` says that the file and all copies together lead
to a data record from one branch only. An index goes only from a branch to a copy of it and back,
and the one that comes new is the end of the file.

*The store.* A walk is a recursive function of its bits (`NodeAt`). `StoreInv` says that each handle stands
where the bits it has passed lead now (`WalkOK`); that a copy it is about to write back has the links the branch has
now; that the data it is putting, fresh or in place, are those of the
record (`PutOK`); and that one handle at a time has the path lock of a branch (`OneWriter`). It is
inductive because two walks that arrive at one branch are of the same bits (`WellFormed`: a branch has one parent), so
that with prefix-free keys no handle on its way stands where another has arrived, and nobody stores a link below
a branch that is written back whole. A walk that arrives goes on to arrive at the same branch, since
links stay. The refinement maps the value of a key to the data where its walk ends and the value pending to
that of the handle that holds the path lock there; a crash in the file is a crash of the store. Facts about all walks
need induction: `SeqInduct` derives it from the well-foundedness of numbers, for a set of sequences in place of the
statement that an induction theorem would have as an operator.

*Clearing.* `SoleInv` is for one handle that may do anything. It stands where its bits lead (`Stood`), and a copy it will write back
has the links of its branch (`Copied`), as nobody else writes. What remains is which branch `clear(value)` takes out. On
its second walk it remembers the last branch with two links that it has passed (`Forked`), and deletes the branch that its key takes
from there. That branch is on the walk of its key, and so is each parent that runs empty after it; or it is the root, for want of
a right link, and then the only one (`Doomed`). Once a branch on a walk is cut off the walk does not arrive, which is `KeyCleared`. Two keys of
which none extends the other part at a branch with two links (`Parting`), so below the last fork of one
no other passes (`ForkLeads`), and no branch still to be deleted is on the walk of another key (`Safe`). That stays so because
taking out a branch changes only the walks through it, and its children are reached by none afterwards (`CutElsewhere`,
`CutPasses`, `CutBelow`).

*Encodings.* A code is an item (`Item`): read from its start, the ones exceed the zeros up to its last bit, where they are as
many. A number after its first bit is a word (`Word`): the zeros first exceed the ones with its last bit, since `Write` is
a zero, or a one before two words. The bits of a string are items one after the other, between a one and a zero. An item that
another extends would have a place before its end where ones and zeros are as many. The converse, that reading is the inverse of writing,
goes by induction over the number (`ReadWritten`) and over the first characters of the string.
The recursive functions are CHOOSEs to the prover. `Recursion` shows that a function exists on the numbers whose value
goes back to two smaller numbers, and `BitsRecursion` one on sequences of bits whose value goes back to what reading leaves of them,
which is shorter (`Short`): with that, each definition becomes its equation (`Exp2On`, `WriteOn`, `ReadOn`, `CharactersOn`).

*The locks.* The counter of an entry is the number of its tickets (`Tickets`): one for each scope a thread has on the index,
one for a call it is in. A lock turns the ticket of a call into one of a scope, an unlock does the
reverse, and an entry goes with its last ticket (`Counted`). Hence a thread that found nobody counted is
alone until it lets go of the global mutex (`Alone`), and its wait never blocks (`GlobalBrief`). The
refinement maps the owner and depth of an index in `IndexLocks` to those of its entry, and to nobody where there is none.

*Segments.* While one user at a time comes or goes, what it read of the counter is still the counter when it writes
(`Register`), the counter is the number of users inside (`Count`), and all of them are in the
segment that has the name (`Named`). Timestamps: the last one made is what the segment says, or none since
it was constructed (`LastIsLast`, `Constructed`), and nobody reads an earlier clock than a stamp was made from while it
is steady (`ClockRead`, `NotAhead`).

*Sessions.* That the hands add up to one is not fit for a proof; that no two of them have a session
(`Alone`, in pairs) and that one has it as long as it is open (`Kept`) is. The sum follows at the end.

*Transactions.* `Transactions` speaks of the file, `FileInv` of where each request is before it gets there. Its
parts that were sent have not come in, are with a task, or are in the session's request, and they add up
(`Unread`); a thread deals with it when all are there (`Dealt`), before it copies nothing of it is in the file, and
after it all is. `HandInv` of `TransactionProofs` says that no two threads have one session, so that one of
them copies a request. The thread that copies has `_mutex`, and the file ends with the parts it has copied (`Copying`);
while nobody has it the file ends with a whole request (`Filed`). A client that has its answer may send the next
request before the thread that answered is through: `Dealt` allows for it.

*Handles.* `OneHolder`, which no run checks, is what `Served` needs of safety: a handle is had by one thread, and none stays
locked when a task ends. `PoolInv` says that the lock of a handle names who has it (`Locked`), that a thread which is
not answering is outside the pool, and how far the applications are (`Applies`): each of their steps asks for a handle while
it has none, gives back the one it has, or does neither (`PoolMove`), and an answer ends only outside the pool.
That needs the requests, too, as `StorageApp` is modelled for GET and POST: OPTIONS is answered before it, and a DELETE is
never read to its end (`Tends`).

*Types.* `TypeOK` of `Server` needs more than ranges. That the page a thread stores is one of the text follows from the length of the
request it deals with, which is one of a plan with the cookie of its browser (`Carried`); that a method of `Authentication` has an id or a
secret to read by follows from how it came there (`IsAuth`), and who a thread stores for from `authenticate` having returned (`Placed`). A part that is
sent is of a page that has a size, and an answer announces a length unless it is in chunks (`IsAnswer`). The parts a session has read are at most
those of the request (`Sized`), because those that were sent are (`FileInv`). The queue is no longer than there are connections since no two tasks are of
one (`QueueBounded`, from `HandInv`).

*Answers.* `OwnAnswer` compares an answer with all that was posted, which is long after a method of `Authentication` read a user
and `StorageApp` a text. What such a copy still says is in two invariants. `WhoInv` says who is who: a user is that of one secret, and of
no other, however long ago it was read (`Belongs`), but for a secret two found without a user; a session id, in a cookie, in a request or
with a thread, is of a user of the secret it was given for (`SessionOf`), unless it was cleared; and what each method of
`Authentication` has read so far agrees with that (`Enters`, `Shows`). It is inductive because what is known of users and ids lasts
(`Lasting`): a step adds users, or marks the ids and secrets it spoils as raced.
`TextInv` says of texts: a request under way was posted (`Posts`); a text that nobody is changing and that is not torn (`Rests`) is empty or
all of one that its user posted (`TextIs`, `Storing`); a thread that changes it has written the first pages of what it was sent (`Writes`), one that
reads it has so far the first pages of one that was posted (`Finds`), or knows that they are mixed. A thread that begins to change a text marks every reader
as mixed, and is torn with every other that changes it (`OthersTelling`), so what the others have read need not be of the text as it is now.
At the end the length of what was read is a sum over its parts, a fold: its equation (`Lengths`) is
proved by induction over a set of numbers (`NumberInduct`), as `SeqInduct` does it for sequences.

Model-checked only:
- liveness and what speaks of `ENABLED` (`OperationsEnd`, `LockReturns`, `Served`, `Answers`): outside the prover's logic;
- `Document` and `Reading`, whose operators `Read`, `Written`, `Events` and `Feed` are RECURSIVE: the prover loses its arithmetic
  in a module that has one. Functions that are recursive it can unfold, as it does with `NodeAt` and `Write`.

## 5. Not modelled
- Writes lost or reordered by the operating system in a power failure, and a write torn
  within one record: a write is atomic and durable here.
- The death of one process while it holds a mutex in shared memory: the code has no
  recovery; everyone waits until `-reset`.
- A full shared memory segment, I/O errors, read-only databases.
- A getData that reads bytes while they are overwritten in place.
- The build with `JSON_INDEX` (only `make debug` defines it). There `keyToString` asks for a second handle
  while its caller has one, so that as many requests as handles wait for each other, and `count()` of results does not end.
- Numbers from 2^49 - 1 on as keys: `power` takes `log2` in double precision, which rounds up below such a power of two.
  The numbers of `PowerEncoding` are the code's below it. Bytes from 128 on in a string: as `char` they are negative where
  it is signed, and `log2` of a negative number is none. A character is a number here.
- Images and sounds in base64, text of logs, headers and dates, UTF-8 and hex: conversions without
  state that no property is about.
- `min`, `max` and `countQuick`; the random numbers of ids; the variables of `Script`, which
  the server does not use; the command line; the encryption of connections.
- Documents in `Server` are written in one step, as `Document` has their interleavings; each user has one
  document and one stored text there.
- The superseded sources of the last part of the inventory.

## 6. What is left
1. `getData` and `setData` in pieces, with a property for readers of a record overwritten in place.
2. The build with `JSON_INDEX`, and nested requests for handles with it.
3. A version of `Document` without recursive operators, to prove `TypeOK` and `OnePosition`.
