-------------------------------- MODULE Http --------------------------------
(***************************************************************************)
(* The HTTP API: what each route accepts, does and answers, the filters of *)
(* a listing and its pages.  A create is served step by step, beside any   *)
(* other request; the other operations of the engine are one step here     *)
(* (their steps are in Engine).                                            *)
(*                                                                         *)
(* A JSON object is a function from its fields to values; a value is its   *)
(* type and the text fieldString gives it, a sequence of characters.       *)
(***************************************************************************)
EXTENDS Integers, Sequences, FiniteSetsExt, SequencesExt

CONSTANTS
    Project,        \* the projects requests name, the default one is ""
    Name,           \* the class names requests name
    Invalid,        \* the projects and names with a character not allowed
    Body,           \* the JSON objects requests carry
    Queries,        \* listings: sets of filters, ci, limit, offset
    Malformed,      \* a body that is no JSON object
    Absent,         \* a parameter that is missing or no number
    Creator,        \* the goroutines that serve requests to create objects
    MaxBulk,        \* maxBulkObjects
    DefaultLimit,   \* objects in a page when the listing names no limit
    PageSize,       \* the limit of the client that pages
    MaxObjects      \* bound: ids handed out, over all classes

ASSUME HttpAssumption ==
    /\ IsFiniteSet(Project) /\ IsFiniteSet(Name)
    /\ Invalid \subseteq Project \union Name
    /\ Absent \notin Int
    /\ MaxBulk \in Nat /\ MaxObjects \in Nat
    /\ PageSize \in Nat \ {0} /\ DefaultLimit \in Nat \ {0}

VARIABLES
    classes,    \* the classes, with their projects
    objects,    \* the objects of each class: stored bodies by id
    counters,   \* idgen.Generator.counters
    creates,    \* each create in progress: its class, the ids it has and wants
    logged,     \* the highest id of a put the log holds, of each class
    pager,      \* a client that pages through a class
    raced       \* history: a class was dropped under a create that had an id

store == <<classes, objects, counters, creates, logged, raced>>
vars == <<store, pager>>

Scope == Project \X Name
Id == 1 .. MaxObjects
NoObjects == <<>>       \* the function with the empty domain
Creation == [scope : Scope, want : Nat, ids : Seq(Id)]
NoCreate == [scope |-> <<>>, want |-> 0, ids |-> <<>>]
NoQuery == [filters |-> {}, ci |-> TRUE, limit |-> Absent, offset |-> Absent]
NoPager == [scope |-> <<>>, query |-> NoQuery, got |-> <<>>, began |-> {},
            done |-> FALSE]

-----------------------------------------------------------------------------
(***************************************************************************)
(* Filters.  A filter has a field, a kind and an argument.  fieldString    *)
(* gives every value its text but null.  Case is that of ASCII letters.    *)
(***************************************************************************)
Upper == <<"A", "B">>
Lower == <<"a", "b">>
Char == Range(Upper) \union Range(Lower) \union {"1", ".", "\n"}

Filter == [field : STRING, kind : {"eq", "like"}, arg : Seq(STRING)]
Query == [filters : SUBSET Filter, ci : BOOLEAN,
          limit : {Absent} \union Int, offset : {Absent} \union Int]

ASSUME RequestAssumption ==
    /\ Queries \subseteq Query
    /\ \A b \in Body : \A f \in DOMAIN b : b[f].text \in Seq(Char)

\* strings.ToLower, and the letters (?i) takes for one.
ToLower(c) == IF \E i \in DOMAIN Upper : Upper[i] = c
              THEN Lower[CHOOSE i \in DOMAIN Upper : Upper[i] = c] ELSE c
Fold(c) == {d \in Char : ToLower(d) = ToLower(c)}

Lowered(text) == [i \in DOMAIN text |-> ToLower(text[i])]

\* Mutant: LIKE's other characters are not quoted.
LikeUnquoted(pattern, ci) ==
    [i \in DOMAIN pattern |->
        CASE pattern[i] = "%" -> [many |-> TRUE, of |-> Char]
          [] pattern[i] \in {"_", "."} -> [many |-> FALSE, of |-> Char]
          [] OTHER -> [many |-> FALSE, of |-> IF ci THEN Fold(pattern[i])
                                                    ELSE {pattern[i]}]]

(***************************************************************************)
(* likeToRegex: an anchored sequence of atoms, each with the characters it *)
(* takes, once or many times; under (?s) a dot takes a newline as well.    *)
(***************************************************************************)
likeToRegex(pattern, ci) ==
    [i \in DOMAIN pattern |->
        CASE pattern[i] = "%" -> [many |-> TRUE, of |-> Char]
          [] pattern[i] = "_" -> [many |-> FALSE, of |-> Char]
          [] OTHER -> [many |-> FALSE, of |-> IF ci THEN Fold(pattern[i])
                                                    ELSE {pattern[i]}]]

(***************************************************************************)
(* MatchString of such a regexp: the numbers of atoms that may be behind   *)
(* after each character of the text.                                       *)
(***************************************************************************)
Skip(re, P) ==
    {q \in 0 .. Len(re) : \E p \in P : p <= q /\ \A i \in p + 1 .. q : re[i].many}

Advance(re, P, c) ==
    Skip(re, {p + 1 : p \in {n \in P : n < Len(re) /\ ~re[n + 1].many
                                          /\ c \in re[n + 1].of}}
             \union {p \in P : p < Len(re) /\ re[p + 1].many /\ c \in re[p + 1].of})

Behind(re, text) ==
    LET behind[n \in 0 .. Len(text)] ==
            IF n = 0 THEN Skip(re, {0}) ELSE Advance(re, behind[n - 1], text[n])
    IN  behind

MatchString(re, text) == Len(re) \in Behind(re, text)[Len(text)]

\* parseFilters leaves out a filter without a field; none left keep everything.
parseFilters(filters) == {f \in filters : f.field # ""}

Satisfies(stored, f, ci) ==
    /\ f.field \in DOMAIN stored
    /\ stored[f.field].type # "null"
    /\ LET text == stored[f.field].text
       IN  IF f.kind = "like" THEN MatchString(likeToRegex(f.arg, ci), text)
           ELSE IF ci THEN Lowered(text) = Lowered(f.arg)
           ELSE text = f.arg

match(stored, filters, ci) ==
    \A f \in parseFilters(filters) : Satisfies(stored, f, ci)

(***************************************************************************)
(* QueryObjects: the ids of the objects that match, in order, and the page *)
(* of them that limit and offset cut out.                                  *)
(***************************************************************************)
parseIntDefault(param, default) == IF param = Absent THEN default ELSE param

Matching(content, q) == {i \in DOMAIN content : match(content[i], q.filters, q.ci)}
Sorted(ids) ==
    CHOOSE s \in [1 .. Cardinality(ids) -> ids] :
        \A n \in 1 .. Cardinality(ids) - 1 : s[n] < s[n + 1]

Page(ids, limit, offset) ==
    LET from == Min({Max({offset, 0}), Len(ids)})
        to == IF limit > 0 THEN Min({from + limit, Len(ids)}) ELSE Len(ids)
    IN  SubSeq(ids, from + 1, to)

QueryObjects(content, q) ==
    Page(Sorted(Matching(content, q)),
         parseIntDefault(q.limit, DefaultLimit), parseIntDefault(q.offset, 0))

-----------------------------------------------------------------------------
(***************************************************************************)
(* The routes of classes.  The guards are those of a request that is       *)
(* accepted; one that is refused (400 for a name or a body, 404 for a      *)
(* class or an object that is missing, 409 for a class that exists or is   *)
(* not empty) changes nothing.                                             *)
(***************************************************************************)
validProject(p) == p \notin Invalid
validName(n) == n \notin Invalid

handleCreateClass(p, n) ==
    /\ validName(n) /\ validProject(p)
    /\ <<p, n>> \notin classes
    /\ classes' = classes \union {<<p, n>>}
    /\ UNCHANGED <<objects, counters, creates, logged, pager, raced>>

\* The client that pages is followed until somebody else does more than create.
Disturbs(scope) == pager' = IF pager.scope = scope THEN NoPager ELSE pager

\* The class goes while a create has taken an id in it.
Races(scope) ==
    raced' = \/ raced
             \/ \E w \in Creator : creates[w].scope = scope /\ creates[w].ids # <<>>

handleDeleteClass(scope) ==
    /\ scope \in classes /\ objects[scope] = NoObjects
    /\ classes' = classes \ {scope}
    /\ counters' = [counters EXCEPT ![scope] = 0]
    /\ Disturbs(scope) /\ Races(scope)
    /\ UNCHANGED <<objects, creates, logged>>

-----------------------------------------------------------------------------
(***************************************************************************)
(* The routes of objects.  What is stored has no field id; the one an      *)
(* answer has is added to it.                                              *)
(***************************************************************************)
\* Mutant: a field id the client sent is stored.
StoredWithId(b) == b

jsonToStored(b) == [f \in DOMAIN b \ {"id"} |-> b[f]]

(***************************************************************************)
(* A create of n objects has found its class.  What the objects hold is    *)
(* chosen when they are stored; here it matters whether their JSON parsed. *)
(***************************************************************************)
Create(w, scope, n) ==
    /\ creates[w] = NoCreate
    /\ scope \in classes
    /\ creates' = [creates EXCEPT ![w] = [scope |-> scope, want |-> n, ids |-> <<>>]]
    /\ UNCHANGED <<classes, objects, counters, logged, pager, raced>>

handleCreateObject(w, scope, parsed) == parsed /\ Create(w, scope, 1)

(***************************************************************************)
(* A bulk request with too many items, or with one that is malformed, is   *)
(* refused as a whole, before an id is taken for it; one with none is      *)
(* answered at once.                                                       *)
(***************************************************************************)
handleCreateObjectsBulk(w, scope, n, parsed) ==
    /\ n \in 1 .. MaxBulk
    /\ parsed
    /\ Create(w, scope, n)

(***************************************************************************)
(* idgen.Next, once for each object.                                       *)
(***************************************************************************)
\* The ids handed out, over all classes.
Handed == UNION {{s} \X (1 .. counters[s]) : s \in Scope}

TakeId(w) ==
    LET c == creates[w]
    IN  /\ Len(c.ids) < c.want
        /\ Cardinality(Handed) < MaxObjects
        /\ counters' = [counters EXCEPT ![c.scope] = @ + 1]
        /\ creates' = [creates EXCEPT ![w].ids = Append(@, counters[c.scope] + 1)]
        /\ UNCHANGED <<classes, objects, logged, pager, raced>>

(***************************************************************************)
(* All objects of the create are in the log and in the overlay.  (If the   *)
(* server ends between the two, they are as stored before the next Open.)  *)
(***************************************************************************)
StoreCreated(w) ==
    LET c == creates[w]
        new == Range(c.ids)
    IN  /\ c # NoCreate /\ Len(c.ids) = c.want
        /\ \E bodies \in [new -> Body] :
              objects' = [objects EXCEPT ![c.scope] =
                  [i \in DOMAIN @ \union new |->
                      IF i \in new THEN jsonToStored(bodies[i]) ELSE @[i]]]
        /\ logged' = [logged EXCEPT ![c.scope] = Max({@} \union new)]
        /\ creates' = [creates EXCEPT ![w] = NoCreate]
        /\ UNCHANGED <<classes, counters, pager, raced>>

handlePutObject(scope, i, item) ==
    /\ item # Malformed
    /\ scope \in classes /\ i \in DOMAIN objects[scope]
    /\ objects' = [objects EXCEPT ![scope][i] = jsonToStored(item)]
    /\ logged' = [logged EXCEPT ![scope] = Max({@, i})]
    /\ Disturbs(scope)
    /\ UNCHANGED <<classes, counters, creates, raced>>

handleDeleteObject(scope, i) ==
    /\ scope \in classes /\ i \in DOMAIN objects[scope]
    /\ objects' = [objects EXCEPT ![scope] = [j \in DOMAIN @ \ {i} |-> @[j]]]
    /\ Disturbs(scope)
    /\ UNCHANGED <<classes, counters, creates, logged, raced>>

-----------------------------------------------------------------------------
(***************************************************************************)
(* A client that lists a class page by page: it asks for the next page at  *)
(* the offset of what it has, until a page is short.  began is what        *)
(* matched when it started.                                                *)
(***************************************************************************)
StartPager(scope, q) ==
    /\ pager = NoPager /\ scope \in classes
    /\ q.limit = PageSize /\ q.offset = 0
    /\ pager' = [scope |-> scope, query |-> q, got |-> <<>>,
                 began |-> Matching(objects[scope], q), done |-> FALSE]
    /\ UNCHANGED store

handleListObjects ==
    /\ pager # NoPager /\ ~pager.done
    /\ LET q == [pager.query EXCEPT !.offset = Len(pager.got)]
           page == QueryObjects(objects[pager.scope], q)
       IN  pager' = [pager EXCEPT !.got = @ \o page,
                                  !.done = Len(page) < PageSize]
    /\ UNCHANGED store

(***************************************************************************)
(* The client has all pages, or gives up, or a checkpoint overtook one of  *)
(* its pages, which then may lack objects (QueriesFresh of Engine fails):  *)
(* it is not followed any further.                                         *)
(***************************************************************************)
StopPager ==
    /\ pager # NoPager
    /\ pager' = NoPager
    /\ UNCHANGED store

(***************************************************************************)
(* A checkpoint: the generation has the objects, the log is empty.         *)
(***************************************************************************)
Checkpoint ==
    /\ logged' = [s \in Scope |-> 0]
    /\ UNCHANGED <<classes, objects, counters, creates, pager, raced>>

\* Mutant: the ids of the generation are not observed.
RestartFromLog ==
    /\ counters' = [s \in Scope |-> logged[s]]
    /\ creates' = [w \in Creator |-> NoCreate]
    /\ UNCHANGED <<classes, objects, logged, pager, raced>>

(***************************************************************************)
(* The end of the server and the next Open (Restart of Engine): it         *)
(* observes the ids of the objects there are and those of every put in the *)
(* log, also of objects deleted and classes dropped since.                 *)
(***************************************************************************)
Restart ==
    /\ counters' = [s \in Scope |-> Max({logged[s]} \union DOMAIN objects[s])]
    /\ creates' = [w \in Creator |-> NoCreate]
    /\ UNCHANGED <<classes, objects, logged, pager, raced>>

-----------------------------------------------------------------------------
Init ==
    /\ classes = {}
    /\ objects = [s \in Scope |-> NoObjects]
    /\ counters = [s \in Scope |-> 0]
    /\ creates = [w \in Creator |-> NoCreate]
    /\ logged = [s \in Scope |-> 0]
    /\ pager = NoPager /\ raced = FALSE

Item == Body \union {Malformed}

Request(scope) ==
    \/ handleCreateClass(scope[1], scope[2]) \/ handleDeleteClass(scope)
    \/ \E w \in Creator, parsed \in BOOLEAN :
          \/ handleCreateObject(w, scope, parsed)
          \/ \E n \in 0 .. MaxBulk + 1 : handleCreateObjectsBulk(w, scope, n, parsed)
    \/ \E i \in Id : \/ handleDeleteObject(scope, i)
                     \/ \E item \in Item : handlePutObject(scope, i, item)

Creating == \E w \in Creator : TakeId(w) \/ StoreCreated(w)

Paging ==
    \/ \E scope \in Scope, q \in Queries : StartPager(scope, q)
    \/ handleListObjects \/ StopPager

Next ==
    \/ \E scope \in Scope : Request(scope)
    \/ Creating \/ Paging \/ Checkpoint \/ Restart

Spec == Init /\ [][Next]_vars

-----------------------------------------------------------------------------
TypeOK ==
    /\ classes \subseteq {s \in Scope : validProject(s[1]) /\ validName(s[2])}
    /\ \A s \in Scope : /\ DOMAIN objects[s] \subseteq Id
                        /\ \A i \in DOMAIN objects[s] : "id" \notin DOMAIN objects[s][i]
    /\ counters \in [Scope -> 0 .. MaxObjects]
    /\ creates \in [Creator -> Creation \union {NoCreate}]
    /\ logged \in [Scope -> 0 .. MaxObjects] /\ raced \in BOOLEAN
    /\ Range(pager.got) \union pager.began \subseteq Id

(***************************************************************************)
(* SQL LIKE, said directly: the text is cut into one piece per character   *)
(* of the pattern; % takes any piece, _ one character, another character   *)
(* itself.                                                                 *)
(***************************************************************************)
SameChar(c, d, ci) == c = d \/ (ci /\ ToLower(c) = ToLower(d))

Like(text, pattern, ci) ==
    \E cut \in [0 .. Len(pattern) -> 0 .. Len(text)] :
        /\ cut[0] = 0 /\ cut[Len(pattern)] = Len(text)
        /\ \A i \in DOMAIN pattern :
              \/ pattern[i] = "%" /\ cut[i - 1] <= cut[i]
              \/ /\ pattern[i] # "%" /\ cut[i] = cut[i - 1] + 1
                 /\ pattern[i] = "_" \/ SameChar(text[cut[i]], pattern[i], ci)

Wanted(object, q) ==
    \A f \in q.filters :
        f.field # "" =>
            /\ f.field \in DOMAIN object \ {"id"}
            /\ LET v == object[f.field]
               IN  /\ v.type # "null"
                   /\ IF f.kind = "like" THEN Like(v.text, f.arg, q.ci)
                      ELSE /\ Len(v.text) = Len(f.arg)
                           /\ \A n \in DOMAIN f.arg : SameChar(v.text[n], f.arg[n], q.ci)

(***************************************************************************)
(* A listing has the objects that satisfy every filter, in the order of    *)
(* their ids, from the offset to the limit ("SQL LIKE: % = any sequence, _ *)
(* = any single char", filters.go:16).                                     *)
(***************************************************************************)
OnPage(content, q, i) ==
    LET before == {j \in DOMAIN content : j < i /\ Wanted(content[j], q)}
        offset == IF q.offset = Absent \/ q.offset < 0 THEN 0 ELSE q.offset
        limit == IF q.limit = Absent THEN DefaultLimit ELSE q.limit
    IN  /\ Wanted(content[i], q)
        /\ Cardinality(before) >= offset
        /\ limit > 0 => Cardinality(before) < offset + limit

ListsExact ==
    \A s \in classes, q \in Queries :
        LET page == QueryObjects(objects[s], q)
        IN  /\ Range(page) = {i \in DOMAIN objects[s] : OnPage(objects[s], q, i)}
            /\ \A n \in 1 .. Len(page) - 1 : page[n] < page[n + 1]

(***************************************************************************)
(* "limit/offset paginam sobre os resultados que casaram" (rest-api.md): a *)
(* client that pages through a class misses nothing that was there when it *)
(* began.  Others create meanwhile, and a create that was given a lower id *)
(* may become visible after one with a higher id: what follows moves back  *)
(* and may be met twice, but never passes the offset unseen.  Nor does a   *)
(* restart make a create replace an object ("the generator resumes just    *)
(* past the highest id already durable", idgen.go:4); dropping the class   *)
(* under a create may (raced), the id being handed out again.              *)
(***************************************************************************)
PagesComplete ==
    raced \/ (pager.done => pager.began \subseteq Range(pager.got))
=============================================================================
