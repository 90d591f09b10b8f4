----------------------------- MODULE StaticPaths -----------------------------
(***************************************************************************)
(* The StaticPathManager of a server (staticpath.cpp) between its two      *)
(* users: the main thread, where R sets and removes static paths and       *)
(* changes their options, and the background thread, where                 *)
(* RWebApplication::staticFileResponse (webapplication.cpp) looks for the  *)
(* path of a request and decides how to answer.                            *)
(*                                                                         *)
(* A URL is a sequence of characters, with escapes and a query; the name   *)
(* of a file or directory is one letter (or "www", "lib", "index.html").   *)
(* An option is a set: empty for nullopt, else the set of its value.  An   *)
(* option that is a text or a list of texts is TRUE if it is not empty.    *)
(*                                                                         *)
(* NULL means "inherit", for the options of a path and, in R, for those of *)
(* the app too, where there is nothing to inherit from: StaticPathManager  *)
(* may start with options that have no value.                              *)
(*                                                                         *)
(* The mutex protects path_map only.  The options of the manager are       *)
(* written by setOptions and read by get without an order between them, so *)
(* both go option by option here.                                          *)
(***************************************************************************)
EXTENDS Naturals, Sequences, FiniteSets, SequencesExt, Functions, UriCodec

CONSTANTS
  Char,        \* characters, and names of files and directories
  Requests,    \* what the background thread is asked for
  InitPaths,   \* app$staticPaths: functions from names to StaticPath records
  InitOptions, \* app$staticPathOptions
  PathSets,    \* arguments of setStaticPath, like InitPaths
  RemoveLists, \* arguments of removeStaticPath, sequences of names
  OptionSets,  \* arguments of setStaticPathOption, partial functions
  Files,       \* the file system: local path -> "file", "dir", or "error"
  Mtime,       \* modification time of every file, 0 if it is unknown
  MaxCalls     \* bound on the calls of R that change something

\* The order in which the code goes through the options.
Fields == <<"indexhtml", "fallthrough", "html_charset", "headers", "validation", "exclude">>
Field == Range(Fields)

\* The options that are no bool but have memory of their own.
Texts == {"html_charset", "headers", "validation"}

Option == {{}} \cup {{b} : b \in BOOLEAN}
Options == [Field -> Option]
Complete(o) == \A f \in Field : \E b \in BOOLEAN : o[f] = {b}

StaticPath == [path : Char, options : Options]
PathList(p) == \A n \in DOMAIN p : p[n] \in StaticPath

\* The Request of the model: what staticFileResponse reads of an HttpRequest.
Request ==
  [url : Seq(Char), upgrade : BOOLEAN, method : {"GET", "HEAD", "POST"},
   body : BOOLEAN,     \* Content-Length other than 0, or Transfer-Encoding
   valid : BOOLEAN,    \* it has the header that validation asks for
   since : Nat]        \* If-Modified-Since, 0 if missing or not a date

ASSUME StaticPathsAssumption ==
  /\ Coded \cup {Unnamed, "", "index.html"} \subseteq Char
  /\ Requests \subseteq Request
  /\ \A p \in InitPaths \cup PathSets : PathList(p) /\ DOMAIN p \subseteq Seq(Char) \ {<<>>}
  /\ RemoveLists \subseteq Seq(Seq(Char))
  /\ InitOptions \in Options
  /\ \A o \in OptionSets : \A f \in DOMAIN o : f \in Field /\ o[f] \in Option
  /\ \A x \in DOMAIN Files : Files[x] \in {"file", "dir", "error"}
  /\ Mtime \in Nat /\ MaxCalls \in Nat

VARIABLES
  pathMap,  \* path_map: URL path -> StaticPath
  options,  \* StaticPathManager::options
  main,     \* what is left of the call that R makes
  bg,       \* staticFileResponse, on the background thread
  calls,    \* calls made by R
  stable,   \* history: paths that were there since the request came
  recent    \* history: what each option may have read as since the request came

vars == <<pathMap, options, main, bg, calls, stable, recent>>

-------------------------------------------------------------------------------
(* Names and URL paths *)

\* A deviation of NormalizeName: a trailing slash stays.
NormalizeNameLeading(n) == IF Head(n) = "/" THEN n ELSE <<"/">> \o n

\* normalizeStaticPaths: one leading slash, no trailing slash but for "/".
NormalizeName(n) ==
  LET s == IF Head(n) = "/" THEN n ELSE <<"/">> \o n
      solid == {i \in DOMAIN s : s[i] # "/"}
  IN IF s = <<"/">> THEN s ELSE SubSeq(s, 1, Max(solid \cup {0}))

Normalized(paths) ==
  [k \in {NormalizeName(n) : n \in DOMAIN paths} |->
     paths[CHOOSE n \in DOMAIN paths : NormalizeName(n) = k]]

\* matchStaticPath drops one trailing slash.
Strip(url) == IF Len(url) > 1 /\ Last(url) = "/" THEN Front(url) ELSE url

\* A deviation of SplitAt: the search starts at found_idx, not before it.
SplitAtSame(path, cut) == Max({i \in DOMAIN path : path[i] = "/" /\ i <= cut} \cup {0})

\* The last slash of path before position cut, or 0.
SplitAt(path, cut) == Max({i \in DOMAIN path : path[i] = "/" /\ i < cut} \cup {0})

\* The part before the slash at position cut, and the part behind it.
PreSlash(path, cut) == IF cut = 1 THEN <<"/">> ELSE SubSeq(path, 1, cut - 1)
PostSlash(path, cut) == SubSeq(path, cut + 1, Len(path))

-------------------------------------------------------------------------------
(* What staticFileResponse decides *)

ToR == [to |-> "R", status |-> 0, body |-> FALSE, file |-> <<>>]
ErrorResponse(code) == [to |-> "client", status |-> code, body |-> TRUE, file |-> <<>>]
FileResponse(code, body, file) == [to |-> "client", status |-> code, body |-> body, file |-> file]

On(sp, f) == sp.options[f] = {TRUE}
FallOr(sp, code) == IF On(sp, "fallthrough") THEN ToR ELSE ErrorResponse(code)

Up == <<"/", ".", ".">>
EndsUp(url) == Len(url) >= 3 /\ SubSeq(url, Len(url) - 2, Len(url)) = Up

\* A deviation of Upwards: ".." at the end of the URL is forgotten.
UpwardsInside(url) == \E i \in 1..(Len(url) - 3) : SubSeq(url, i, i + 3) = Up \o <<"/">>

Upwards(url) ==
  (\E i \in 1..(Len(url) - 3) : SubSeq(url, i, i + 3) = Up \o <<"/">>) \/ EndsUp(url)

Kind(file) == IF file \in DOMAIN Files THEN Files[file] ELSE "none"

LocalPath(sp, subpath) ==
  LET local == IF subpath = <<>> THEN <<sp.path>> ELSE <<sp.path, "/">> \o subpath
  IN IF Kind(local) = "dir" /\ On(sp, "indexhtml") THEN local \o <<"/", "index.html">> ELSE local

CacheIsValid(r) == Mtime # 0 /\ r.since # 0 /\ Mtime <= r.since

\* The name that the mime type comes from.
IsHtml(local) == Last(local) = "index.html"

\* One early return: its condition and the options that this looks at, and what
\* is returned and the options that the answer is made of.
Rule(when, tests, do, uses) == [when |-> when, tests |-> tests, do |-> do, uses |-> uses]

\* The early returns of the code, in their order: the first that applies wins.
\* `reads' are the options that were looked at on the way to it.
StaticFileResponse(r, path, sp, subpath) ==
  LET local == LocalPath(sp, subpath)
      kind == Kind(local)
      isDirectory == Kind(LocalPath([sp EXCEPT !.options["indexhtml"] = {FALSE}], subpath)) = "dir"
      head == {"headers"} \cup IF IsHtml(local) THEN {"html_charset"} ELSE {}
      rules == <<
        Rule(On(sp, "exclude"), {"exclude"}, ToR, {}),
        Rule(On(sp, "validation") /\ ~r.valid, {"validation"}, ErrorResponse(403), {}),
        Rule(r.method \notin {"GET", "HEAD"}, {}, ErrorResponse(400), {}),
        Rule(r.body, {}, ErrorResponse(400), {}),
        Rule(Upwards(path), {}, FallOr(sp, 400), {"fallthrough"}),
        Rule(kind \in {"none", "dir"}, IF isDirectory THEN {"indexhtml"} ELSE {},
             FallOr(sp, 404), {"fallthrough"}),
        Rule(kind = "error", {}, ErrorResponse(500), {}),
        Rule(CacheIsValid(r), {}, FileResponse(304, FALSE, local), head),
        Rule(TRUE, {}, FileResponse(200, r.method # "HEAD", local), head) >>
      chosen == CHOOSE i \in DOMAIN rules : rules[i].when /\ \A j \in 1..(i - 1) : ~rules[j].when
  IN [answer |-> rules[chosen].do,
      reads |-> UNION {rules[j].tests : j \in 1..chosen} \cup rules[chosen].uses]

\* What may be read of options of which some have no value: *nullopt is what
\* happens to be there.
Readings(o) ==
  LET unset == {f \in Field : o[f] = {}}
  IN {[f \in Field |-> IF f \in unset THEN q[f] ELSE o[f]] : q \in [unset -> {{FALSE}, {TRUE}}]}

-------------------------------------------------------------------------------
(* The background thread *)

NoPath == [path |-> "", options |-> [f \in Field |-> {}]]
NoRequest == [url |-> <<"/">>, upgrade |-> FALSE, method |-> "GET", body |-> FALSE,
              valid |-> FALSE, since |-> 0]

\* The locals of staticFileResponse and of matchStaticPath: the URL without its
\* query and decoded, the split, the two parts, the StaticPath found with its own options and with merged ones.
Locals(st, r, path, key) ==
  [st |-> st, r |-> r, path |-> path, cut |-> Len(key) + 1, key |-> key, sub |-> <<>>, found |-> FALSE,
   own |-> NoPath.options, sp |-> NoPath, answer |-> ToR]

\* Its locals are gone; the directory of the path it found is kept beside the answer.
Returned(dir, answer) ==
  [Locals("idle", NoRequest, <<"/">>, <<"/">>) EXCEPT !.sp.path = dir, !.answer = answer]

Init ==
  /\ \E p \in InitPaths : pathMap = Normalized(p)
  /\ options = InitOptions
  /\ main = [op |-> "idle"]
  /\ bg = Returned("", ToR)
  /\ calls = 0 /\ stable = {} /\ recent = [f \in Field |-> {}]

\* The history of a call of staticFileResponse: the names in a key tell which
\* path it is, whatever its slashes.
Segments(k) == SelectSeq(k, LAMBDA t : t # "/")
Present == {Segments(k) : k \in DOMAIN pathMap}

\* The option that setOptions is assigning just now.
Writing(f) == main.op = "options" /\ main.writing /\ Fields[main.i] = f

\* What the background thread may read of the manager's option f: one that is
\* half assigned is anything.
MayRead(f) == {options[f]} \cup IF Writing(f) THEN {{FALSE}, {TRUE}} ELSE {}

\* staticFileResponse up to the loop of matchStaticPath.
Ask(r) ==
  /\ bg.st = "idle"
  /\ LET path == doDecodeURI(splitQueryString(r.url), TRUE)
         none == r.upgrade \/ path = <<>> \/ "\\" \in Range(path)
     IN \/ /\ none
           /\ bg' = Returned("", ToR)
           /\ UNCHANGED <<stable, recent>>
        \/ /\ ~none
           /\ bg' = Locals("get", r, path, Strip(path))
           /\ stable' = Present
           /\ recent' = [f \in Field |-> MayRead(f)]
  /\ UNCHANGED <<pathMap, options, main, calls>>

\* get locks the mutex and does not find the key: the loop splits at the
\* previous slash, until there is none.
GetMisses ==
  /\ bg.st = "get" /\ bg.key \notin DOMAIN pathMap
  /\ LET path == Strip(bg.path)
         cut == SplitAt(path, bg.cut)
     IN bg' = IF cut = 0
                THEN [bg EXCEPT !.st = "decide"]
                ELSE [bg EXCEPT !.cut = cut, !.key = PreSlash(path, cut),
                                !.sub = PostSlash(path, cut)]
  /\ UNCHANGED <<pathMap, options, main, calls, stable, recent>>

\* get finds the key and copies the StaticPath; it keeps the mutex.
GetHits ==
  /\ bg.st = "get" /\ bg.key \in DOMAIN pathMap
  /\ bg' = [bg EXCEPT !.st = "merge", !.sp = pathMap[bg.key],
                      !.own = pathMap[bg.key].options, !.found = TRUE, !.cut = 1]
  /\ UNCHANGED <<pathMap, options, main, calls, stable, recent>>

\* A deviation of MergeOne: the manager's options win over those of the path.
MergeOneReversed ==
  /\ bg.st = "merge"
  /\ LET f == Fields[bg.cut]
         next == IF bg.cut = Len(Fields) THEN "decide" ELSE "merge"
     IN bg' = [bg EXCEPT !.sp.options[f] = options[f], !.cut = @ + 1, !.st = next]
  /\ UNCHANGED <<pathMap, options, main, calls, stable, recent>>

\* StaticPathOptions::merge takes the next option from the manager's if the
\* path has none of its own.  The copy of a text that setOptions is assigning
\* just now may end the process.
MergeOne ==
  /\ bg.st = "merge"
  /\ LET f == Fields[bg.cut]
         own == bg.sp.options[f]
         next == IF bg.cut = Len(Fields) THEN "decide" ELSE "merge"
     IN \/ \E v \in IF own # {} THEN {own} ELSE MayRead(f) :
             bg' = [bg EXCEPT !.sp.options[f] = v, !.cut = @ + 1, !.st = next]
        \/ /\ own = {} /\ Writing(f) /\ f \in Texts
           /\ bg' = [bg EXCEPT !.st = "crashed"]
  /\ UNCHANGED <<pathMap, options, main, calls, stable, recent>>

\* The rest of staticFileResponse.  If it looks at an option that has no value
\* anything may be there; a text that is not there may end the process, and
\* without a pattern validateRequestHeaders throws, which nobody catches.
Decide ==
  /\ bg.st = "decide"
  /\ \/ ~bg.found /\ bg' = Returned("", ToR)
     \/ /\ bg.found
        /\ \E o \in Readings(bg.sp.options) :
             LET sp == [bg.sp EXCEPT !.options = o]
                 response == StaticFileResponse(bg.r, bg.path, sp, bg.sub)
                 unset == {f \in response.reads : bg.sp.options[f] = {}}
             IN \/ "validation" \notin unset /\ bg' = Returned(bg.sp.path, response.answer)
                \/ unset \cap Texts # {} /\ bg' = [bg EXCEPT !.st = "crashed"]
  /\ stable' = {} /\ recent' = [f \in Field |-> {}]
  /\ UNCHANGED <<pathMap, options, main, calls>>

-------------------------------------------------------------------------------
(* The main thread *)

Locked == bg.st = "merge"

Calls(op) ==
  /\ main.op = "idle" /\ calls < MaxCalls
  /\ main' = op /\ calls' = calls + 1
  /\ UNCHANGED <<pathMap, options, bg, stable, recent>>

SetStaticPath == \E p \in PathSets : Calls([op |-> "set", left |-> Normalized(p)])
RemoveStaticPath == \E l \in RemoveLists : Calls([op |-> "remove", left |-> l])
SetStaticPathOption ==
  \E o \in OptionSets : Calls([op |-> "options", left |-> o, i |-> 1, writing |-> FALSE])

Keeps == stable' = stable \cap {Segments(k) : k \in DOMAIN pathMap'}

\* set for one entry of the list.  Of the order of the std::map only this is
\* kept, that a path comes before those below it.  An existing entry is replaced.
SetOne ==
  /\ main.op = "set" /\ ~Locked
  /\ \E k \in DOMAIN main.left :
       /\ ~\E k2 \in DOMAIN main.left : IsStrictPrefix(k2, k)
       /\ pathMap' = [x \in DOMAIN pathMap \cup {k} |->
                        IF x = k THEN main.left[k] ELSE pathMap[x]]
       /\ main' = [main EXCEPT !.left = Restrict(@, DOMAIN @ \ {k})]
  /\ Keeps
  /\ UNCHANGED <<options, bg, calls, recent>>

\* remove for one element of the vector: the name as it was given.
RemoveOne ==
  /\ main.op = "remove" /\ main.left # <<>> /\ ~Locked
  /\ pathMap' = Restrict(pathMap, DOMAIN pathMap \ {Head(main.left)})
  /\ main' = [main EXCEPT !.left = Tail(@)]
  /\ Keeps
  /\ UNCHANGED <<options, bg, calls, recent>>

\* A deviation of SetOption: NULL is stored like a value.
SetOptionNull ==
  /\ main.op = "options" /\ main.i <= Len(Fields)
  /\ LET f == Fields[main.i]
     IN options' = IF f \in DOMAIN main.left THEN [options EXCEPT ![f] = main.left[f]] ELSE options
  /\ main' = [main EXCEPT !.i = @ + 1]
  /\ UNCHANGED <<pathMap, bg, calls, stable, recent>>

\* An assignment of a text, or of a first value and the flag that there is one,
\* takes two steps, between which the option is half assigned.
TwoSteps(f) == f \in Texts \/ options[f] = {}

\* The history, while a request is under way.
Remembers(f, values) ==
  recent' = IF bg.st = "idle" THEN recent ELSE [recent EXCEPT ![f] = @ \cup values]

\* setOptions for one option: NULL and an option that is not given change
\* nothing.
SetOption ==
  /\ main.op = "options" /\ main.i <= Len(Fields)
  /\ LET f == Fields[main.i]
         given == f \in DOMAIN main.left /\ main.left[f] # {}
     IN \/ /\ ~given
           /\ main' = [main EXCEPT !.i = @ + 1]
           /\ UNCHANGED <<options, recent>>
        \/ /\ given /\ TwoSteps(f) /\ ~main.writing
           /\ main' = [main EXCEPT !.writing = TRUE]
           /\ Remembers(f, {{FALSE}, {TRUE}})
           /\ UNCHANGED options
        \/ /\ given /\ (TwoSteps(f) => main.writing)
           /\ main' = [main EXCEPT !.i = @ + 1, !.writing = FALSE]
           /\ options' = [options EXCEPT ![f] = main.left[f]]
           /\ Remembers(f, {main.left[f]})
  /\ UNCHANGED <<pathMap, bg, calls, stable>>

\* Each call ends with a list of what is set now, which changes nothing.
CallReturns ==
  /\ \/ main.op = "set" /\ DOMAIN main.left = {} /\ ~Locked
     \/ main.op = "remove" /\ main.left = <<>> /\ ~Locked
     \/ main.op = "options" /\ main.i > Len(Fields)
  /\ main' = [op |-> "idle"]
  /\ UNCHANGED <<pathMap, options, bg, calls, stable, recent>>

-------------------------------------------------------------------------------
Search == GetMisses \/ GetHits \/ MergeOne
Main == SetOne \/ RemoveOne \/ SetOption \/ CallReturns

Next == /\ bg.st # "crashed"
        /\ \/ \E r \in Requests : Ask(r)
           \/ Search
           \/ Decide
           \/ SetStaticPath \/ RemoveStaticPath \/ SetStaticPathOption
           \/ Main

\* Both threads run.  Nobody has to send requests or to change paths.
Spec == Init /\ [][Next]_vars /\ WF_vars(bg.st # "crashed" /\ Search)
             /\ WF_vars(bg.st # "crashed" /\ Main)

-------------------------------------------------------------------------------
(* Properties *)

Answer == [to : {"R", "client"}, status : {0, 200, 304, 400, 403, 404, 500},
           body : BOOLEAN, file : Seq(Char)]

Matching ==
  [st : {"idle", "get", "merge", "decide", "crashed"}, r : Request, path : Seq(Char),
   cut : Nat, key : Seq(Char), sub : Seq(Char), found : BOOLEAN, own : Options,
   sp : StaticPath, answer : Answer]

\* Every variable has its type (StaticPathManager's members and the locals of
\* staticFileResponse), and setStaticPathOption never takes away a value that
\* the app gave to an option: NULL leaves what is there.
TypeOK ==
  /\ PathList(pathMap)
  /\ options \in Options /\ \A f \in Field : InitOptions[f] # {} => options[f] # {}
  /\ \/ main = [op |-> "idle"]
     \/ main = [op |-> "set", left |-> main.left] /\ PathList(main.left)
     \/ main \in [op : {"remove"}, left : Seq(Seq(Char))]
     \/ main \in [op : {"options"}, left : OptionSets, i : 1..(Len(Fields) + 1), writing : BOOLEAN]
  /\ bg \in Matching
  /\ calls \in 0..MaxCalls
  /\ recent \in [Field -> SUBSET Option]

\* The path of the segments p: "/" for none of them.
PathOf(p) ==
  IF p = <<>> THEN <<"/">>
  ELSE [i \in 1..(2 * Len(p)) |-> IF i % 2 = 1 THEN "/" ELSE p[i \div 2]]

Covers(p, url) == p = <<>> \/ IsPrefix(PathOf(p) \o <<"/">>, Strip(url) \o <<"/">>)

\* "This will match the most specific (longest) path" (matchStaticPath), also
\* while R changes the paths: a static path that is there from the request to
\* the decision is never passed over for a shorter one or for none, and the
\* rest of the URL is what the path found leaves of it.
MatchIsMostSpecific ==
  bg.st = "decide" =>
    /\ \A p \in stable : Covers(p, bg.path) => bg.found /\ Len(Segments(bg.key)) >= Len(p)
    /\ bg.found => Segments(bg.key) \o Segments(bg.sub) = Segments(bg.path)

\* A path's own options take precedence; an inherited one has a value that the
\* manager's option had since the request came, none included (one that is half
\* assigned meanwhile may read as anything).  One that the app gave a value has a
\* value, whatever NULLs R sets meanwhile, as staticFileResponse takes for granted
\* when it dereferences it.  While they are merged the entry
\* that get has found is still in path_map, unchanged ("Mutex is used whenever
\* path_map is accessed", staticpath.h).
OptionsInherited ==
  /\ bg.st = "merge" => /\ bg.key \in DOMAIN pathMap
                        /\ pathMap[bg.key].path = bg.sp.path
                        /\ pathMap[bg.key].options = bg.own
  /\ bg.st = "decide" /\ bg.found =>
       \A f \in Field :
         /\ bg.sp.options[f] \in IF bg.own[f] # {} THEN {bg.own[f]} ELSE recent[f]
         /\ InitOptions[f] # {} => bg.sp.options[f] # {}

\* Every option of a static path that was found has a value when
\* staticFileResponse dereferences it (what operator* of optional.h asserts).
\* It is so if the app's options all have values, and not otherwise.
EveryOptionSet == bg.st = "decide" /\ bg.found => Complete(bg.sp.options)

\* A file that is sent is a regular file below the directory of the static path
\* that was found, whatever the URL says, escapes included (staticFileResponse
\* on "..").
ServedFileIsBelowPath ==
  bg.answer.file # <<>> =>
    /\ Kind(bg.answer.file) = "file"
    /\ Head(bg.answer.file) = bg.sp.path
    /\ ~\E i, j \in DOMAIN bg.answer.file :
         /\ j = i + 2 /\ SubSeq(bg.answer.file, i, j) = Up
         /\ j + 1 \in DOMAIN bg.answer.file => bg.answer.file[j + 1] = "/"

\* The search of matchStaticPath ends, whatever R does meanwhile, and the
\* request is decided, unless the race on the options ends the process.
EveryRequestDecided == bg.st = "get" ~> bg.st \in {"decide", "crashed"}
=============================================================================
