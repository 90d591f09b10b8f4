---------------------------- MODULE MCStaticPaths ----------------------------
(* Requests, static paths and files for the model-checking run of StaticPaths. *)
EXTENDS StaticPaths

MCChar == STRING

unset == [f \in Field |-> {}]
defaults == [f \in Field |-> {f \in {"indexhtml", "html_charset"}}]

\* staticPathOptions(fallthrough = NULL, headers = NULL) of an app
twoNull == [defaults EXCEPT !["fallthrough"] = {}, !["headers"] = {}]

www == [path |-> "www", options |-> [unset EXCEPT !["exclude"] = {FALSE}]]
lib == [path |-> "lib",
        options |-> [www.options EXCEPT !["fallthrough"] = {TRUE}, !["indexhtml"] = {FALSE}]]
excluded == [path |-> "", options |-> [unset EXCEPT !["exclude"] = {TRUE}]]

root == <<"/">>
a == <<"a">>
aSlash == <<"/", "a", "/">>
ab == <<"/", "a", "/", "b">>

MCInitPaths == {[n \in {root, aSlash} |-> IF n = root THEN www ELSE lib],
                [n \in {a, ab} |-> IF n = a THEN www ELSE excluded],
                [n \in {} |-> www]}
MCPathSets == {[n \in {a} |-> excluded], [n \in {ab} |-> lib],
               [n \in {root, ab} |-> IF n = root THEN lib ELSE www]}
MCRemoveLists == {<<a>>, <<<<"/", "a">>>>, <<ab, root>>}
MCOptionSets == {[f \in {"indexhtml", "headers", "validation"} |-> {f # "indexhtml"}],
                 [f \in {"fallthrough", "exclude", "validation"} |->
                    IF f = "fallthrough" THEN {TRUE} ELSE IF f = "exclude" THEN {} ELSE {FALSE}]}

get == [url |-> <<"/", "a", "/", "b">>, upgrade |-> FALSE, method |-> "GET", body |-> FALSE,
        valid |-> TRUE, since |-> 0]
MCRequests ==
  {[get EXCEPT !.url = u] : u \in {root, aSlash, ab, aSlash \o <<"/">>,
                                    <<"/", "a", "/", "%", "2", "e", ".">>,
                                    <<"/", "a", "%", "2", "F", "b", "?", "/", "c">>,
                                    <<"/", "a", "/", "b", "/", ".", ".", "/", "c">>,
                                    <<"/", "%", "5", "C">>}}
  \cup {[get EXCEPT !.method = "HEAD"], [get EXCEPT !.method = "POST"], [get EXCEPT !.body = TRUE],
        [get EXCEPT !.valid = FALSE], [get EXCEPT !.upgrade = TRUE],
        [get EXCEPT !.since = 1], [get EXCEPT !.since = 2]}

\* "www" and "lib" are directories; what is above them exists too.
MCFiles ==
  LET dirs == {<<"www">>, <<"lib">>, <<"www", "/", ".", ".">>, <<"lib", "/", ".", ".">>,
               <<"www", "/", "a">>}
      regular == {d \o <<"/", "index.html">> : d \in dirs}
                 \cup {<<"www", "/", "b">>, <<"lib", "/", "b", "/", ".", ".", "/", "c">>,
                       <<"www", "/", "b", "/", ".", ".", "/", "c">>}
      unreadable == {<<"lib", "/", "b">>}
  IN [x \in dirs \cup regular \cup unreadable |->
        IF x \in dirs THEN "dir" ELSE IF x \in regular THEN "file" ELSE "error"]

\* The codec on every string of up to four of the characters: decoding undoes
\* encoding, for components and for whole URIs; encoding leaves no character
\* that must be escaped; decodeURI brings in no reserved character.
Strings == BoundedSeq({"a", "%", "/", "2", "F", "x", " "}, 4)

ASSUME UriRoundTrip ==
  \A s \in Strings, whole \in BOOLEAN :
    LET e == doEncodeURI(s, whole)
        d == doDecodeURI(s, FALSE)
    IN /\ doDecodeURI(e, whole) = s
       /\ Range(e) \cap {" "} = {}
       /\ Len(SelectSeq(d, isReservedUrlChar)) = Len(SelectSeq(s, isReservedUrlChar))
       /\ Len(doDecodeURI(s, TRUE)) <= Len(s)
=============================================================================
