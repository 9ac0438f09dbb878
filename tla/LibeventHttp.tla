---------------------------- MODULE LibeventHttp ----------------------------
(***************************************************************************)
(* libevent_http.c: a server of files and listings in one event loop.      *)
(* Browsers follow the links of the listings it sends. A callback runs in  *)
(* two steps, stat with the header and open with the body, since files may *)
(* change in between. Names are sequences of characters, because a link is *)
(* the name encoded and the request is decoded again.                      *)
(***************************************************************************)
EXTENDS Integers, Sequences, SequencesExt, FiniteSetsExt

CONSTANTS
  Browsers,    \* clients that send a request whole and wait for the answer
  Hasty,       \* clients that do not
  Asks,        \* bound: requests of a browser
  Bothers,     \* bound: halves of requests of the hasty and changes of files
  Nodes,       \* files, directories and links to directories below Root
  Kind, Parent, Name,  \* of each: "file", "dir" or "link"; where; as what
  Target,      \* the directory a link stands for
  ErrorPage,   \* 404.html is there
  Chars, Hex,  \* the characters that strencode escapes have two digits
  Typed        \* what the user of a browser may type beside "/"

Root == "root"
Nothing == "nothing"
HttpClients == Browsers \union Hasty

LibeventAssumption ==
  /\ Asks \in Nat /\ Bothers \in Nat /\ ErrorPage \in BOOLEAN
  /\ {Root, Nothing} \intersect Nodes = {} /\ Browsers \intersect Hasty = {}
  /\ IsFiniteSet(Hasty)
  /\ Kind \in [Nodes -> {"file", "dir", "link"}]
  /\ Parent \in [Nodes -> {Root} \union {d \in Nodes : Kind[d] = "dir"}]
  /\ Name \in [Nodes -> Seq(Chars)]
  /\ \A m, n \in Nodes : Parent[m] = Parent[n] /\ Name[m] = Name[n] => m = n
  /\ "%" \in DOMAIN Hex /\ DOMAIN Hex \subseteq Chars
  /\ Range(Hex) \subseteq Chars \X Chars /\ IsInjective(Hex)
  /\ Typed \subseteq [names : Seq(Seq(Chars)), slash : BOOLEAN]

VARIABLES
  bev,         \* new, queued, open, freed
  peer,        \* up, shut, closed
  arrived,     \* requests, or halves of them, that the server has not read
  asked,       \* requests a client has made
  output,      \* the bufferevent's output
  url,         \* what a browser asked last
  goal,        \* what the link it followed names
  astray,      \* that link was on a page asked for without the last "/"
  got,         \* what it has of the answer
  cb,          \* the callback that runs: client, node, size from stat
  present, size,       \* of the files
  changes, raced,      \* history: a file changed between stat and open
  down                 \* no, ended, crashed

clientVars == <<asked, url, goal, astray, peer>>
fileVars == <<present, size, changes>>
vars == <<bev, arrived, output, got, cb, raced, clientVars, fileVars, down>>

Idle == [who |-> Nothing, node |-> Nothing, size |-> 0, slash |-> TRUE]
Top == [names |-> <<>>, slash |-> TRUE]
NoUrl == [names |-> <<>>, slash |-> FALSE]

Init ==
  /\ bev = [c \in HttpClients |-> "new"] /\ peer = [c \in HttpClients |-> "up"]
  /\ arrived = [c \in HttpClients |-> <<>>] /\ asked = [c \in HttpClients |-> 0]
  /\ output = [c \in HttpClients |-> <<>>] /\ got = [c \in Browsers |-> <<>>]
  /\ url = [c \in Browsers |-> Top] /\ goal = [c \in Browsers |-> Root]
  /\ astray = [c \in Browsers |-> FALSE]
  /\ cb = Idle /\ raced = FALSE
  /\ present = Nodes /\ size = [n \in Nodes |-> 1] /\ changes = 0
  /\ down = "no"

-----------------------------------------------------------------------------
(* Names in links *)

IsDigit(x) == \E ch \in DOMAIN Hex : x \in Range(Hex[ch])

\* Mutant: "%" is left as it is.
strencodePlain(name) ==
  FlattenSeq([k \in DOMAIN name |->
    IF name[k] \in DOMAIN Hex \ {"%"} THEN <<"%">> \o Hex[name[k]]
    ELSE <<name[k]>>])
strencode(name) ==
  FlattenSeq([k \in DOMAIN name |->
    IF name[k] \in DOMAIN Hex THEN <<"%">> \o Hex[name[k]] ELSE <<name[k]>>])

\* The character two digits stand for, one of no file's name if none of these.
hexit(x, y) == IF \E ch \in DOMAIN Hex : Hex[ch] = <<x, y>>
               THEN CHOOSE ch \in DOMAIN Hex : Hex[ch] = <<x, y>> ELSE "\\"

strdecode(s) ==
  LET Escape(k) == /\ k + 2 <= Len(s) /\ s[k] = "%"
                   /\ IsDigit(s[k + 1]) /\ IsDigit(s[k + 2])
      from[k \in 1..Len(s) + 1] ==
        IF k > Len(s) THEN <<>>
        ELSE IF Escape(k) THEN <<hexit(s[k + 1], s[k + 2])>> \o from[k + 3]
        ELSE <<s[k]>> \o from[k + 1]
  IN from[1]

-----------------------------------------------------------------------------
(* Files, directories and the lists of them *)

IsDir(n) == n = Root \/ (n \in Nodes /\ Kind[n] # "file")
Real(n) == IF n \in Nodes /\ Kind[n] = "link" THEN Target[n] ELSE n
Entries(n) == {m \in present : Parent[m] = Real(n)}

Enter(n, name) ==
  IF \E m \in Entries(n) : Name[m] = name
  THEN CHOOSE m \in Entries(n) : Name[m] = name ELSE Nothing

\* stat: links are followed; what is not there is not found, and "/" after a
\* file's name is an error.
Find(u) ==
  LET n == FoldLeft(LAMBDA m, s : Enter(m, strdecode(s)), Root, u.names)
  IN IF n \in present \union {Root} /\ (u.slash => IsDir(n)) THEN n ELSE Nothing

\* A name is put behind dirname as it is: without the "/" lstat finds nothing,
\* and a directory gets no "/". lstat does not follow a link. What scandir
\* gives beside the names, "." and "..", is in FollowDots.
Listing(n, slash) ==
  {[name |-> strencode(Name[m]), slash |-> slash /\ Kind[m] = "dir",
    names |-> m] : m \in Entries(n)}

Header(n, bytes) == [what |-> "header", node |-> n, size |-> bytes]
Body(n, bytes) == [what |-> "body", node |-> n, size |-> bytes,
                   links |-> {}, raced |-> raced]
List(n, slash) == [what |-> "body", node |-> n, size |-> -1,
                   links |-> Listing(n, slash), raced |-> raced]

-----------------------------------------------------------------------------
(* The clients *)

Bothered == changes + MapThenSumSet(LAMBDA c : asked[c], Hasty)

Up(c) == /\ down = "no" /\ peer[c] = "up"
         /\ IF c \in Browsers THEN asked[c] < Asks ELSE Bothered < Bothers
AtServer == UNCHANGED <<output, cb, raced, fileVars, down>>

Connect(c) == /\ down = "no" /\ bev[c] = "new"
              /\ bev' = [bev EXCEPT ![c] = "queued"]
              /\ AtServer /\ UNCHANGED <<arrived, got, clientVars>>

Ask(c, u, n, away) ==
  /\ asked' = [asked EXCEPT ![c] = @ + 1]
  /\ arrived' = [arrived EXCEPT ![c] = Append(@, [url |-> u, part |-> "all"])]
  /\ url' = [url EXCEPT ![c] = u]
  /\ goal' = [goal EXCEPT ![c] = n]
  /\ astray' = [astray EXCEPT ![c] = away]
  /\ got' = [got EXCEPT ![c] = <<>>]
  /\ AtServer /\ UNCHANGED <<bev, peer>>

\* A browser begins at "/", or at what its user types, and follows links.
Complete(c) == Len(got[c]) = 2
Ready(c) == /\ Up(c) /\ bev[c] \in {"queued", "open"}
            /\ asked[c] = 0 \/ Complete(c)

Type(c) == /\ c \in Browsers /\ Ready(c) /\ asked[c] = 0
           /\ \E u \in Typed \union {Top} : Ask(c, u, Find(u), FALSE)

\* A link is relative to the last "/" of the page.
Base(c) == IF url[c].slash THEN url[c].names ELSE Front(url[c].names)
Above(names) == IF names = <<>> THEN names ELSE Front(names)

Follow(c) ==
  /\ c \in Browsers /\ Ready(c) /\ Complete(c)
  /\ \E l \in got[c][2].links :
       Ask(c, [names |-> Append(Base(c), l.name), slash |-> l.slash], l.names,
           ~url[c].slash)

\* scandir gives "." and ".." too: every listing links them, and the browser
\* takes them out of the url itself before it asks.
FollowDots(c) ==
  /\ c \in Browsers /\ Ready(c) /\ Complete(c) /\ IsDir(got[c][2].node)
  /\ \E names \in {Base(c), Above(Base(c))} :
       LET u == [names |-> names, slash |-> TRUE] IN Ask(c, u, Find(u), FALSE)

\* Requests come in halves, which arrive together or not.
Send(c) ==
  /\ c \in Hasty /\ Up(c) /\ bev[c] \in {"queued", "open"}
  /\ asked' = [asked EXCEPT ![c] = @ + 1]
  /\ arrived' = [arrived EXCEPT ![c] = Append(@, [url |-> Top,
                   part |-> IF asked[c] % 2 = 0 THEN "first" ELSE "second"])]
  /\ AtServer /\ UNCHANGED <<bev, peer, url, goal, astray, got>>

Leave(c) ==
  /\ c \in Hasty /\ down = "no" /\ peer[c] = "up"
  /\ bev[c] \in {"queued", "open"}
  /\ \E how \in {"shut", "closed"} : peer' = [peer EXCEPT ![c] = how]
  /\ AtServer /\ UNCHANGED <<bev, arrived, got, asked, url, goal, astray>>

\* Somebody removes a file or writes to it.
Change ==
  /\ down = "no" /\ Bothered < Bothers /\ changes' = changes + 1
  /\ \E f \in {n \in present : Kind[n] = "file"} :
       \/ present' = present \ {f} /\ UNCHANGED size
       \/ size' = [size EXCEPT ![f] = @ + 1] /\ UNCHANGED present
  /\ raced' = (cb # Idle)
  /\ UNCHANGED <<bev, arrived, output, got, cb, clientVars, down>>

-----------------------------------------------------------------------------
(* The callbacks *)

Loop == down = "no" /\ cb = Idle
AtClients == UNCHANGED <<got, clientVars, fileVars, down>>

listener_cb(c) == /\ Loop /\ bev[c] = "queued"
                  /\ bev' = [bev EXCEPT ![c] = "open"]
                  /\ AtClients /\ UNCHANGED <<arrived, output, cb, raced>>

\* Mutant: the header is put after what it belongs to.
PutsFirst(c, piece) == output' = [output EXCEPT ![c] = <<piece>> \o @]
Puts(c, piece) == output' = [output EXCEPT ![c] = Append(@, piece)]

\* What a read of all that has arrived is taken for: the first request in it.
\* The start of one has the path cut or none, which is whatever is on the
\* stack; the rest of one has no GET, or the stack's.
Parsed(c) ==
  LET first == arrived[c][1]
      some == {Top, [names |-> <<<<"?">>>>, slash |-> FALSE]}
  IN CASE first.part = "all" -> {first.url}
       [] first.part = "first" /\ Len(arrived[c]) > 1 -> {first.url}
       [] first.part = "first" -> some
       [] OTHER -> some \union {NoUrl}

\* response_http up to the header.
conn_readcb(c) ==
  /\ Loop /\ bev[c] = "open" /\ arrived[c] # <<>>
  /\ arrived' = [arrived EXCEPT ![c] = <<>>]
  /\ \E u \in Parsed(c) :
       IF u = NoUrl THEN UNCHANGED <<output, cb>>
       ELSE LET n == Find(u)
                bytes == IF n \in Nodes /\ ~IsDir(n) THEN size[n] ELSE -1 IN
            /\ Puts(c, Header(n, bytes))
            /\ cb' = [who |-> c, node |-> n, size |-> bytes, slash |-> u.slash]
  /\ raced' = FALSE
  /\ AtClients /\ UNCHANGED bev

send_dir == /\ down = "no" /\ cb # Idle /\ IsDir(cb.node)
            /\ Puts(cb.who, List(cb.node, cb.slash))
            /\ cb' = Idle
            /\ AtClients /\ UNCHANGED <<bev, arrived, raced>>

Opens == IF cb.node = Nothing THEN ErrorPage ELSE cb.node \in present

send_file_to_http ==
  /\ down = "no" /\ cb # Idle /\ ~IsDir(cb.node) /\ Opens
  /\ Puts(cb.who,
          Body(cb.node, IF cb.node = Nothing THEN -1 ELSE size[cb.node]))
  /\ cb' = Idle
  /\ AtClients /\ UNCHANGED <<bev, arrived, raced>>

\* read of -1 gives -1, which is no end: memset of so many bytes.
OpenFails ==
  /\ down = "no" /\ cb # Idle /\ ~IsDir(cb.node) /\ ~Opens
  /\ down' = "crashed"
  /\ UNCHANGED <<bev, arrived, output, got, cb, raced, clientVars, fileVars>>

\* The loop writes what is in output, as far as the socket takes it. To a peer
\* that is gone it may be the second write: SIGPIPE.
Flush(c) ==
  /\ Loop /\ bev[c] = "open" /\ output[c] # <<>>
  /\ \/ /\ output' = [output EXCEPT ![c] = Tail(@)]
        /\ got' = IF c \in Browsers
                  THEN [got EXCEPT ![c] = Append(@, Head(output[c]))] ELSE got
        /\ UNCHANGED down
     \/ peer[c] = "closed" /\ down' = "ended" /\ UNCHANGED <<output, got>>
  /\ UNCHANGED <<bev, arrived, cb, raced, clientVars, fileVars>>

\* The end of the file frees the bufferevent, and the output it still has.
conn_eventcb(c) ==
  /\ Loop /\ bev[c] = "open" /\ arrived[c] = <<>> /\ peer[c] # "up"
  /\ bev' = [bev EXCEPT ![c] = "freed"]
  /\ output' = [output EXCEPT ![c] = <<>>]
  /\ AtClients /\ UNCHANGED <<arrived, cb, raced>>

\* SIGINT: the loop ends a second later, wherever it is then.
signal_cb == /\ Loop /\ down' = "ended"
             /\ UNCHANGED <<bev, arrived, output, got, cb, raced, clientVars,
                            fileVars>>

-----------------------------------------------------------------------------
OneClient(c) == listener_cb(c) \/ conn_readcb(c) \/ Flush(c) \/ conn_eventcb(c)
Sends == send_dir \/ send_file_to_http \/ OpenFails

Next == \/ \E c \in HttpClients :
             \/ Connect(c) \/ Send(c) \/ Leave(c)
             \/ c \in Browsers /\ (Type(c) \/ Follow(c) \/ FollowDots(c))
             \/ OneClient(c)
        \/ Sends \/ Change \/ signal_cb

\* Every event that is ready is handled in each round of the loop.
Fairness == WF_vars(Sends) /\ \A c \in HttpClients : SF_vars(OneClient(c))
Spec == Init /\ [][Next]_vars /\ Fairness

-----------------------------------------------------------------------------
(* Properties *)

TypeOK ==
  /\ bev \in [HttpClients -> {"new", "queued", "open", "freed"}]
  /\ peer \in [HttpClients -> {"up", "shut", "closed"}]
  /\ (\A c \in HttpClients : asked[c] \in Nat)
  /\ astray \in [Browsers -> BOOLEAN]
  /\ goal \in [Browsers -> Nodes \union {Root, Nothing}]
  /\ \A c \in Browsers : Len(got[c]) <= 2
  /\ cb.who \in HttpClients \union {Nothing}
  /\ present \subseteq Nodes /\ Bothered \in 0..Bothers
  /\ down \in {"no", "ended", "crashed"}

\* A link leads to what it names, whatever characters its name has and
\* however deep, if the page with the link was asked for with its last "/".
LinksOpen ==
  \A c \in Browsers :
    got[c] # <<>> /\ ~astray[c] =>
      got[c][1].node = goal[c] \/ (goal[c] \in Nodes /\ goal[c] \notin present)
        \/ goal[c] = Nothing

\* A browser gets the header and then the body of the same answer, nothing of
\* another's, as long as the header says unless the file changed in between;
\* only a file gone in between, or no 404.html, brings the server down.
AnswersWhole ==
  /\ \A c \in Browsers : got[c] # <<>> =>
       /\ got[c][1].what = "header"
       /\ Complete(c) =>
            /\ got[c][2].what = "body" /\ got[c][2].node = got[c][1].node
            /\ got[c][2].size = got[c][1].size \/ got[c][2].raced
  /\ down = "crashed" => raced \/ (cb.node = Nothing /\ ~ErrorPage)

\* Every browser gets its answer, unless the server goes down.
Owed(c) == asked[c] = 1
Settled(c) == Complete(c) \/ asked[c] > 1 \/ down # "no"
Answered == \A c \in Browsers : Owed(c) ~> Settled(c)

=============================================================================
