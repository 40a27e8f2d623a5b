------------------------------- MODULE MCWindows -------------------------------
(***************************************************************************)
(* The browser on Windows in the situations it meets: linked and linked    *)
(* again, a single-use grant in two tabs, a worker that is ended, policies *)
(* that close and open what is on screen, asks, the filters, a native      *)
(* host, a second server and the passing of time.                          *)
(***************************************************************************)
EXTENDS WindowsExtension

CONSTANTS t1, t2

Names == [t \in Target |-> {}]

Page(names) == [names |-> names, floor |-> FALSE, youTube |-> FALSE, playlist |-> FALSE, support |-> FALSE]
Video(v) == [Page([Names EXCEPT !.YOUTUBE_VIDEO = {v}]) EXCEPT !.youTube = TRUE]
Site(s)  == Page([Names EXCEPT !.URL = {s}, !.DOMAIN = {"site"}, !.CATEGORY = {"games"}])

Rule(id, target, value, action, created) ==
    [id |-> id, target |-> target, value |-> value, action |-> action, device |-> None,
     child |-> None, priority |-> 0, order |-> 1, created |-> created]
Temp(id, value, action, kind, until) ==
    [id |-> id, target |-> "YOUTUBE_VIDEO", value |-> value, action |-> action, device |-> None, child |-> None,
     priority |-> 100, order |-> 1, created |-> 0, grantKind |-> kind, from |-> 0, until |-> until]

Content(temps, rules) == [temps |-> temps, rules |-> rules, webDefault |-> "ALLOW",
                          youTubeDefault |-> "BLOCK", answers |-> <<>>]

Closed  == Content({}, {})
Once    == Content({Temp("g", "v", "ALLOW", "ONCE", 3)}, {})
OnceBeside == [Once EXCEPT !.rules = {Rule("o", "YOUTUBE_VIDEO", "w", "ALLOW", 1)}]
Timed   == Content({Temp("t", "v", "ALLOW", "TIMED", 2)}, {})
Refused == [Content({Temp("n", "v", "BLOCK", "TIMED", 2)}, {}) EXCEPT !.answers = [v |-> "closed"]]
Opened  == [Content({}, {Rule("o", "YOUTUBE_VIDEO", "v", "ALLOW", 1)}) EXCEPT !.answers = [v |-> "opened"]]
Ruled   == Content({}, {Rule("r", "DOMAIN", "site", "BLOCK", 1)})
OnceRuled == [Once EXCEPT !.rules = Ruled.rules]
Games   == Content({}, {Rule("c", "CATEGORY", "games", "BLOCK", 1)})

NoBudget == [thing \in Things |-> 0]

Plain == [policies |-> <<<<Closed>>>>, servers |-> <<"ajar", "ajar">>, pages |-> [v |-> Video("v")],
          tabs |-> {t1}, linked |-> TRUE, host |-> FALSE, devMode |-> FALSE, dataset |-> 0, looks |-> FALSE, left |-> NoBudget]


\* Linked, and linked again: to another child, to another server; a token renewed.
Linking ==
    {[Plain EXCEPT !.policies = <<<<Closed>>, <<Closed>>>>, !.linked = FALSE,
          !.left = [NoBudget EXCEPT !.link = 2, !.unlink = 1, !.close = 1]],
     [Plain EXCEPT !.policies = <<<<Closed>>, <<Timed, Closed>>>>,
          !.left = [NoBudget EXCEPT !.edit = 1, !.link = 1, !.unlink = 1, !.due = 1]],
     [Plain EXCEPT !.policies = <<<<Closed>>, <<Closed>>>>, !.servers = <<"ajar", "lab">>, !.devMode = TRUE,
          !.dataset = 1, !.left = [NoBudget EXCEPT !.link = 1, !.unlink = 1, !.close = 1, !.filters = 1]],
     [Plain EXCEPT !.policies = <<<<Closed, Opened>>>>,
          !.left = [NoBudget EXCEPT !.edit = 1, !.due = 1, !.mishap = 1, !.kill = 1]]}

\* A single-use grant: in two tabs, while a parent edits, in two lives of the
\* worker, and by routes inside a page.
JustOnce ==
    {[Plain EXCEPT !.policies = <<<<Once>>>>, !.tabs = {t1, t2}, !.left = [NoBudget EXCEPT !.load = 2]],
     [Plain EXCEPT !.policies = <<<<Once, OnceRuled>>>>, !.left = [NoBudget EXCEPT !.edit = 1, !.load = 2]],
     [Plain EXCEPT !.policies = <<<<Once>>>>, !.left = [NoBudget EXCEPT !.load = 3, !.kill = 1]],
     [Plain EXCEPT !.policies = <<<<OnceBeside>>>>, !.pages = [v |-> Video("v"), w |-> Video("w")],
          !.left = [NoBudget EXCEPT !.load = 1, !.route = 2, !.mishap = 1]]}

\* Rules that close and open what is on screen, filters, and grants that run out.
OnScreen ==
    {[Plain EXCEPT !.policies = <<<<Closed, Ruled, Opened>>>>, !.pages = [v |-> Video("v"), s |-> Site("s")],
          !.left = [NoBudget EXCEPT !.edit = 2, !.load = 2]],
     [Plain EXCEPT !.policies = <<<<Games, Closed>>>>, !.pages = [s |-> Site("s")], !.dataset = 1,
          !.left = [NoBudget EXCEPT !.edit = 1, !.load = 1, !.filters = 1, !.mishap = 1]],
     [Plain EXCEPT !.policies = <<<<Timed>>>>, !.left = [NoBudget EXCEPT !.tick = 2, !.load = 2, !.kill = 1]]}

\* Asks: answered, refused, lost, ended on the way, asked again, in two tabs.
Asks ==
    {[Plain EXCEPT !.policies = <<<<Closed, Opened>>>>,
          !.left = [NoBudget EXCEPT !.edit = 1, !.load = 1, !.ask = 1]],
     [Plain EXCEPT !.policies = <<<<Closed, Opened>>>>, !.looks = TRUE,
          !.left = [NoBudget EXCEPT !.edit = 1, !.load = 2]],
     [Plain EXCEPT !.policies = <<<<Closed, Refused>>>>, !.looks = TRUE,
          !.left = [NoBudget EXCEPT !.edit = 1, !.load = 1, !.ask = 1]],
     [Plain EXCEPT !.left = [NoBudget EXCEPT !.load = 1, !.ask = 2, !.tick = 1, !.kill = 1, !.mishap = 1]],
     [Plain EXCEPT !.left = [NoBudget EXCEPT !.load = 1, !.ask = 1, !.due = 1, !.remove = 1]],
     [Plain EXCEPT !.tabs = {t1, t2}, !.left = [NoBudget EXCEPT !.load = 2, !.ask = 2]]}

\* The native host.
Native ==
    {[Plain EXCEPT !.policies = <<<<Once>>>>, !.linked = FALSE, !.host = TRUE, !.dataset = 1,
          !.left = [NoBudget EXCEPT !.load = 2, !.ask = 1, !.mishap = 1]]}

MCSettings == Linking \cup JustOnce \cup OnScreen \cup Asks \cup Native
===============================================================================
