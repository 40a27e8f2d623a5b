------------------------------- MODULE MCiPhone -------------------------------
(***************************************************************************)
(* An iPhone in the situations it meets: installs that overlap, a single-  *)
(* use grant opened through Safari and another browser, asks from Safari   *)
(* and from the app's link, a policy that changes while the worker comes   *)
(* and goes, and enrolling, signing out and renewing the token.            *)
(***************************************************************************)
EXTENDS SafariExtension

Names == [t \in Target |-> {}]

\* A video, another of the same list, a site, a crisis line, YouTube's plumbing.
Page(names) == [names |-> names, floor |-> FALSE, youTube |-> FALSE, playlist |-> FALSE,
                support |-> FALSE, exclusive |-> FALSE]
Video(p) == [Page([Names EXCEPT !.YOUTUBE_VIDEO = {p}, !.YOUTUBE_PLAYLIST = {"list"}]) EXCEPT !.youTube = TRUE]
Site(p)  == Page([Names EXCEPT !.URL = {p}, !.DOMAIN = {"site"}, !.CATEGORY = {"games"}])
Floor    == [Page([Names EXCEPT !.DOMAIN = {"help"}]) EXCEPT !.floor = TRUE]
Media    == [Page(Names) EXCEPT !.support = TRUE, !.exclusive = TRUE]

Rule(id, target, value, action, order) ==
    [id |-> id, target |-> target, value |-> value, action |-> action, device |-> None,
     child |-> None, priority |-> 0, order |-> order, created |-> 0]
Temp(id, target, value, action, kind, order) ==
    [id |-> id, target |-> target, value |-> value, action |-> action, device |-> None,
     child |-> None, priority |-> 100, order |-> order, created |-> 0, grantKind |-> kind, until |-> 2]

Content(temps, rules) == [temps |-> temps, rules |-> rules, webDefault |-> "ALLOW",
                          youTubeDefault |-> "BLOCK", answers |-> {}]

Closed0 == Content({}, {})
Once    == Content({Temp("g", "YOUTUBE_VIDEO", "v", "ALLOW", "ONCE", 1)}, {})
More    == Content({Temp("h", "YOUTUBE_VIDEO", "w", "ALLOW", "ONCE", 2)}, {})
OnceAndMore == Content({Temp("g", "YOUTUBE_VIDEO", "v", "ALLOW", "ONCE", 1),
                        Temp("h", "YOUTUBE_VIDEO", "w", "ALLOW", "ONCE", 2)}, {})
Timed   == Content({Temp("t", "YOUTUBE_VIDEO", "v", "ALLOW", "TIMED", 1)}, {})
Ruled   == Content({}, {Rule("r", "DOMAIN", "site", "BLOCK", 2), Rule("q", "DOMAIN", "site", "ALLOW", 1),
                        Rule("s", "YOUTUBE_PLAYLIST", "list", "ALLOW", 3), Rule("c", "CATEGORY", "games", "ALLOW", 4)})
Opened  == [Closed0 EXCEPT !.rules = {Rule("o", "YOUTUBE_VIDEO", "v", "ALLOW", 1)},
                           !.answers = {[target |-> "v", answer |-> "opened"]}]

NoBudget == [thing \in Things |-> 0]

Plain == [policies |-> <<<<Closed0>>>>, pages |-> [v |-> Video("v")], links |-> {}, kinds |-> {},
          refused |-> {}, left |-> NoBudget, debug |-> FALSE, racing |-> FALSE, safari |-> FALSE,
          fresh |-> FALSE, open |-> TRUE, waitRounds |-> 2, maxPending |-> 1, polls |-> 0, stored |-> TRUE]

\* Two links wait for an answer while the policy changes twice.
Overlap == {[Plain EXCEPT !.policies = <<<<Closed0, Timed, Opened>>>>, !.links = {"v"},
                !.left = [NoBudget EXCEPT !.edit = 2, !.link = 2, !.mishap = 1]]}

\* A single-use grant, a page, a route, a frame and a bare connection.
Twice == {
    [Plain EXCEPT !.policies = <<<<Once>>>>, !.kinds = {"page", "socket"},
        !.left = [NoBudget EXCEPT !.load = 3, !.sync = 1, !.mishap = 1], !.debug = TRUE],
    [Plain EXCEPT !.policies = <<<<Once>>>>, !.kinds = {"page", "frame"}, !.safari = TRUE,
        !.left = [NoBudget EXCEPT !.load = 2]],
    [Plain EXCEPT !.policies = <<<<Once>>>>, !.kinds = {"route"}, !.safari = TRUE,
        !.left = [NoBudget EXCEPT !.load = 1, !.unload = 1]],
    [Plain EXCEPT !.policies = <<<<OnceAndMore>>>>, !.kinds = {"page"},
        !.pages = [v |-> Video("v"), w |-> Video("w"), m |-> Media],
        !.left = [NoBudget EXCEPT !.load = 3, !.tick = 2, !.sync = 1], !.debug = TRUE],
    [Plain EXCEPT !.policies = <<<<More, OnceAndMore>>>>, !.kinds = {"page"}, !.debug = TRUE,
        !.pages = [v |-> Video("v"), w |-> Video("w")],
        !.left = [NoBudget EXCEPT !.load = 3, !.edit = 1, !.sync = 1]]}

\* Asks: two pages and room for one, a link, a refusal, a lost post, a closed app.
Asks == {
    [Plain EXCEPT !.kinds = {"page"}, !.pages = [v |-> Video("v"), w |-> Video("w")], !.safari = TRUE,
        !.left = [NoBudget EXCEPT !.load = 2, !.ask = 2]],
    [Plain EXCEPT !.kinds = {"page"}, !.safari = TRUE, !.debug = TRUE, !.policies = <<<<Closed0, Opened>>>>,
        !.left = [NoBudget EXCEPT !.load = 1, !.ask = 1, !.sync = 1, !.mishap = 1, !.kill = 1]],
    [Plain EXCEPT !.kinds = {"page"}, !.safari = TRUE, !.debug = TRUE, !.refused = {"v"},
        !.left = [NoBudget EXCEPT !.load = 1, !.ask = 1, !.sync = 1, !.signOut = 1]],
    [Plain EXCEPT !.kinds = {"page"}, !.safari = TRUE,
        !.left = [NoBudget EXCEPT !.load = 1, !.ask = 2, !.unload = 1, !.mishap = 1]],
    [Plain EXCEPT !.kinds = {"page"}, !.safari = TRUE, !.debug = TRUE, !.racing = TRUE,
        !.left = [NoBudget EXCEPT !.load = 1, !.ask = 1, !.sync = 1]]}

\* The policy changes while the worker is unloaded and two polls overlap.
Follow == {
    [Plain EXCEPT !.policies = <<<<Closed0, Ruled>>>>, !.kinds = {"frame"}, !.safari = TRUE, !.debug = TRUE,
        !.pages = [s |-> Site("s")], !.polls = 2, !.left = [NoBudget EXCEPT !.edit = 1, !.load = 1, !.sync = 1]],
    [Plain EXCEPT !.policies = <<<<Ruled>>>>, !.kinds = {"page"}, !.safari = TRUE,
        !.pages = [v |-> Video("v"), s |-> Site("s"), f |-> Floor],
        !.stored = FALSE, !.polls = 2, !.left = [NoBudget EXCEPT !.load = 1, !.unload = 1, !.mishap = 1]],
    [Plain EXCEPT !.policies = <<<<Ruled>>>>, !.kinds = {"page"}, !.safari = TRUE, !.fresh = TRUE,
        !.stored = FALSE, !.polls = 1, !.left = [NoBudget EXCEPT !.load = 1, !.enroll = 1]]}

\* A new device; one that is enrolled again; a token that runs out.
Enrol == {
    [Plain EXCEPT !.fresh = TRUE, !.policies = <<<<Timed, Closed0>>, <<Closed0, Opened>>>>,
        !.left = [NoBudget EXCEPT !.enroll = 2, !.signOut = 1, !.edit = 1, !.mishap = 1, !.link = 1], !.links = {"v"}],
    [Plain EXCEPT !.left = [NoBudget EXCEPT !.due = 1, !.signOut = 1, !.link = 1, !.mishap = 1], !.links = {"v"}]}

MCSettings == Overlap \cup Twice \cup Asks \cup Follow \cup Enrol

\* The release build, with an ask made while the app is closed.
Release == {[Plain EXCEPT !.kinds = {"page"}, !.safari = TRUE, !.open = FALSE,
                !.left = [NoBudget EXCEPT !.load = 1, !.ask = 1]]}
===============================================================================
