------------------------------ MODULE Evaluator ------------------------------
(***************************************************************************)
(* How a policy judges a page: evaluate() of shared/policy, the reference, *)
(* and what its two mirrors on an iPhone do differently, the content       *)
(* filter's PolicyStore and the Safari extension.  A page is what the      *)
(* normalisers make of its address: the values it has for each kind of     *)
(* target.                                                                 *)
(***************************************************************************)
EXTENDS Integers, Sequences, FiniteSets

CONSTANT None

Action == {"ALLOW", "BLOCK"}

\* The order in which the kinds of standing rules are tried.
tierOrder == <<"URL", "YOUTUBE_VIDEO", "YOUTUBE_PLAYLIST", "YOUTUBE_CHANNEL",
               "URL_PATTERN", "DOMAIN", "APPLICATION", "CATEGORY">>

\* No application is known of a page in Safari.
safariTierOrder == <<"URL", "YOUTUBE_VIDEO", "YOUTUBE_PLAYLIST", "YOUTUBE_CHANNEL",
                     "URL_PATTERN", "DOMAIN", "CATEGORY">>

Target == {tierOrder[i] : i \in DOMAIN tierOrder}

scopeSpecificity(r) == IF r.device # None THEN 3 ELSE IF r.child # None THEN 2 ELSE 1

ruleAppliesToScope(r, policy) == /\ r.device \in {None, policy.device}
                                 /\ r.child \in {None, policy.child}

\* decide dates a grant's start with its own now(), so here a grant has begun; where the
\* device's clock may be behind the server's, WindowsExtension!Started asks for it.
isActiveTemp(t, now) == now < t.until

\* A list in an address is the child's own claim: it may close a video, never open it.
matchTarget(r, page) ==
    /\ r.value \in page.names[r.target]
    /\ (r.target = "YOUTUBE_PLAYLIST" /\ r.action = "ALLOW") => page.playlist

Outranks(a, b) ==
    \/ a.priority > b.priority
    \/ a.priority = b.priority /\ scopeSpecificity(a) > scopeSpecificity(b)

Ties(a, b) == ~Outranks(a, b) /\ ~Outranks(b, a)

\* A stable sort leaves a tie in the order of the list, unless deny wins it.
Before(a, b, denyWins) ==
    \/ Outranks(a, b)
    \/ /\ Ties(a, b)
       /\ IF denyWins /\ a.action # b.action THEN a.action = "BLOCK" ELSE a.order < b.order

First(S, denyWins) == CHOOSE r \in S : \A s \in S \ {r} : Before(r, s, denyWins)

Verdict(action, reason, id) == [action |-> action, reason |-> reason, id |-> id]

OfTier(policy, page, tier) ==
    {r \in policy.rules : ruleAppliesToScope(r, policy) /\ r.target = tier /\ matchTarget(r, page)}

\* The places in the order that have a rule for the page.
Answering(policy, page, order) == {i \in DOMAIN order : OfTier(policy, page, order[i]) # {}}

Earliest(S) == CHOOSE i \in S : \A j \in S : i <= j

\* The first tier that has a rule for the page decides; deny wins its ties.
ByRule(policy, page, tier) ==
    LET rule == First(OfTier(policy, page, tier), TRUE) IN Verdict(rule.action, "rule", rule.id)

ByDefault(policy, page) ==
    IF page.youTube THEN Verdict(policy.youTubeDefault, "default:youtube", None)
    ELSE Verdict(policy.webDefault, "default:web", None)

ByTemp(t) == Verdict(t.action, IF t.grantKind = "ONCE" THEN "temporary:ONCE" ELSE "temporary", t.id)

\* The tiers in order: the floor, temporary rules, standing rules, the defaults.
Judge(policy, temps, page, order, denyWins) ==
    LET hits == {t \in temps : matchTarget(t, page)}
        open == Answering(policy, page, order)
    IN  IF page.floor THEN Verdict("ALLOW", "safety-floor", None)
        ELSE IF hits # {} THEN ByTemp(First(hits, denyWins))
        ELSE IF open # {} THEN ByRule(policy, page, order[Earliest(open)])
        ELSE ByDefault(policy, page)

ActiveTemps(policy, now) ==
    {t \in policy.temps : ruleAppliesToScope(t, policy) /\ isActiveTemp(t, now)}

\* shared/policy: the reference.
evaluate(policy, page, now) ==
    Judge(policy, ActiveTemps(policy, now), page, tierOrder, FALSE)

\* PolicyStore: a single-use grant that is spent no longer counts.
Unspent(temps, spent) == {t \in temps : ~(t.grantKind = "ONCE" /\ t.id \in spent)}

evaluateInFilter(policy, page, now, spent) ==
    Judge(policy, Unspent(ActiveTemps(policy, now), spent), page, tierOrder, TRUE)

\* The extension: whatever it spent is taken out of the policy before it looks.
View(policy, spent) == [policy EXCEPT !.temps = {t \in @ : t.id \notin spent}]

evaluateInSafari(view, page, now) ==
    Judge(view, ActiveTemps(view, now), page, safariTierOrder, FALSE)

-----------------------------------------------------------------------------
(* The hosts that serve a video's bytes follow the grants, on the iPhone.  *)

hasActiveVideoGrant(policy, now) ==
    \/ \E t \in policy.temps : t.action = "ALLOW" /\ t.target = "YOUTUBE_VIDEO" /\ isActiveTemp(t, now)
    \/ \E r \in policy.rules : r.action = "ALLOW" /\ r.target = "YOUTUBE_VIDEO"

FromDefault(v) == v.reason \in {"default:web", "default:youtube"}

playback(v, granted, page) ==
    IF FromDefault(v) /\ granted /\ page.support THEN Verdict("ALLOW", "playback-support", None)
    ELSE IF v.reason = "default:web" /\ v.action = "ALLOW" /\ ~granted /\ page.exclusive
    THEN Verdict("BLOCK", "playback-support:no-grant", None)
    ELSE v
==============================================================================
