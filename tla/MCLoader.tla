------------------------------ MODULE MCLoader ------------------------------
(* Small instances of Loader for TLC: two directories that may hold the    *)
(* same stem, and files one step away from a valid one.                    *)
EXTENDS Loader, TLC

CONSTANTS oneA, oneB, twoB

StemOf == oneA :> "one" @@ oneB :> "one" @@ twoB :> "two"

Hex(stem) == [of |-> stem, form |-> "hex"]
Rule(stem) == [kind |-> "rule", id |-> Hex(stem)]
Corr(id)   == [kind |-> "correlation", id |-> id]

Health == [data_sources |-> "list", do_not_alert_when |-> "text",
           detection_health |-> "ordered"]

Event(stem) ==
    [parse |-> "ok", docs |-> <<Rule(stem)>>, conditions |-> 1,
     type |-> "event_count", refs |-> "own", generate |-> FALSE, group_by |-> TRUE, fields |-> {"status", "level", "date"},
     tags |-> {Technique, Tactic}, custom |-> Health, positives |-> TRUE]

Counted(stem) == [Event(stem) EXCEPT !.docs = <<Rule(stem), Corr(NoId)>>]

Good == {Event("one"), Event("two"), Counted("one"), Counted("two")}

\* One slip each, in the parts the contract is about.
Slips ==
    {[Event("one") EXCEPT !.parse = x] : x \in {"raises", "errors"}}
    \cup {[Event("one") EXCEPT !.docs = x] :
            x \in {<<Rule("one"), Rule("two")>>,
                   <<[kind |-> "rule", id |-> [of |-> "one", form |-> "hyphens"]]>>,
                   <<[kind |-> "rule", id |-> [of |-> Stray, form |-> "hex"]]>>,
                   <<[kind |-> "rule", id |-> NoId]>>}}
    \cup {[Counted("one") EXCEPT !.type = "temporal"],
          [Counted("one") EXCEPT !.refs = "several"],
          [Counted("one") EXCEPT !.generate = TRUE],
          [Counted("one") EXCEPT !.group_by = FALSE],
          [Counted("one") EXCEPT !.docs = <<Corr(NoId), Rule("one")>>],
          [Counted("one") EXCEPT !.docs = <<Rule("one"), Corr(NoId), Corr(NoId)>>]}
    \cup {[Event("one") EXCEPT !.fields = @ \ {f}] : f \in {"status", "date"}}
    \cup {[Event("one") EXCEPT !.tags = x] : x \in {{Technique, Other}, {Tactic, Other}}}
    \cup {[Event("one") EXCEPT !.custom.do_not_alert_when = x] : x \in {"blank", "absent"}}
    \cup {[Event("one") EXCEPT !.custom.data_sources = "null"],
          [Event("one") EXCEPT !.custom.detection_health = "reversed"],
          [Event("one") EXCEPT !.positives = FALSE]}

\* Accepted all the same: the first document is hex and the rule's id is not,
\* a null text is the text None, and a condition may be a list.
IdBehind == [Event("one") EXCEPT
                !.docs = <<Corr(Hex("one")),
                           [kind |-> "rule", id |-> [of |-> "one", form |-> "hyphens"]]>>]

NullText == [Event("one") EXCEPT !.custom.do_not_alert_when = "null"]

Split == {[Event("one") EXCEPT !.conditions = 2], [Counted("one") EXCEPT !.conditions = 2]}

Some == Good \cup Slips \cup Split \cup {IdBehind, NullText}
=============================================================================
