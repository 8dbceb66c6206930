------------------------------ MODULE Locators ------------------------------
(***************************************************************************)
(* How the elements of a page get their numbers and how a description      *)
(* finds one of them: ObservationService with the AxTreeCollector and the  *)
(* DomPurifier (infra/observation), LocatorResolverService                 *)
(* (application/services) and the locators of PlaywrightHarness.           *)
(*                                                                         *)
(* A text is the set of its words, of which the code compares two as words *)
(* and as substrings; the order of the words is left out, and so are words *)
(* of a single letter.  An element is numbered by its place (el_001 is 1). *)
(***************************************************************************)
EXTENDS Selections, Sequences, SequencesExt

CONSTANTS
    MaxElements,     \* elements of an observation, 80 in the code
    FillWords,       \* what isDataEntry of smartFallback looks for
    ClickWords,      \* and isClick
    MenuItemWords,   \* what shouldExcludeTextAnyCandidate looks for
    TriggerNames     \* names of the trigger of an account menu

ASSUME LocatorsAssumption == MaxElements \in Nat \ {0}

Interesting == {"button", "link", "textbox", "searchbox", "combobox", "checkbox", "radio",
                "switch", "menuitem", "option", "tab", "spinbutton", "slider", "heading"}
Actionable == {"button", "link", "menuitem", "option", "checkbox", "radio", "switch", "tab",
               "textbox", "combobox"}

\* What is there if nothing is.
Nothing == [role |-> "none", shown |-> FALSE]

-----------------------------------------------------------------------------
(* Locators.  by: the strategy; texts: the texts of a text_any, the name of *)
(* a role if it has one, or the one text of the others.                    *)

Locator(by, role, texts) == [by |-> by, role |-> role, texts |-> texts]
ByRole(role, name) == Locator("role", role, {name})
Semantic(candidates) == [by |-> "semantic", candidates |-> candidates]
Index(target, n) == [by |-> "index", target |-> target, n |-> n]

\* What Playwright finds for a locator of an element: names match in part.
Matches(node, l) ==
    CASE l.by = "role" -> node.role = l.role /\ \A name \in l.texts : name \subseteq node.name
      [] l.by = "testid" -> node.testid \in l.texts
      [] l.by = "label" -> \A t \in l.texts : node.label # {} /\ t \subseteq node.label
      [] l.by = "placeholder" ->
           \A t \in l.texts : node.placeholder # {} /\ t \subseteq node.placeholder

\* The first visible node of the page that matches, or Nothing.
Reach(nodes, l) ==
    LET i == SelectInSeq(nodes, LAMBDA node : node.shown /\ Matches(node, l))
    IN IF i = 0 THEN Nothing ELSE nodes[i]

\* A field is looked for by size when its locator does not lead to one.
LargestEditable(nodes) ==
    LET fields == {i \in DOMAIN nodes : nodes[i].shown /\ nodes[i].editable /\ nodes[i].area > 0}
    IN IF fields = {} THEN Nothing
       ELSE nodes[CHOOSE i \in fields : \A j \in fields :
              \/ nodes[i].area > nodes[j].area
              \/ (nodes[i].area = nodes[j].area /\ i <= j)]

-----------------------------------------------------------------------------
(* Elements.                                                               *)

NormalizeRole(role) == IF role = "searchbox" THEN "textbox" ELSE role

AxElement(node) ==
    [role |-> NormalizeRole(node.role), name |-> node.name, text |-> {},
     locator |-> ByRole(NormalizeRole(node.role), node.name), tag |-> "none",
     inView |-> node.area > 0, area |-> node.area, near |-> node.near, node |-> node.uid]

AxElements(nodes) ==
    LET interesting == Those(nodes, {i \in DOMAIN nodes :
          nodes[i].shown /\ nodes[i].role \in Interesting /\ nodes[i].name # {}})
    IN [i \in DOMAIN interesting |-> AxElement(interesting[i])]

DomLocator(node) ==
    CASE node.testid # {} -> Locator("testid", "none", {node.testid})
      [] node.testid = {} /\ node.label # {} -> Locator("label", "none", {node.label})
      [] node.testid = {} /\ node.label = {} /\ node.placeholder # {} ->
           Locator("placeholder", "none", {node.placeholder})
      [] OTHER -> IF node.tag \in {"textarea", "contenteditable"}
                  THEN Locator("role", node.domRole, {}) ELSE ByRole(node.domRole, node.name)

DomElement(node) ==
    [role |-> node.domRole, name |-> node.name, text |-> node.text,
     locator |-> DomLocator(node), tag |-> node.tag, inView |-> node.inView,
     area |-> node.area, near |-> node.near, node |-> node.uid]

\* The nodes the selectors of the purifier find.
DomElements(nodes) ==
    LET found == Those(nodes, {i \in DOMAIN nodes :
          nodes[i].shown /\ nodes[i].domRole # "none" /\ nodes[i].name # {}})
    IN [i \in DOMAIN found |-> DomElement(found[i])]

SameKey(e, f) == e.role = f.role /\ e.name = f.name

Order == <<"testid", "label", "placeholder", "role">>
Rank(l) == SelectInSeq(Order, LAMBDA strategy : strategy = l.by)

\* One element for those of the same kind, as it is seen first; the DOM, which
\* comes after the accessibility tree, may know a better locator.
MergeBy(ax, dom, Same(_, _)) ==
    LET all == ax \o dom
        firsts == {i \in DOMAIN all : \A j \in 1 .. i - 1 : ~Same(all[j], all[i])}
        joined(i) == {i} \cup {j \in Len(ax) + 1 .. Len(all) : Same(all[j], all[i])}
        best(i) == CHOOSE j \in joined(i) : \A k \in joined(i) :
                     \/ Rank(all[j].locator) < Rank(all[k].locator)
                     \/ (Rank(all[j].locator) = Rank(all[k].locator) /\ j <= k)
        merged(i) == [all[i] EXCEPT !.locator = all[best(i)].locator,
                                    !.inView = \E j \in joined(i) : all[j].inView]
    IN Those([i \in DOMAIN all |-> merged(i)], firsts)

\* Mutant of Merge: the elements are brought together by their names only.
MergeByName(ax, dom) == MergeBy(ax, dom, LAMBDA e, f : e.name = f.name)

\* The elements of the same kind are those of the same role and name.
Merge(ax, dom) == MergeBy(ax, dom, SameKey)

\* Fields first, then what can be clicked, then the rest.
Prioritize(elements) ==
    LET Fields == {"textbox", "searchbox", "combobox"}
        Clickables == Actionable \ Fields
        fields == {i \in DOMAIN elements : elements[i].role \in Fields}
        clickables == {i \in DOMAIN elements : elements[i].role \in Clickables}
    IN Those(elements, fields) \o Those(elements, clickables)
       \o Those(elements, DOMAIN elements \ (fields \cup clickables))

Observed(ax, dom) ==
    LET all == Prioritize(Merge(ax, dom))
    IN IF Len(all) > MaxElements THEN SubSeq(all, 1, MaxElements) ELSE all

-----------------------------------------------------------------------------
(* From a locator of a plan to an element.                                 *)

\* Mutant of Includes: a text that is missing is a part of any other.
IncludesMissing(value, expected) ==
    IF Cardinality(expected) = 1 THEN expected \subseteq value \/ value = {}
    ELSE expected \subseteq value \/ value \subseteq expected

\* A single word must be one of the words; more may be a part of the text or
\* have it as a part.
Includes(value, expected) ==
    /\ value # {}
    /\ IF Cardinality(expected) = 1 THEN expected \subseteq value
       ELSE expected \subseteq value \/ value \subseteq expected

InTexts(e, text) == Includes(e.name, text) \/ Includes(e.text, text)

HasEnoughTokens(value, text) ==
    Cardinality(text) <= 1 \/ Cardinality(value) >= Cardinality(text)

SameElement(e, l) ==
    CASE l.by = "role" -> e.role = l.role /\ \A t \in l.texts : InTexts(e, t)
      [] l.by = "text_any" -> \E t \in l.texts :
           /\ HasEnoughTokens(e.name, t) \/ HasEnoughTokens(e.text, t)
           /\ InTexts(e, t)
      [] l.by \in {"text", "label", "placeholder", "testid"} -> \A t \in l.texts : InTexts(e, t)
      [] OTHER -> FALSE

ActionableScore(e) ==
    IF e.role \in {"switch", "menuitem"} THEN 3 ELSE IF e.role \in Actionable THEN 1 ELSE 0

\* The first of the elements S with the highest score, then the most actionable.
Best(els, S, Score(_)) ==
    IF S = {} THEN 0 ELSE
    CHOOSE i \in S : \A j \in S \ {i} :
        \/ Score(els[i]) > Score(els[j])
        \/ /\ Score(els[i]) = Score(els[j])
           /\ \/ ActionableScore(els[i]) > ActionableScore(els[j])
              \/ (ActionableScore(els[i]) = ActionableScore(els[j]) /\ i < j)

TextAnyScore(e, texts) == Max({0} \cup {
    IF e.name \cup e.text = t THEN 100 + Cardinality(t)
    ELSE IF e.name = t THEN 90 + Cardinality(t)
    ELSE IF InTexts(e, t) THEN 50 + Cardinality(t) ELSE 0 : t \in texts})

\* Whoever looks for an item of a menu does not look for its trigger.
Excluded(e, texts) == e.name \in TriggerNames /\ \E t \in texts : t \cap MenuItemWords # {}

RankTextAny(els, l) ==
    IF l.by # "text_any" THEN 0 ELSE
    Best(els, {i \in DOMAIN els : SameElement(els[i], l) /\ ~Excluded(els[i], l.texts)},
         LAMBDA e : TextAnyScore(e, l.texts))

\* How many percent of the words of a text of two or more are in the element.
MatchScore(e, texts) == Max({0} \cup
    {(100 * Cardinality(t \cap (e.name \cup e.text))) \div Cardinality(t) :
       t \in {u \in texts : Cardinality(u) >= 2}})

\* Two that are about as good, and as actionable, are none.
BestTokenOverlap(els, l) ==
    LET score(e) == MatchScore(e, l.texts)
        S == {i \in DOMAIN els : score(els[i]) >= 75}
        first == Best(els, S, score)
        second == Best(els, S \ {first}, score)
    IN IF /\ second # 0
          /\ score(els[first]) < score(els[second]) + 20
          /\ ActionableScore(els[first]) = ActionableScore(els[second])
       THEN 0 ELSE first

\* For want of anything better: the largest field or the most central thing to
\* click that can be seen, if the words ask for something of the kind.
SmartFallback(els, l) ==
    LET words == UNION l.texts
        seen == {i \in DOMAIN els : els[i].inView}
        editable == {i \in seen : els[i].role \in {"textbox", "combobox"} \/
                                  els[i].tag \in {"textarea", "input", "contenteditable"}}
        generic == {i \in seen : els[i].tag \in {"div", "section"}}
        clickable == {i \in seen : els[i].role \in Actionable \/ els[i].tag \in {"button", "a"}}
        First(S, Size(_)) == CHOOSE i \in S : \A j \in S \ {i} :
          Size(els[i]) > Size(els[j]) \/ (Size(els[i]) = Size(els[j]) /\ i < j)
    IN CASE words \cap FillWords # {} /\ editable # {} -> First(editable, LAMBDA e : e.area)
         [] words \cap FillWords # {} /\ editable = {} /\ generic # {} ->
              First(generic, LAMBDA e : e.area)
         [] words \cap ClickWords # {} /\ clickable # {} /\
            (words \cap FillWords = {} \/ editable \cup generic = {}) ->
              First(clickable, LAMBDA e : e.near)
         [] OTHER -> 0

FirstNonZero(s) == LET i == SelectInSeq(s, LAMBDA n : n # 0) IN IF i = 0 THEN 0 ELSE s[i]

FindPlain(els, l) ==
    FirstNonZero(<<RankTextAny(els, l),
                   SelectInSeq(els, LAMBDA e : e.locator = l),
                   SelectInSeq(els, LAMBDA e : SameElement(e, l)),
                   BestTokenOverlap(els, l),
                   SmartFallback(els, l)>>)

\* The number of the element for the locator, 0 if there is none.
FindByLocator(els, l) ==
    CASE l.by = "semantic" ->
           FirstNonZero([i \in DOMAIN l.candidates |-> FindPlain(els, l.candidates[i])])
      [] l.by = "index" ->
           LET found == {i \in DOMAIN els :
                 els[i].locator = l.target \/ SameElement(els[i], l.target)}
           IN IF l.n < Cardinality(found) THEN Nth(found, l.n + 1) ELSE 0
      [] OTHER -> FindPlain(els, l)
=============================================================================
