------------------------------ MODULE HttpWalk ------------------------------
(***************************************************************************)
(* Walking an HTTP directory listing (iterdir, walk and glob of            *)
(* src/src/asanypath/http.py): the links of a page come from the server    *)
(* and may point anywhere; iterdir yields those that are direct children   *)
(* of the page (_plain_child_name, _is_direct_child of cloud.py), and the  *)
(* walk goes down into the ones that end in a slash.                       *)
(*                                                                         *)
(* A URL is a sequence of names below the host.  A page is whatever the    *)
(* server answers when it is asked, so a page may differ between two       *)
(* requests.  http_scrape_links resolves the links and drops duplicates    *)
(* and links to the page itself; it is external.                           *)
(***************************************************************************)
EXTENDS Integers, Sequences, FiniteSets

CONSTANTS HwNames,    \* the names the server uses
          HwDepth,    \* the deepest URL it names
          HwMaxLinks  \* bound on the links of a page

ASSUME HwAssumption == HwDepth \in Nat /\ HwMaxLinks \in Nat

VARIABLES hwStack,    \* the directories being walked, each with what it has still to visit
          hwListed,   \* directories listed so far
          hwTwice,    \* directories listed more than once
          hwYielded,  \* paths iterdir yielded
          hwTriples,  \* the directories whose triple walk yielded, in order
          hwTopDown,  \* top_down
          hwOnError,  \* on_error is given
          hwState     \* "walking", "done" or "raised"

hwVars == <<hwStack, hwListed, hwTwice, hwYielded, hwTriples, hwTopDown, hwOnError, hwState>>

HwRoot == <<"root">>
HwUrls == {<<"root">> \o tail : tail \in UNION {[1..n -> HwNames] : n \in 0..HwDepth}} \cup {<<>>}

\* A link: the URL it is after parsing, the directory its text begins with, and
\* whether its text has escapes, a query or a fragment that parsing may read
\* differently.  A text without them is the URL.
HwParent(url) == SubSeq(url, 1, Len(url) - 1)
HwLinks(page) == {link \in [url : HwUrls, under : {page, <<>>}, special : BOOLEAN, query : BOOLEAN,
                            other : BOOLEAN, slash : BOOLEAN] :
                    /\ link.url # page
                    /\ ~link.special => ~link.query /\ (link.under = page <=> HwParent(link.url) = page)
                    /\ link.other => link.under = <<>>}

\* _plain_child_name: the text is the page's URL, a slash and a plain name.
HwPlain(page, link) == link.under = page /\ ~link.special

\* _is_direct_child: same authority, no query, and the parsed path has exactly
\* one more name.
HwBelow(page, link) == ~link.query /\ ~link.other /\ Len(link.url) > Len(page)
                       /\ SubSeq(link.url, 1, Len(page)) = page
HwDirectChild(page, link) == ~link.query /\ ~link.other /\ link.url # <<>> /\ HwParent(link.url) = page

HwKept(page, link) == HwPlain(page, link) \/ HwDirectChild(page, link)

\* The paths a page may contribute; one of another host is the empty sequence.
HwFound(page) == {[url |-> IF link.other THEN <<>> ELSE link.url, slash |-> link.slash] :
                    link \in {l \in HwLinks(page) : HwKept(page, l)}}

HwInit ==
    /\ hwStack = <<[dir |-> HwRoot, todo |-> {}, listed |-> FALSE]>>
    /\ hwListed = {} /\ hwTwice = {} /\ hwYielded = {} /\ hwTriples = <<>>
    /\ hwTopDown \in BOOLEAN /\ hwOnError \in BOOLEAN /\ hwState = "walking"

HwTop == hwStack[Len(hwStack)]
HwPop == SubSeq(hwStack, 1, Len(hwStack) - 1)
HwAfterPop == IF Len(hwStack) = 1 THEN "done" ELSE "walking"

\* iterdir of the directory on top: the page is read, its links filtered; in
\* top-down order the triple is yielded before the descent.
HwList ==
    /\ hwState = "walking" /\ ~HwTop.listed
    /\ \E found \in {links \in SUBSET HwFound(HwTop.dir) : Cardinality(links) <= HwMaxLinks} :
         /\ hwYielded' = hwYielded \cup {link.url : link \in found}
         /\ hwStack' = Append(HwPop, [HwTop EXCEPT !.listed = TRUE,
                                      !.todo = {link.url : link \in {l \in found : l.slash}}])
    /\ hwTwice' = IF HwTop.dir \in hwListed THEN hwTwice \cup {HwTop.dir} ELSE hwTwice
    /\ hwListed' = hwListed \cup {HwTop.dir}
    /\ hwTriples' = IF hwTopDown THEN Append(hwTriples, HwTop.dir) ELSE hwTriples
    /\ UNCHANGED <<hwTopDown, hwOnError, hwState>>

\* The request failed with an OSError: on_error takes it and the directory is
\* left, or the walk raises.
HwListFails ==
    /\ hwState = "walking" /\ ~HwTop.listed
    /\ \/ hwOnError /\ hwStack' = HwPop /\ hwState' = HwAfterPop
       \/ ~hwOnError /\ hwState' = "raised" /\ UNCHANGED hwStack
    /\ UNCHANGED <<hwListed, hwTwice, hwYielded, hwTriples, hwTopDown, hwOnError>>

HwDescend ==
    /\ hwState = "walking" /\ HwTop.listed
    /\ \E dir \in HwTop.todo :
         hwStack' = HwPop \o <<[HwTop EXCEPT !.todo = @ \ {dir}],
                               [dir |-> dir, todo |-> {}, listed |-> FALSE]>>
    /\ UNCHANGED <<hwListed, hwTwice, hwYielded, hwTriples, hwTopDown, hwOnError, hwState>>

\* Everything below was walked: in bottom-up order the triple comes now.
HwReturn ==
    /\ hwState = "walking" /\ HwTop.listed /\ HwTop.todo = {}
    /\ hwTriples' = IF hwTopDown THEN hwTriples ELSE Append(hwTriples, HwTop.dir)
    /\ hwStack' = HwPop /\ hwState' = HwAfterPop
    /\ UNCHANGED <<hwListed, hwTwice, hwYielded, hwTopDown, hwOnError>>

HwDone == hwState # "walking" /\ UNCHANGED hwVars

HwNext == HwList \/ HwListFails \/ HwDescend \/ HwReturn \/ HwDone

HwSpec == HwInit /\ [][HwNext]_hwVars
-----------------------------------------------------------------------------
\* Every variable has its type.
HwTypeOK ==
    /\ \A i \in DOMAIN hwStack : hwStack[i].dir \in HwUrls /\ hwStack[i].todo \subseteq HwUrls
    /\ hwListed \subseteq HwUrls /\ hwYielded \subseteq HwUrls
    /\ hwState \in {"walking", "done", "raised"}

\* Whatever links the server puts on its pages, the walk yields only URLs of
\* its own host below the directory it started from.
HwConfined == \A url \in hwYielded : Len(url) > 1 /\ url[1] = "root"

\* No directory is listed twice, so on a finite tree the walk ends even if
\* pages link to each other; and a parent's triple precedes its children's in
\* top-down order and follows them in bottom-up order.
HwEachOnce ==
    /\ hwTwice = {}
    /\ \A i, j \in DOMAIN hwTriples :
         HwParent(hwTriples[i]) = hwTriples[j] => IF hwTopDown THEN j < i ELSE i < j

\* The walk sees every directory below its root once and nothing else.
HwWalksTree == HwConfined /\ HwEachOnce
=============================================================================
