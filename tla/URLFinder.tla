------------------------------ MODULE URLFinder ------------------------------
(***************************************************************************)
(* py2src finds the repository of a PyPI package (py2src/url_finder.py):   *)
(* five sources each propose a URL, the one proposed most often wins, and  *)
(* OSSGadget's answer is taken when nobody proposes one.  A score says how *)
(* well the package and the repository fit.                                *)
(*                                                                         *)
(* A link is a URL as a page writes it.  GitHub answers a request for a    *)
(* link with the repository it redirects to, and normalize_url writes that *)
(* as a link of its own.  Any request may fail.                            *)
(***************************************************************************)
EXTENDS Integers, Sequences, FiniteSets

CONSTANTS
    Links,         \* links to GitHub, normalised
    Redirect,      \* those that exist -> the repository they lead to
    Depth,         \* number of slashes in the path of a link
    NoLink,        \* the empty string, or None
    Prefix,        \* os.path.commonprefix of several links
    Docs,          \* links to pages of readthedocs.io
    Packages,      \* what PyPI says of the packages looked up
    Fit            \* repository -> the facts about it that are scored

ASSUME URLAssumption ==
    /\ NoLink \notin Links \cup Docs
    /\ DOMAIN Redirect \subseteq Links
    /\ \A l \in DOMAIN Redirect :
        /\ Redirect[l] \in DOMAIN Redirect
        /\ Redirect[Redirect[l]] = Redirect[l]
        /\ Depth[Redirect[l]] = 2
    /\ Depth \in [Links -> Nat]
    /\ Prefix \in [SUBSET Links -> Links \cup {NoLink}]

ASSUME PackagesAssumption ==
    \A p \in Packages :
        /\ p.badges \in Seq(Links) /\ p.stats \in Seq(Links) /\ p.docs \in Seq(Docs)
        /\ \A d \in Docs : p.docLinks[d] \in Seq(Links)
        /\ p.homeLinks \subseteq Links
        /\ {p.home, p.code, p.oss} \subseteq Links \cup {NoLink}

VARIABLES
    page,          \* the package's page and metadata on PyPI
    finder,        \* the step of get_final_url
    soup,          \* the PyPI page was loaded
    ossUrl,        \* OSSGadget's answer
    proposals,     \* the URLs proposed so far, in the order of the sources
    finalUrl,
    urlScore,
    dropped        \* a request has failed

urlVars == <<page, finder, soup, ossUrl, proposals, finalUrl, urlScore, dropped>>

FinderSteps == <<"start", "ossgadget", "badge", "homepage", "metadata", "readthedocs",
                 "statistics", "decide", "score", "done">>

URLInit ==
    /\ page \in Packages
    /\ finder = "start"
    /\ soup = FALSE
    /\ ossUrl = NoLink
    /\ proposals = <<>>
    /\ finalUrl = NoLink
    /\ urlScore = 0
    /\ dropped = FALSE

-----------------------------------------------------------------------------
(* real_github_url: the repository behind a link, or the empty string when the
   request is not answered or there is none. *)
RealGithubUrl(l, answered) ==
    IF answered /\ l \in DOMAIN Redirect THEN Redirect[l] ELSE NoLink

(* test_url_working: the page is there and its path has two parts. *)
TestUrlWorking(l, answered) == answered /\ l \in DOMAIN Redirect /\ Depth[l] = 2

(* A link is tested and then resolved, by a request each. *)
Resolve(l, tested, answered) ==
    IF l # NoLink /\ TestUrlWorking(l, tested) THEN RealGithubUrl(l, answered) ELSE NoLink

Count(s, u) == Cardinality({i \in DOMAIN s : s[i] = u})

(* The n-th vote is the first for its URL: it enters a key in the dictionary. *)
NewKey(s, n) == s[n] # NoLink /\ \A k \in 1 .. n - 1 : s[k] # s[n]

(* The loop over the dictionary, in the order of its keys: the first URL with the
   most votes. *)
MostVoted(s) ==
    LET best[n \in 0 .. Len(s)] ==
            IF n = 0 THEN NoLink
            ELSE IF /\ NewKey(s, n)
                    /\ best[n - 1] = NoLink \/ Count(s, s[n]) > Count(s, best[n - 1])
                 THEN s[n] ELSE best[n - 1]
    IN  best[Len(s)]

(* Each of several links is resolved by a request of its own; the repository
   most of them lead to is proposed. *)
VoteAmong(links, answered) ==
    MostVoted([i \in DOMAIN links |-> RealGithubUrl(links[i], answered[i])])

Propose(from, to, u) ==
    /\ finder = from
    /\ proposals' = Append(proposals, u)
    /\ finder' = to
    /\ UNCHANGED <<page, soup, ossUrl, finalUrl, urlScore>>

-----------------------------------------------------------------------------
(* The constructor: without the PyPI page the sources that read it are mute. *)
OpenPypiSoup ==
    /\ finder = "start"
    /\ soup' \in BOOLEAN
    /\ dropped' = ~soup'
    /\ finder' = "ossgadget"
    /\ UNCHANGED <<page, ossUrl, proposals, finalUrl, urlScore>>

(* OSSGadget runs in a container; whatever goes wrong there is an empty answer. *)
FindOssgadgetUrl ==
    /\ finder = "ossgadget"
    /\ \E tested, answered \in BOOLEAN :
        /\ ossUrl' = Resolve(page.oss, tested, answered)
        /\ dropped' = (dropped \/ ~tested \/ ~answered)
    /\ finder' = "badge"
    /\ UNCHANGED <<page, soup, proposals, finalUrl, urlScore>>

(* Badges of the project description that lead to GitHub or Travis. *)
FindGithubUrlFromPypiBadge ==
    \E answered \in [DOMAIN page.badges -> BOOLEAN] :
        /\ Propose("badge", "homepage", IF soup THEN VoteAmong(page.badges, answered) ELSE NoLink)
        /\ dropped' = (dropped \/ \E i \in DOMAIN answered : ~answered[i])

(* mode_2: the links of the homepage that hold the package's name, cut to what
   they have in common. *)
ScrapeHomepage ==
    \E tested, answered \in BOOLEAN :
        /\ Propose("homepage", "metadata",
                   Resolve(Prefix[page.homeLinks], tested, answered))
        /\ dropped' = (dropped \/ ~tested \/ ~answered)

IsValidGithubUrl(l) == l # NoLink /\ Depth[l] \in {2, 3}

(* find_github_url_metadata: the homepage, or else the code page, if it looks
   like a repository. *)
FindGithubUrlMetadata ==
    IF IsValidGithubUrl(page.home) THEN page.home
    ELSE IF IsValidGithubUrl(page.code) THEN page.code ELSE NoLink

\* Mutant: the link is proposed as it is written, not where it leads.
MutMode1(tested, answered) ==
    LET l == FindGithubUrlMetadata
    IN  IF l # NoLink /\ TestUrlWorking(l, tested) /\ answered THEN l ELSE NoLink

Mode1(tested, answered) == Resolve(FindGithubUrlMetadata, tested, answered)

ReadMetadata ==
    \E tested, answered \in BOOLEAN :
        /\ Propose("metadata", "readthedocs", Mode1(tested, answered))
        /\ dropped' = (dropped \/ ~tested \/ ~answered)

(* The documentation page the PyPI page links to most, and the repository it
   links to most. *)
FindGithubUrlFromReadthedocs ==
    LET docs == MostVoted(page.docs)
        there == IF docs = NoLink THEN <<>> ELSE page.docLinks[docs]
    IN  \E opened \in BOOLEAN, answered \in [DOMAIN there -> BOOLEAN] :
            /\ Propose("readthedocs", "statistics",
                       IF soup /\ opened THEN VoteAmong(there, answered) ELSE NoLink)
            /\ dropped' = (dropped \/ ~opened \/ \E i \in DOMAIN answered : ~answered[i])

(* The statistics section of the PyPI page names the repository. *)
FindGithubUrlFromPypiStatistics ==
    \E answered \in [DOMAIN page.stats -> BOOLEAN] :
        /\ Propose("statistics", "decide", IF soup THEN VoteAmong(page.stats, answered) ELSE NoLink)
        /\ dropped' = (dropped \/ \E i \in DOMAIN answered : ~answered[i])

(* The vote; OSSGadget's URL is only taken when there is none. *)
EvaluateFinalUrl ==
    /\ finder = "decide"
    /\ finalUrl' = IF MostVoted(proposals) # NoLink THEN MostVoted(proposals) ELSE ossUrl
    /\ finder' = IF finalUrl' = NoLink THEN "done" ELSE "score"
    /\ UNCHANGED <<page, soup, ossUrl, proposals, urlScore, dropped>>

(* The four parts of the score.  Without the GitHub page its description is
   empty, it has no badge and no language. *)
NameScore == IF Fit[finalUrl].name THEN 1 ELSE -1
DescrScore(opened) ==
    IF opened THEN (IF Fit[finalUrl].descr THEN 1 ELSE -1)
    ELSE IF soup /\ page.described THEN -1 ELSE 1
BadgeScore(opened) ==
    IF ~opened \/ Fit[finalUrl].badge = "none" THEN 0
    ELSE IF Fit[finalUrl].badge = "this" THEN 1 ELSE -1
PythonScore(opened) ==
    CASE opened /\ Fit[finalUrl].python -> 1
      [] opened /\ ~Fit[finalUrl].python /\ Fit[finalUrl].others -> -1
      [] OTHER -> 0

Score ==
    /\ finder = "score"
    /\ \E opened \in BOOLEAN :
        /\ urlScore' = NameScore + DescrScore(opened) + BadgeScore(opened) + PythonScore(opened)
        /\ dropped' = (dropped \/ ~opened)
    /\ finder' = "done"
    /\ UNCHANGED <<page, soup, ossUrl, proposals, finalUrl>>

(* A failure none of the handlers names (a timeout while reading, a redirect
   loop, a reply that is not JSON) ends the search. *)
FinderRaises ==
    /\ finder \notin {"done", "raised"}
    /\ finder' = "raised"
    /\ UNCHANGED <<page, soup, ossUrl, proposals, finalUrl, urlScore, dropped>>

URLNext ==
    \/ OpenPypiSoup \/ FindOssgadgetUrl \/ FindGithubUrlFromPypiBadge \/ ScrapeHomepage
    \/ ReadMetadata \/ FindGithubUrlFromReadthedocs \/ FindGithubUrlFromPypiStatistics
    \/ EvaluateFinalUrl \/ Score \/ FinderRaises

URLSpec == URLInit /\ [][URLNext]_urlVars

-----------------------------------------------------------------------------
(* The repository a link stands for. *)
Repo(l) == IF l \in DOMAIN Redirect THEN Redirect[l] ELSE NoLink

(* u is the first of the entries of s that occur most often. *)
FirstOfMost(s, u) ==
    LET named == {i \in DOMAIN s : s[i] # NoLink}
    IN  IF named = {} THEN u = NoLink
        ELSE \E i \in named :
                /\ s[i] = u
                /\ \A j \in named :
                    \/ Count(s, s[j]) < Count(s, u)
                    \/ Count(s, s[j]) = Count(s, u) /\ (s[j] = u \/ i < j)

RepoOfLinks(ls) == [i \in DOMAIN ls |-> Repo(ls[i])]
WorkingRepo(l) == IF l # NoLink /\ Depth[l] = 2 THEN Repo(l) ELSE NoLink

\* When every request is answered, the URL found is the repository that most of
\* the five sources point to, the earlier source deciding a tie, whatever links
\* they use for it: a repository that was renamed is one repository.
URLPlurality ==
    finder = "done" /\ ~dropped =>
        \E badge, docs, stats \in Links \cup {NoLink} :
            LET home == WorkingRepo(Prefix[page.homeLinks])
                own == WorkingRepo(FindGithubUrlMetadata)
                five == <<badge, home, own, docs, stats>>
            IN  /\ FirstOfMost(RepoOfLinks(page.badges), badge)
                /\ FirstOfMost(RepoOfLinks(page.stats), stats)
                /\ \/ page.docs = <<>> /\ docs = NoLink
                   \/ \E d \in Docs : /\ FirstOfMost(page.docs, d)
                                      /\ FirstOfMost(RepoOfLinks(page.docLinks[d]), docs)
                /\ IF FirstOfMost(five, NoLink)
                   THEN finalUrl = WorkingRepo(page.oss)
                   ELSE FirstOfMost(five, finalUrl)
=============================================================================
