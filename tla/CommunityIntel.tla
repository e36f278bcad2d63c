---------------------------- MODULE CommunityIntel ----------------------------
(***************************************************************************)
(* The merged list of public threat feeds that goes into every policy      *)
(* (cloud-modules/community-intel.js).                                     *)
(*                                                                         *)
(* A refresh asks the sources one after the other and waits for each; one  *)
(* begins soon after the start, one every six hours and one whenever an    *)
(* administrator asks, so several may be under way.  What a source gives   *)
(* is an edition of its feed, which may hold nothing at all (a page that   *)
(* no line of matches), or an error.                                       *)
(***************************************************************************)
EXTENDS Integers, Sequences

CONSTANTS
    Sources,            \* SOURCES, in their order
    Editions,           \* numbers of the editions of a feed
    MaxRefreshes        \* a bound

ASSUME IntelAssumption ==
    /\ Sources \in Seq(STRING)
    /\ 1 \in Editions
    /\ MaxRefreshes \in Nat

VARIABLES
    edition,        \* of each source, now
    refreshes,      \* refreshes under way: the next source, what they got so far
    intel,          \* state.community_intel
    intelFile,      \* as the state was saved last
    started,
    finished        \* history: what refreshes of this run of the cloud came to

intelVars == <<edition, refreshes, intel, intelFile, started, finished>>

Names == {Sources[i] : i \in DOMAIN Sources}
Failed == 0
\* What came of a source: an edition, Failed, or an empty page.
NoLines == -1
Result == Editions \cup {Failed, NoLines}
Nothing == [n \in Names |-> Failed]

IntelTypeOK ==
    /\ edition \in [Names -> Editions]
    /\ \A r \in refreshes : r \in [id: 1 .. MaxRefreshes, next: 1 .. Len(Sources) + 1,
                                  got: [Names -> Result]]
    /\ intel \in [list: [Names -> Result], counts: [Names -> Result]]

\* list is what the boxes get (ips, domains), counts is source_counts.
IntelInit ==
    /\ edition = [n \in Names |-> 1]
    /\ refreshes = {}
    /\ intel = [list |-> Nothing, counts |-> Nothing]
    /\ intelFile = intel
    /\ started = 0
    /\ finished = {Nothing}

Published ==
    /\ \E n \in Names : /\ edition[n] + 1 \in Editions
                        /\ edition' = [edition EXCEPT ![n] = @ + 1]
    /\ UNCHANGED <<refreshes, intel, intelFile, started, finished>>

Begin ==
    /\ started < MaxRefreshes
    /\ started' = started + 1
    /\ refreshes' = refreshes \cup {[id |-> started', next |-> 1, got |-> Nothing]}
    /\ UNCHANGED <<edition, intel, intelFile, finished>>

\* newIps and newDomains: the list is not touched before the end.

Answered ==
    /\ \E r \in refreshes :
          /\ r.next <= Len(Sources)
          /\ LET n == Sources[r.next] IN
             \E x \in {edition[n], Failed, NoLines} :
                /\ refreshes' = (refreshes \ {r})
                      \cup {[r EXCEPT !.next = @ + 1, !.got[n] = x]}
    /\ UNCHANGED <<intel, edition, intelFile, started, finished>>

AnySuccess(r) == r.got # Nothing

Finish ==
    /\ \E r \in refreshes :
          /\ r.next > Len(Sources)
          /\ refreshes' = refreshes \ {r}
          /\ IF AnySuccess(r)
             THEN /\ intel' = [list |-> r.got, counts |-> r.got]
                  /\ finished' = finished \cup {r.got}
             ELSE UNCHANGED <<intel, finished>>
    /\ UNCHANGED <<edition, intelFile, started>>

\* Any handler saves the state; a refresh does not.
SaveIntel ==
    /\ intelFile # intel
    /\ intelFile' = intel
    /\ UNCHANGED <<edition, refreshes, intel, started, finished>>

\* The arrays of the file become Sets again.
RestartIntel ==
    /\ refreshes' = {}
    /\ intel' = intelFile
    /\ finished' = {intelFile.list}
    /\ UNCHANGED <<edition, intelFile, started>>

IntelNext == Published \/ Begin \/ Answered \/ Finish \/ SaveIntel \/ RestartIntel

-----------------------------------------------------------------------------
\* The boxes get the whole result of one refresh, never a mixture of two that
\* overlap nor a half of one, and the counts on display are of that refresh.
\* Sources that all fail leave a list as it was.
OneRefresh ==
    /\ intel.list = intel.counts
    /\ intel.list \in finished
    /\ (\E f \in finished : f # Nothing) => intel.list # Nothing

-----------------------------------------------------------------------------
\* The file holds the result of one refresh as well: a restart shows nothing else.
FileWhole ==
    /\ started \in 0 .. MaxRefreshes
    /\ intelFile \in [list: [Names -> Result], counts: [Names -> Result]]
    /\ intelFile.list = intelFile.counts

IntelInv == IntelTypeOK /\ FileWhole /\ OneRefresh
=============================================================================
