---------------------------- MODULE MCCommunity ----------------------------
(***************************************************************************)
(* Instances of Accounts, Discussions, Paging and Standings for TLC.  They *)
(* share no state, so that the run explores each one while the others rest *)
(* in their initial states.                                                *)
(***************************************************************************)
EXTENDS Accounts, Discussions, Paging, Standings

CommunityInit == Init /\ DiscussionsInit /\ PagingInit /\ StandingsInit

CommunityNext ==
    \/ DiscussionsInit /\ PagingInit /\ StandingsInit /\ Next
        /\ UNCHANGED <<discussionVars, pagingVars, standingsVars>>
    \/ Init /\ PagingInit /\ StandingsInit /\ DiscussionsNext
        /\ UNCHANGED <<vars, pagingVars, standingsVars>>
    \/ Init /\ DiscussionsInit /\ StandingsInit /\ PagingNext
        /\ UNCHANGED <<vars, discussionVars, standingsVars>>
    \/ Init /\ DiscussionsInit /\ PagingInit /\ (Competing \/ Practising)
        /\ UNCHANGED <<vars, discussionVars, pagingVars>>

CommunitySpec ==
    CommunityInit /\ [][CommunityNext]_<<vars, discussionVars, pagingVars, standingsVars>>

\* The decisions on reports depend neither on time nor on what is written, liked or
\* published meanwhile; the quota is each writer's own; the two halves of Standings are
\* independent too.  What happens to the posts does not matter to racing decisions.
OneAtATime ==
    /\ (\E r \in Report : Reported(r)) =>
        /\ clock = 0 /\ likes = {} /\ published = Problem
        /\ \A u \in Writer : asked[u].op \in {"idle", "report"}
        /\ (\A m \in Moderator : deciding[m] # NoRequest) =>
            \A m \in Moderator : deciding[m].postStatus = Nobody
    /\ clock > 0 \/ Cardinality({q \in Post : Posted(q)}) > 2 =>
        /\ published = Problem /\ likes = {}
        /\ \A q \in Post : Posted(q) =>
            posts[q].status = "VISIBLE" /\ posts[q].parent = Nobody /\ posts[q].author = posts[1].author
        /\ \A u \in Writer : asked[u].op \in {"idle", "create"}
    /\ (today = 1 /\ days = {}) \/ Entered = {}

\* The requests, the moderators, and the accounts that are no administrators at the
\* start, are interchangeable.  The writers of Discussions go by the requests' names, so
\* that one set of permutations does for both.
Interchangeable ==
    Permutations(Request) \cup Permutations(User \ Admin) \cup Permutations(Moderator)

Awards == {[round |-> 1, problem |-> "a", points |-> 1],
           [round |-> 2, problem |-> "a", points |-> 2],
           [round |-> 1, problem |-> "b", points |-> 1]}
=============================================================================
