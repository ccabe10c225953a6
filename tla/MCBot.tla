-------------------------------- MODULE MCBot --------------------------------
(***************************************************************************)
(* Model-checking instance of five parts of the bot that share no state in  *)
(* the model: loading the lists (ListLoading), the requests of friends and  *)
(* groups (Invitations), the subscriptions that commands change             *)
(* (Subscriptions), and the posts and the login of Weibo (WeiboNews,        *)
(* WeiboLogin).  In each behaviour one of them runs, and the others stay in *)
(* one initial state, in which nothing is due.                              *)
(***************************************************************************)
EXTENDS ListLoading, Invitations, WeiboNews, WeiboLogin, Subscriptions

CONSTANTS FirstId, FirstType   \* an id and a type of Subscriptions

VARIABLE part   \* the part that runs

weiboVars  == <<newsVars, loginVars>>

MCInit ==
    /\ part \in {"lists", "invite", "subs", "news", "login"}
    /\ Init /\ (part # "lists" => api)
    /\ InviteInit /\ (part # "invite" => mode = "public" /\ friends = {})
    /\ SubsInit /\ NewsInit
    /\ LoginInit /\ (part # "login" => config = 0)

\* Subscriptions: the first id alone is followed for every type and configured.
SubsBound ==
    /\ \A g \in Codes, i \in SiteIds \ {FirstId} : db'[g][i] \subseteq {FirstType}
    /\ configs' \subseteq Codes \X {FirstId}

Part(p) == part = p /\ UNCHANGED part

MCNext ==
    \/ Part("lists")  /\ Next
       /\ UNCHANGED <<inviteVars, subsVars, weiboVars>>
    \/ Part("invite") /\ InviteNext
       /\ UNCHANGED <<vars, subsVars, weiboVars>>
    \/ Part("subs")   /\ SubsNext /\ SubsBound
       /\ UNCHANGED <<vars, inviteVars, weiboVars>>
    \/ Part("news")   /\ NewsNext
       /\ UNCHANGED <<vars, inviteVars, subsVars, loginVars>>
    \/ Part("login")  /\ LoginNext
       /\ UNCHANGED <<vars, inviteVars, subsVars, newsVars>>

\* The part that runs is fair as its module says; the steps of the others are disabled.
MCSpec ==
    /\ MCInit
    /\ [][MCNext]_<<part, vars, inviteVars, subsVars, weiboVars>>
    /\ Fairness /\ NewsFairness /\ LoginFairness

\* Every variable of every part stays in its range: among them, one retry goroutine at
\* a time, no group over the limit, no row under a wrong key.
AllTypesOK ==
    TypeOK /\ InviteTypeOK /\ SubsTypeOK /\ NewsTypeOK /\ LoginTypeOK
=============================================================================
