-------------------------------- MODULE Weixin --------------------------------
(***************************************************************************)
(* The WeChat channel (internal/channel/weixin): the login with a QR code, *)
(* the loop that polls for messages, the answers of the channel's own      *)
(* agent, the commands /weixin login and logout, and the stored account.   *)
(*                                                                         *)
(* Start runs in a goroutine of its own, so its login may still wait for   *)
(* the user when a command comes; commands come one at a time, because the *)
(* terminal waits for each.  Each login gets a token of its own, for the   *)
(* same bot.  The server (external) gives a poller the messages sent since *)
(* the login of the token, from the place on that the poller names.        *)
(* Texts, users, the notices to the server and pushed cron results are left *)
(* out.                                                                    *)
(***************************************************************************)
EXTENDS Integers, FiniteSets, Functions

CONSTANTS
    MaxRefreshes,   \* maxQRRefresh
    MaxLogins,      \* bound: logins that succeed
    MaxLoginCommands, \* bound: commands of the user
    MaxWritten      \* bound: messages of each login

ASSUME WeixinAssumption == {MaxRefreshes, MaxLogins, MaxLoginCommands, MaxWritten} \subseteq Nat

(* The goroutine of Start and the terminal. *)
Starters == {"start", "command"}
Tokens == 1 .. MaxLogins
NoToken == 0
Messages == [token : Tokens, place : 1 .. MaxWritten]
Pollers == 1 .. MaxLogins + 1
(* Context 0 stands for none yet, which nobody waits with. *)
Contexts == 0 .. MaxLoginCommands + 1
StartContext == MaxLoginCommands + 1

VARIABLES
    file,           \* the stored account: its token, if there is one
    account,        \* ch.accountID is set
    client,         \* the token of ch.client
    connected,      \* ch.connected
    ctx,            \* ch.ctx, as a number
    cancelledCtx,   \* contexts that are cancelled
    logins,         \* logins so far
    doing,          \* what the goroutine of Start and the terminal do
    refreshes,      \* codes that expired in their login
    commands,       \* commands so far
    polling,        \* what each poll loop does
    pollCtx,        \* the context each poll loop waits with
    buf,            \* the place in the messages from which each loop polls
    pending,        \* messages each loop has yet to handle, the first one first
    sent,           \* messages the server has for each token
    saver,          \* the goroutine that saves the user of a message
    answers,        \* history: answers to each message
    raced           \* history: a command came while Start's login was waiting

accountVars == <<file, account>>
contextVars == <<ctx, cancelledCtx>>
loginVars == <<logins, refreshes>>
pollVars == <<polling, pollCtx, buf, pending>>
messageVars == <<sent, saver, answers>>
weixinVars == <<accountVars, client, connected, contextVars, loginVars, doing, commands,
                pollVars, messageVars, raced>>

(* The types; each loop answers a message once at most. *)
WeixinTypeOK ==
    /\ file \in Tokens \cup {NoToken}
    /\ {account, connected, raced} \subseteq BOOLEAN
    /\ client \in Tokens \cup {NoToken}
    /\ ctx \in Contexts /\ cancelledCtx \subseteq Contexts
    /\ logins \in 0 .. MaxLogins
    /\ doing \in [Starters -> {"idle", "begin", "qr", "client", "connected",
                               "loginStop", "logoutStop", "loginWait", "logoutWait"}]
    /\ refreshes \in [Starters -> 0 .. MaxRefreshes]
    /\ commands \in 0 .. MaxLoginCommands
    /\ polling \in [Pollers -> {"none", "check", "get", "handle", "submit", "reply", "over"}]
    /\ pollCtx \in [Pollers -> Contexts]
    /\ buf \in [Pollers -> 0 .. MaxWritten]
    /\ pending \in [Pollers -> SUBSET Messages]
    /\ sent \in [Tokens -> 0 .. MaxWritten]
    /\ saver \in [Messages -> [at : {"none", "load", "write", "over"}, token : Tokens \cup {NoToken}]]
    /\ answers \in [Messages -> 0 .. MaxLogins + 1]

(* An account may be stored from an earlier time; its token is the first.  *)
WeixinInit ==
    /\ file \in {NoToken} \cup (Tokens \cap {1})
    /\ logins = file
    /\ account = FALSE
    /\ client = NoToken
    /\ connected = FALSE
    /\ ctx = 0 /\ cancelledCtx = {}
    /\ doing = [s \in Starters |-> IF s = "start" THEN "begin" ELSE "idle"]
    /\ refreshes = [s \in Starters |-> 0]
    /\ commands = 0
    /\ polling = [p \in Pollers |-> "none"]
    /\ pollCtx = [p \in Pollers |-> 0]
    /\ buf = [p \in Pollers |-> 0]
    /\ pending = [p \in Pollers |-> {}]
    /\ sent = [t \in Tokens |-> 0]
    /\ saver = [m \in Messages |-> [at |-> "none", token |-> NoToken]]
    /\ answers = [m \in Messages |-> 0]
    /\ raced = FALSE

Live(p) == polling[p] \notin {"none", "over"}
DoNext(s, what) == doing' = [doing EXCEPT ![s] = what]

-----------------------------------------------------------------------------
(***************************************************************************)
(* Start, startLogin and startPolling.                                     *)
(***************************************************************************)

Start ==
    /\ doing["start"] = "begin"
    /\ account' = (file # NoToken)
    /\ client' = IF file # NoToken THEN file ELSE client
    /\ ctx' = StartContext
    /\ DoNext("start", IF file # NoToken THEN "client" ELSE "qr")
    /\ UNCHANGED <<file, connected, cancelledCtx, loginVars, commands, pollVars, messageVars, raced>>

(* LoginWithQR: no code, too many expired ones, no bot, or the time is up. *)
LoginFails(s) ==
    /\ doing[s] = "qr"
    /\ DoNext(s, "idle")
    /\ refreshes' = [refreshes EXCEPT ![s] = 0]
    /\ UNCHANGED <<accountVars, client, connected, contextVars, logins, commands, pollVars,
                   messageVars, raced>>

CodeExpires(s) ==
    /\ doing[s] = "qr"
    /\ refreshes[s] < MaxRefreshes
    /\ refreshes' = [refreshes EXCEPT ![s] = @ + 1]
    /\ UNCHANGED <<accountVars, client, connected, contextVars, logins, doing, commands,
                   pollVars, messageVars, raced>>

(* The account is stored; then there is a client for it.  The token is the *)
(* newest that was given out.                                              *)
LoginConfirmed(s) ==
    /\ doing[s] = "qr"
    /\ logins < MaxLogins
    /\ logins' = logins + 1
    /\ file' = logins + 1
    /\ account' = TRUE
    /\ client' = logins + 1
    /\ refreshes' = [refreshes EXCEPT ![s] = 0]
    /\ DoNext(s, "client")
    /\ UNCHANGED <<connected, contextVars, commands, pollVars, messageVars, raced>>

SetConnected(s) ==
    /\ doing[s] = "client"
    /\ connected' = TRUE
    /\ DoNext(s, "connected")
    /\ UNCHANGED <<accountVars, client, contextVars, loginVars, commands, pollVars, messageVars,
                   raced>>

StartPolling(s) ==
    /\ doing[s] = "connected"
    /\ \E p \in Pollers :
           /\ polling[p] = "none" /\ \A q \in Pollers : q < p => polling[q] # "none"
           /\ polling' = [polling EXCEPT ![p] = "check"]
    /\ DoNext(s, "idle")
    /\ UNCHANGED <<accountVars, client, connected, contextVars, loginVars, commands, pollCtx, buf,
                   pending, messageVars, raced>>

-----------------------------------------------------------------------------
(***************************************************************************)
(* /weixin login and /weixin logout.                                       *)
(***************************************************************************)

NewCommand ==
    /\ doing["command"] = "idle"
    /\ commands < MaxLoginCommands
    /\ commands' = commands + 1
    /\ raced' = (raced \/ doing["start"] # "idle")

(* Login stops a channel that is connected, Logout any. *)
Command(stops, what) ==
    /\ NewCommand
    /\ cancelledCtx' = IF stops THEN cancelledCtx \cup {ctx} ELSE cancelledCtx
    /\ DoNext("command", what)
    /\ UNCHANGED <<accountVars, client, connected, ctx, loginVars, pollVars, messageVars>>

Login == Command(connected, IF connected THEN "loginStop" ELSE "loginWait")
Logout == Command(TRUE, "logoutStop")

(* Variant: no loop is counted. *)
LoopsUncounted == TRUE

(* The wait group has counted each loop's end. *)
LoopsDone == \A p \in Pollers : ~Live(p)

Stopped(what, then) ==
    /\ doing["command"] = what
    /\ LoopsDone
    /\ connected' = FALSE
    /\ DoNext("command", then)
    /\ UNCHANGED <<accountVars, client, contextVars, loginVars, commands, pollVars, messageVars,
                   raced>>

(* DeleteAccount and a fresh context. *)
Forget ==
    /\ file' = IF account THEN NoToken ELSE file
    /\ account' = FALSE
    /\ ctx' = commands

LoginStopped == Stopped("loginStop", "loginWait")
LogoutStopped == Stopped("logoutStop", "logoutWait")

StartLogin ==
    /\ doing["command"] = "loginWait"
    /\ LoopsDone
    /\ Forget
    /\ DoNext("command", "qr")
    /\ UNCHANGED <<client, connected, cancelledCtx, loginVars, commands, pollVars, messageVars, raced>>

LogoutEnds ==
    /\ doing["command"] = "logoutWait"
    /\ LoopsDone
    /\ Forget
    /\ connected' = FALSE
    /\ DoNext("command", "idle")
    /\ UNCHANGED <<client, cancelledCtx, loginVars, commands, pollVars, messageVars, raced>>

-----------------------------------------------------------------------------
(***************************************************************************)
(* The poll loop.  It asks for ch.ctx and ch.client each time around.      *)
(***************************************************************************)

(* A user writes to the bot, as it is known since its last login. *)
UserWrites ==
    /\ logins > 0
    /\ sent[logins] < MaxWritten
    /\ sent' = [sent EXCEPT ![logins] = @ + 1]
    /\ UNCHANGED <<accountVars, client, connected, contextVars, loginVars, doing, commands, pollVars,
                   saver, answers, raced>>

PollGoesTo(p, what) == polling' = [polling EXCEPT ![p] = what]

(* Variant: the loop goes on without asking whether it is to end. *)
CheckStopNever(p) ==
    /\ polling[p] = "check"
    /\ PollGoesTo(p, "get")
    /\ pollCtx' = [pollCtx EXCEPT ![p] = ctx]
    /\ UNCHANGED <<accountVars, client, connected, contextVars, loginVars, doing, commands, buf,
                   pending, messageVars, raced>>

CheckStop(p) ==
    /\ polling[p] = "check"
    /\ PollGoesTo(p, IF ctx \in cancelledCtx THEN "over" ELSE "get")
    /\ pollCtx' = [pollCtx EXCEPT ![p] = ctx]
    /\ UNCHANGED <<accountVars, client, connected, contextVars, loginVars, doing, commands, buf,
                   pending, messageVars, raced>>

(* A timeout, an error or a cancelled context: again from the same place. *)
GetNothing(p) ==
    /\ polling[p] = "get"
    /\ PollGoesTo(p, "check")
    /\ UNCHANGED <<accountVars, client, connected, contextVars, loginVars, doing, commands, pollCtx,
                   buf, pending, messageVars, raced>>

GetUpdates(p) ==
    /\ polling[p] = "get"
    /\ pollCtx[p] \notin cancelledCtx
    /\ sent[client] > buf[p]
    /\ pending' = [pending EXCEPT ![p] = [token : {client}, place : buf[p] + 1 .. sent[client]]]
    /\ buf' = [buf EXCEPT ![p] = sent[client]]
    /\ PollGoesTo(p, "handle")
    /\ UNCHANGED <<accountVars, client, connected, contextVars, loginVars, doing, commands, pollCtx,
                   messageVars, raced>>

First(p) == CHOOSE m \in pending[p] : \A n \in pending[p] : m.place <= n.place
Busy == \E p \in Pollers : polling[p] = "submit"

(* handleMessage up to the submission; a busy agent's message is dropped.  *)
HandleMessage(p) ==
    /\ polling[p] = "handle"
    /\ saver' = [saver EXCEPT ![First(p)].at = IF @ = "none" THEN "load" ELSE @]
    /\ PollGoesTo(p, IF ~Busy THEN "submit" ELSE IF Cardinality(pending[p]) = 1 THEN "check" ELSE "handle")
    /\ pending' = [pending EXCEPT ![p] = IF Busy THEN @ \ {First(p)} ELSE @]
    /\ pollCtx' = [pollCtx EXCEPT ![p] = ctx]
    /\ UNCHANGED <<accountVars, client, connected, contextVars, loginVars, doing, commands, buf, sent,
                   answers, raced>>

(* With an answer, or with an error that is answered too. *)
SubmitReturns(p) ==
    /\ polling[p] = "submit"
    /\ PollGoesTo(p, "reply")
    /\ UNCHANGED <<accountVars, client, connected, contextVars, loginVars, doing, commands, pollCtx,
                   buf, pending, messageVars, raced>>

(* The reply has the token of its own message; that it failed is only logged. *)
SendMessage(p) ==
    LET m == First(p)
    IN  /\ polling[p] = "reply"
        /\ answers' = IF pollCtx[p] \in cancelledCtx THEN answers ELSE [answers EXCEPT ![m] = @ + 1]
        /\ pending' = [pending EXCEPT ![p] = @ \ {First(p)}]
        /\ PollGoesTo(p, IF Cardinality(pending[p]) = 1 THEN "check" ELSE "handle")
        /\ UNCHANGED <<accountVars, client, connected, contextVars, loginVars, doing, commands,
                       pollCtx, buf, sent, saver, raced>>

(* SaveChatUserID: the account is loaded, changed and written back. *)
SaveLoads(m) ==
    /\ saver[m].at = "load"
    /\ saver' = [saver EXCEPT ![m] = IF account /\ file # NoToken THEN [at |-> "write", token |-> file]
                                     ELSE [@ EXCEPT !.at = "over"]]
    /\ UNCHANGED <<accountVars, client, connected, contextVars, loginVars, doing, commands, pollVars,
                   sent, answers, raced>>

SaveWrites(m) ==
    /\ saver[m].at = "write"
    /\ file' = saver[m].token
    /\ saver' = [saver EXCEPT ![m].at = "over"]
    /\ UNCHANGED <<account, client, connected, contextVars, loginVars, doing, commands, pollVars,
                   sent, answers, raced>>

-----------------------------------------------------------------------------

PollStep(p) ==
    \/ CheckStop(p) \/ GetNothing(p) \/ GetUpdates(p)
    \/ HandleMessage(p) \/ SubmitReturns(p) \/ SendMessage(p)

CommandStep ==
    \/ LoginStopped \/ LogoutStopped \/ StartLogin \/ LogoutEnds

WeixinNext ==
    \/ Start
    \/ \E s \in Starters : LoginFails(s) \/ CodeExpires(s) \/ LoginConfirmed(s)
                           \/ SetConnected(s) \/ StartPolling(s)
    \/ Login \/ Logout \/ CommandStep
    \/ UserWrites
    \/ \E p \in Pollers : PollStep(p)
    \/ \E m \in Messages : SaveLoads(m) \/ SaveWrites(m)

(* Polls time out, a cancelled run of the agent returns, commands go on.   *)
WeixinFairness ==
    /\ \A p \in Pollers : WF_weixinVars(PollStep(p))
    /\ WF_weixinVars(CommandStep)

WeixinSpec == WeixinInit /\ [][WeixinNext]_weixinVars /\ WeixinFairness

-----------------------------------------------------------------------------
(***************************************************************************)
(* Properties.                                                             *)
(***************************************************************************)

Settled == doing = [s \in Starters |-> "idle"]

(* Unless a command came while Start's login waited, loops do not outlive   *)
(* what ended them: a channel that says it is not connected polls no more, *)
(* although a loop that outlived its Stop would find a fresh context       *)
(* (weixin.go:254, 343, 366), and no message is answered twice, since the  *)
(* place moves on before the messages are handled (weixin.go:177).         *)
PollsAlone ==
    ~raced => /\ (Settled /\ ~connected => \A p \in Pollers : ~Live(p))
              /\ \A m \in Messages : answers[m] <= 1

Stopping == {"loginStop", "logoutStop", "loginWait", "logoutWait"}

(* A command that stops the channel comes through to the login or to its    *)
(* end, although it waits for the loops, unless it came while Start was at  *)
(* work: Start gives the loop it begins a context that the command has not *)
(* cancelled (weixin.go:69, 255, 334, 352).                                *)
StopEnds == doing["command"] \in Stopping ~> (doing["command"] \notin Stopping \/ raced)

=============================================================================
