------------------------------ MODULE Streams ------------------------------
(***************************************************************************)
(* One turn's way from a provider's wire to a tool and back: a model       *)
(* streams text and tool calls in fragments, the client's processStream    *)
(* goroutine turns them into events on a buffered channel, the agent's     *)
(* stream loop collects them, executeTool runs the calls, and the next     *)
(* request carries the history (internal/model/openai, claude, ollama;     *)
(* the stream loop and executeTool of internal/agent/agent.go).  A         *)
(* submitted run asks for whole replies instead (Call), and shares the     *)
(* history with the streamed ones.                                         *)
(*                                                                         *)
(* A tool call's arguments are Frags fragments of JSON; a fragment is      *)
(* known by its call and its position.  Text is counted.  The server sends *)
(* what it likes in the order each protocol allows, may stop a call half   *)
(* way (a token limit), and may break the connection at any time.          *)
(***************************************************************************)
EXTENDS Naturals, Sequences, FiniteSets, SequencesExt

CONSTANTS
    Providers,      \* the clients: a subset of {"openai", "claude", "ollama"}
    NumCalls,       \* tool calls of a reply
    Frags,          \* fragments of a call's arguments
    EventCap,       \* capacity of the event channel (10)
    MaxText,        \* bound: text chunks of a reply
    MaxReplies      \* bound: replies of one run

ASSUME StreamsAssumption ==
    /\ Providers \subseteq {"openai", "claude", "ollama"}
    /\ NumCalls \in Nat /\ Frags \in Nat \ {0} /\ EventCap \in Nat \ {0}
    /\ {MaxText, MaxReplies} \subseteq Nat

VARIABLES
    kind,       \* the client in use
    reader,     \* processStream: "off", "reading", "closing", "closed"
    opened,     \* the calls the server has begun, in order
    written,    \* fragments of each call the server has written
    partial,    \* toolCalls of openai, currentToolUse of claude: call -> arguments
    texts,      \* text chunks sent so far
    toSend,     \* events processStream is about to send
    events,     \* the event channel
    agent,      \* the stream loop: "idle", "reading", "acting"
    toolUses,   \* the calls the agent collected
    ran,        \* history: the tools of this reply as they were executed
    history,    \* the agent's messages: <<"user">>, <<"assistant", calls>>, <<"tool", call>>
    request,    \* the messages of the last request as the provider gets them
    replies     \* replies so far

serverVars == <<opened, written, texts>>
streamsVars == <<kind, reader, serverVars, partial, toSend, events, agent, toolUses, ran,
                 history, request, replies>>

Calls == 1..NumCalls
Whole(c) == [f \in 1..Frags |-> <<c, f>>]

-----------------------------------------------------------------------------
(* buildRequest: claude leaves an assistant's calls out (convertMessage), ollama
   does too and sends a result as the user's words, openai sends all. *)
ClaudeMessage(msg) == IF msg[1] = "assistant" THEN <<"assistant", <<>>>> ELSE msg

OllamaMessage(msg) == IF msg[1] = "tool" THEN <<"user">> ELSE ClaudeMessage(msg)

Request(msgs) ==
    [i \in DOMAIN msgs |-> CASE kind = "openai" -> msgs[i]
                             [] kind = "claude" -> ClaudeMessage(msgs[i])
                             [] kind = "ollama" -> OllamaMessage(msgs[i])]

(* Stream: a request that fails ends the run; one that is accepted starts the
   goroutine. *)
OpenStream ==
    /\ agent = "idle" /\ reader \in {"off", "closed"} /\ replies < MaxReplies
    /\ request' = Request(history)
    /\ reader' = "reading" /\ agent' = "reading"
    /\ opened' = <<>> /\ written' = [c \in Calls |-> 0] /\ texts' = 0
    /\ partial' = <<>> /\ toSend' = <<>> /\ events' = <<>>
    /\ toolUses' = <<>> /\ ran' = <<>>
    /\ replies' = replies + 1
    /\ UNCHANGED <<kind, history>>

-----------------------------------------------------------------------------
(* processStream: a line of the wire at a time, while nothing waits to be sent *)

Scanning == reader = "reading" /\ toSend = <<>>

TextChunk ==
    /\ Scanning /\ texts < MaxText
    /\ texts' = texts + 1
    /\ toSend' = <<<<"text">>>>
    /\ UNCHANGED <<kind, reader, opened, written, partial, events, agent, toolUses, ran,
                   history, request, replies>>

(* The server begins a call.  Claude's blocks come one after the other. *)
CallBegins(c) ==
    /\ Scanning /\ kind # "ollama"
    /\ c = Len(opened) + 1
    /\ kind = "claude" => partial = <<>>
    /\ opened' = Append(opened, c)
    /\ partial' = Append(partial, [call |-> c, args |-> <<>>])
    /\ UNCHANGED <<kind, reader, written, texts, toSend, events, agent, toolUses, ran,
                   history, request, replies>>

(* A client that adds each fragment to the newest call, whatever its index. *)
FragmentOfNewest(i, c) == i = Len(partial)

(* toolCalls[tc.Index] of openai. *)
FragmentOf(i, c) == partial[i].call = c

(* A fragment of c's arguments: openai appends it to the call with its index,
   claude drops it (claude.go:354). *)
Fragment(c) ==
    /\ Scanning /\ c \in Range(opened) /\ written[c] < Frags
    /\ kind = "claude" => \E i \in DOMAIN partial : partial[i].call = c
    /\ written' = [written EXCEPT ![c] = @ + 1]
    /\ partial' = [i \in DOMAIN partial |->
                      IF kind = "openai" /\ FragmentOf(i, c)
                      THEN [partial[i] EXCEPT !.args = Append(@, <<c, written'[c]>>)]
                      ELSE partial[i]]
    /\ UNCHANGED <<kind, reader, opened, texts, toSend, events, agent, toolUses, ran,
                   history, request, replies>>

(* content_block_stop of claude: the current call is sent. *)
BlockStops ==
    /\ Scanning /\ kind = "claude" /\ partial # <<>>
    /\ toSend' = <<<<"tool", partial[1]>>>>
    /\ partial' = <<>>
    /\ UNCHANGED <<kind, reader, serverVars, events, agent, toolUses, ran, history,
                   request, replies>>

(* What each client sends after the reply's last line.  Openai, given the usage,
   sends its calls in the order of a map; given "[DONE]", no call. *)
OpenAIEnding ==
    {<<<<"complete">>>>, <<>>} \cup
        {[i \in DOMAIN order |-> <<"tool", partial[order[i]]>>] \o <<<<"complete">>>>
         : order \in SetToSeqs(DOMAIN partial)}

(* Claude completes when the connection ends, too; ollama only with a last line. *)
ClaudeEnding == {<<<<"complete">>>>}
OllamaEnding == {<<<<"complete">>>>, <<>>}

LastLine ==
    /\ Scanning
    /\ toSend' \in CASE kind = "openai" -> OpenAIEnding
                     [] kind = "claude" -> ClaudeEnding
                     [] kind = "ollama" -> OllamaEnding
    /\ reader' = "closing"
    /\ UNCHANGED <<kind, serverVars, partial, events, agent, toolUses, ran, history,
                   request, replies>>

(* events <- event: blocks while the channel is full. *)
SendEvent ==
    /\ toSend # <<>> /\ Len(events) < EventCap
    /\ events' = Append(events, Head(toSend))
    /\ toSend' = Tail(toSend)
    /\ UNCHANGED <<kind, reader, serverVars, partial, agent, toolUses, ran, history,
                   request, replies>>

CloseEvents ==
    /\ reader = "closing" /\ toSend = <<>>
    /\ reader' = "closed"
    /\ UNCHANGED <<kind, serverVars, partial, toSend, events, agent, toolUses, ran,
                   history, request, replies>>

-----------------------------------------------------------------------------
(* The agent *)

(* The stream loop ends with Complete or with the closed channel: the reply goes
   into the history, and a reply without calls ends the run. *)
ReplyEnds(uses) ==
    /\ agent' = IF uses = <<>> THEN "idle" ELSE "acting"
    /\ history' = IF uses = <<>> THEN <<<<"user">>>>
                  ELSE Append(history, <<"assistant", [i \in DOMAIN uses |-> uses[i].call]>>)

TakeEvent ==
    /\ agent = "reading" /\ events # <<>>
    /\ events' = Tail(events)
    /\ LET e == Head(events)
       IN  /\ toolUses' = IF e[1] = "tool" THEN Append(toolUses, e[2]) ELSE toolUses
           /\ IF e[1] = "complete" THEN ReplyEnds(toolUses)
              ELSE UNCHANGED <<agent, history>>
    /\ UNCHANGED <<kind, reader, serverVars, partial, toSend, ran, request, replies>>

TakeClosed ==
    /\ agent = "reading" /\ events = <<>> /\ reader = "closed"
    /\ ReplyEnds(toolUses)
    /\ UNCHANGED <<kind, reader, serverVars, partial, toSend, events, toolUses, ran,
                   request, replies>>

(* The arguments a tool is executed with: NormalizeParams and the permission
   check run on the unparsed text of openai's calls; toolDetail then parses it,
   and what does not parse is gone (agent.go:457).  The fragments of a call parse
   when they are all there, whichever tool they are given to. *)
Parsed(use) == IF \E c \in Calls : use.args = Whole(c) THEN use.args ELSE <<>>

(* executeTool on the next call; its result, error or refusal is a message. *)
ExecuteTool ==
    /\ agent = "acting"
    /\ LET use == toolUses[Len(ran) + 1]
       IN  /\ ran' = Append(ran, [call |-> use.call, args |-> Parsed(use)])
           /\ history' = Append(history, <<"tool", use.call>>)
    /\ agent' = IF Len(ran') = Len(toolUses) THEN "idle" ELSE "acting"
    /\ UNCHANGED <<kind, reader, serverVars, partial, toSend, events, toolUses, request,
                   replies>>

-----------------------------------------------------------------------------
(* Call: replies that come whole.  Their calls may be cut short, as above. *)

(* toResponse: openai keeps what does not parse, claude loses it; ollama reads no
   calls. *)
OpenAIArguments(c) == {SubSeq(Whole(c), 1, n) : n \in 0..Frags}
ClaudeArguments(c) == {<<>>, Whole(c)}
OllamaCalls == {}

Arguments(c) == IF kind = "openai" THEN OpenAIArguments(c) ELSE ClaudeArguments(c)

(* The reply goes into the history as a streamed one does. *)
CallReplies ==
    /\ agent = "idle" /\ reader \in {"off", "closed"} /\ replies < MaxReplies
    /\ request' = Request(history)
    /\ \E n \in {0} \cup (IF kind = "ollama" THEN OllamaCalls ELSE Calls),
         args \in [Calls -> UNION {Arguments(c) : c \in Calls}] :
           /\ \A c \in Calls : args[c] \in Arguments(c)
           /\ opened' = [c \in 1..n |-> c]
           /\ written' = [c \in Calls |-> IF c <= n THEN Len(args[c]) ELSE 0]
           /\ toolUses' = [c \in 1..n |-> [call |-> c, args |-> args[c]]]
    /\ ReplyEnds(toolUses')
    /\ partial' = <<>> /\ toSend' = <<>> /\ events' = <<>> /\ texts' = 0 /\ ran' = <<>>
    /\ replies' = replies + 1
    /\ UNCHANGED <<kind, reader>>

-----------------------------------------------------------------------------
StreamsInit ==
    /\ kind \in Providers
    /\ reader = "off" /\ agent = "idle"
    /\ opened = <<>> /\ written = [c \in Calls |-> 0] /\ texts = 0
    /\ partial = <<>> /\ toSend = <<>> /\ events = <<>>
    /\ toolUses = <<>> /\ ran = <<>>
    /\ history = <<<<"user">>>> /\ request = <<>> /\ replies = 0

StreamsNext ==
    \/ OpenStream \/ CallReplies \/ TextChunk \/ BlockStops \/ LastLine \/ SendEvent \/ CloseEvents
    \/ TakeEvent \/ TakeClosed \/ ExecuteTool
    \/ \E c \in Calls : CallBegins(c) \/ Fragment(c)

StreamsSpec == StreamsInit /\ [][StreamsNext]_streamsVars

-----------------------------------------------------------------------------
(* Types of the variables; the channel respects its capacity. *)
StreamsTypeOK ==
    /\ kind \in Providers
    /\ reader \in {"off", "reading", "closing", "closed"}
    /\ agent \in {"idle", "reading", "acting"}
    /\ Range(opened) \subseteq Calls /\ texts \in 0..MaxText
    /\ written \in [Calls -> 0..Frags]
    /\ Len(events) <= EventCap /\ Len(ran) <= Len(toolUses)
    /\ replies \in 0..MaxReplies

(* processStream and executeTool (openai.go:424, agent.go:456): a tool is
   executed with exactly the arguments the model wrote for that call, however
   the calls' fragments were interleaved and wherever the stream ended, or, when
   they did not arrive whole, with none; and no call is executed twice. *)
RunsOwnArguments ==
    /\ \A i \in DOMAIN ran : ran[i].args \in {<<>>, Whole(ran[i].call)}
    /\ \A i, j \in DOMAIN ran : ran[i].call = ran[j].call => i = j

=============================================================================
