------------------------------- MODULE UiChat -------------------------------
(***************************************************************************)
(* The chats of bzy-ui (src/store/chat.ts, hooks/useChat.ts, the pages     *)
(* around them): a store with the chats of the page, and calls of send     *)
(* that read an answer, piece by piece, into the store.                    *)
(*                                                                         *)
(* The page shows one chat at a time with one useChat hook, whose calls    *)
(* go on when another chat is shown.  An answer is the send it belongs to  *)
(* and how many pieces of it there are; a piece without text adds none.    *)
(***************************************************************************)
EXTENDS Naturals, Sequences, SequencesExt

CONSTANTS
  Chats,      \* bound: ids of chats, each made once
  Sends,      \* bound: calls of send, each made once
  Nothing,    \* null
  MaxPieces   \* bound: pieces with text of an answer

ASSUME ChatAssumption == Nothing \notin Chats \cup Sends /\ MaxPieces \in Nat

VARIABLES
  sessions,   \* ids of the chats in the store, in order
  chatsMade,  \* ids that were used
  activeId,
  messages,   \* of each chat: questions and answers
  streaming,
  content,    \* streamingContent
  abortRef,   \* the hook's, as the send whose controller it holds
  aborted,    \* sends whose controller was aborted
  sendAt,     \* where each send is
  chatOf,     \* its sessionId
  pieces,     \* accumulated
  alone       \* it was the only send of its chat under way

chatVars == <<sessions, chatsMade, activeId, messages, streaming, content,
              abortRef, aborted, sendAt, chatOf, pieces, alone>>

Answers == [of : Sends, pieces : 0..MaxPieces]
Question(x) == [of |-> x, pieces |-> 0]
NoText == [of |-> Nothing, pieces |-> 0]

ChatTypeOK ==
  /\ sessions \in Seq(Chats) /\ activeId \in Chats \cup {Nothing}
  /\ chatsMade \subseteq Chats
  /\ \A s \in Chats : messages[s] \in Seq(Answers) /\ content[s] \in Answers \cup {NoText}
  /\ streaming \in [Chats -> BOOLEAN]
  /\ abortRef \in Sends \cup {Nothing} /\ aborted \subseteq Sends
  /\ sendAt \in [Sends -> {"none", "reading", "ended"}]
  /\ chatOf \in [Sends -> Chats \cup {Nothing}]
  /\ pieces \in [Sends -> 0..MaxPieces] /\ alone \in [Sends -> BOOLEAN]

ChatInit ==
  /\ sessions = <<>> /\ chatsMade = {} /\ activeId = Nothing
  /\ messages = [s \in Chats |-> <<>>]
  /\ streaming = [s \in Chats |-> FALSE] /\ content = [s \in Chats |-> NoText]
  /\ abortRef = Nothing /\ aborted = {}
  /\ sendAt = [x \in Sends |-> "none"] /\ chatOf = [x \in Sends |-> Nothing]
  /\ pieces = [x \in Sends |-> 0] /\ alone = [x \in Sends |-> TRUE]

InStore(s) == s \in ToSet(sessions)
Reading(x) == sendAt[x] = "reading"

sendVars == <<sendAt, chatOf, pieces, alone>>
storeVars == <<messages, streaming, content>>

-----------------------------------------------------------------------------
(* The page                                                                *)

NewSession(s) ==
  /\ s \notin chatsMade
  /\ chatsMade' = chatsMade \cup {s}
  /\ sessions' = Append(sessions, s) /\ activeId' = s
  /\ UNCHANGED <<storeVars, abortRef, aborted, sendVars>>

SetActive(s) ==
  /\ InStore(s)
  /\ activeId' = s
  /\ UNCHANGED <<sessions, chatsMade, storeVars, abortRef, aborted, sendVars>>

\* An id is in the store once.  Without a chat to show there is no hook.
RemoveSession(s) ==
  /\ \E i \in DOMAIN sessions : sessions[i] = s /\ sessions' = RemoveAt(sessions, i)
  /\ activeId' = IF activeId # s THEN activeId
                 ELSE IF sessions' = <<>> THEN Nothing ELSE sessions'[1]
  /\ abortRef' = IF sessions' = <<>> THEN Nothing ELSE abortRef
  /\ messages' = [messages EXCEPT ![s] = <<>>]
  /\ streaming' = [streaming EXCEPT ![s] = FALSE] /\ content' = [content EXCEPT ![s] = NoText]
  /\ UNCHANGED <<chatsMade, aborted, sendVars>>

\* Another page, and back: the hook is a new one.
LeavePage ==
  /\ abortRef' = Nothing
  /\ UNCHANGED <<sessions, chatsMade, activeId, storeVars, aborted, sendVars>>

-----------------------------------------------------------------------------
(* useChat                                                                 *)

\* The input takes no Enter while the chat shown is streaming, which it is
\* from the first piece on.
Send(x) ==
  /\ sendAt[x] = "none" /\ activeId # Nothing /\ ~streaming[activeId]
  /\ LET others == {y \in Sends : Reading(y) /\ chatOf[y] = activeId} IN
       alone' = [y \in Sends |-> IF y = x THEN others = {} ELSE alone[y] /\ y \notin others]
  /\ sendAt' = [sendAt EXCEPT ![x] = "reading"]
  /\ chatOf' = [chatOf EXCEPT ![x] = activeId]
  /\ messages' = [messages EXCEPT ![activeId] = Append(@, Question(x))]
  /\ abortRef' = x
  /\ UNCHANGED <<sessions, chatsMade, activeId, streaming, content, aborted, pieces>>

\* setStreaming changes nothing for a chat that was removed.
SetStreaming(s, text) ==
  /\ streaming' = IF InStore(s) THEN [streaming EXCEPT ![s] = TRUE] ELSE streaming
  /\ content' = IF InStore(s) THEN [content EXCEPT ![s] = text] ELSE content

\* Variant for mutation: the piece goes to the chat that is shown.
PieceShown(x, n) ==
  /\ Reading(x) /\ x \notin aborted /\ activeId # Nothing
  /\ pieces[x] + n <= MaxPieces
  /\ pieces' = [pieces EXCEPT ![x] = @ + n]
  /\ SetStreaming(activeId, IF pieces'[x] = 0 THEN NoText ELSE [of |-> x, pieces |-> pieces'[x]])
  /\ UNCHANGED <<sessions, chatsMade, activeId, messages, abortRef, aborted, sendAt, chatOf, alone>>

\* A piece of the answer, with text or without.
Piece(x, n) ==
  /\ Reading(x) /\ x \notin aborted
  /\ pieces[x] + n <= MaxPieces
  /\ pieces' = [pieces EXCEPT ![x] = @ + n]
  /\ SetStreaming(chatOf[x], IF pieces'[x] = 0 THEN NoText ELSE [of |-> x, pieces |-> pieces'[x]])
  /\ UNCHANGED <<sessions, chatsMade, activeId, messages, abortRef, aborted, sendAt, chatOf, alone>>

\* Variant for mutation: what was streamed stays for the next answer.
FinalizeKeeps(s) ==
  IF InStore(s) /\ content[s] # NoText
    THEN /\ messages' = [messages EXCEPT ![s] = Append(@, content[s])]
         /\ streaming' = [streaming EXCEPT ![s] = FALSE]
         /\ UNCHANGED content
    ELSE UNCHANGED storeVars

\* What was streamed becomes a message.  Without text nothing happens: a chat
\* that got empty pieces only goes on streaming.
FinalizeStream(s) ==
  IF InStore(s) /\ content[s] # NoText
    THEN /\ messages' = [messages EXCEPT ![s] = Append(@, content[s])]
         /\ streaming' = [streaming EXCEPT ![s] = FALSE]
         /\ content' = [content EXCEPT ![s] = NoText]
    ELSE UNCHANGED storeVars

\* The answer is done, the stream ends or breaks, or fetch is aborted.
EndsSend(x) ==
  /\ Reading(x)
  /\ sendAt' = [sendAt EXCEPT ![x] = "ended"]
  /\ FinalizeStream(chatOf[x])
  /\ UNCHANGED <<sessions, chatsMade, activeId, abortRef, aborted, chatOf, pieces, alone>>

\* The button, there while the chat shown is streaming.  It aborts the hook's
\* last send, of whichever chat.
Stop ==
  /\ activeId # Nothing /\ streaming[activeId]
  /\ aborted' = aborted \cup ({abortRef} \ {Nothing})
  /\ UNCHANGED <<sessions, chatsMade, activeId, storeVars, abortRef, sendVars>>

-----------------------------------------------------------------------------
ChatNext ==
  \/ \E s \in Chats : NewSession(s) \/ SetActive(s) \/ RemoveSession(s)
  \/ \E x \in Sends : Send(x) \/ EndsSend(x) \/ \E n \in 0..1 : Piece(x, n)
  \/ LeavePage \/ Stop

-----------------------------------------------------------------------------
(* Properties                                                              *)

Places(x, s) == {i \in DOMAIN messages[s] : messages[s][i].of = x /\ messages[s][i].pieces > 0}

\* The answer of a send that ended, if no other send of its chat ran meanwhile,
\* is in the chat once, whole as far as it was received, and after its
\* question, whatever went on in other chats.  No chat shows more of an answer
\* than was received, or that of another chat's question.  What is shown as
\* streaming when nothing is read any more has no text that could be lost
\* (useChat.ts send, chat.ts setStreaming, finalizeStream).
AnswersWhole ==
  /\ \A x \in Sends :
       sendAt[x] = "ended" /\ alone[x] /\ pieces[x] > 0 /\ InStore(chatOf[x]) =>
         LET m == messages[chatOf[x]] IN
         \E i \in DOMAIN m :
           /\ Places(x, chatOf[x]) = {i} /\ m[i].pieces = pieces[x]
           /\ \E j \in 1..(i - 1) : m[j] = Question(x)
  /\ \A s \in Chats : \A i \in DOMAIN messages[s] :
       chatOf[messages[s][i].of] = s /\ messages[s][i].pieces <= pieces[messages[s][i].of]
  /\ \A s \in ToSet(sessions) :
       (\A x \in Sends : Reading(x) => chatOf[x] # s) => content[s] = NoText
=============================================================================
