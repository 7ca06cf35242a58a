-------------------------- MODULE DirectoryAnswers --------------------------
(***************************************************************************)
(* What the session manager may be answered by a session directory, from   *)
(* the registrations that the directory lists when it is called.  This is  *)
(* all SessionManager assumes of it; SessionDirectoryProofs shows that the *)
(* process-local directory answers nothing else.                           *)
(***************************************************************************)
CONSTANTS
  Handle,            \* registration handles the directory can hand out
  NoHandle,          \* the empty handle
  DirectoryError,    \* failures a directory call can report
  ReplyCanBeLost     \* can the directory obey a call and its reply get lost?

\* An error may be reported although the call was obeyed.
LostReply == IF ReplyCanBeLost
               THEN DirectoryError \cap {"Timeout", "TransportError", "ProtocolError"}
               ELSE {}

DirectoryRegister(fresh, listed) ==
  {[reply |-> "ok", handle |-> h, listed |-> listed \cup {h}] : h \in fresh}
    \cup {[reply |-> e, handle |-> NoHandle, listed |-> listed \cup {h}] :
             e \in LostReply, h \in fresh}
    \cup {[reply |-> e, handle |-> NoHandle, listed |-> listed] : e \in DirectoryError}

DirectoryRelease(h, listed) ==
  {[reply |-> e, listed |-> listed \ {h}] :
      e \in IF h \in listed THEN {"ok"} \cup LostReply
                            ELSE {"SessionClosed"} \cap DirectoryError}
    \cup {[reply |-> e, listed |-> listed] : e \in DirectoryError \ {"SessionClosed"}}

DirectoryRefresh(h, listed) ==
  (IF h \in listed THEN {"ok"} ELSE {"SessionClosed"} \cap DirectoryError)
    \cup (DirectoryError \ {"SessionClosed"})
=============================================================================
