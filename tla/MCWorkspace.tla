---------------------------- MODULE MCWorkspace ----------------------------
(* A session with a large text, an image and an entry that pages leave out;*)
(* and one in which a shell command printed nothing.                       *)
EXTENDS Workspace, FrameCodec

Stored(role, type, size, parent) ==
    [message |-> [n |-> 0, role |-> role,
                  parts |-> <<[type |-> type, call |-> None, size |-> size]>>, usage |-> None],
     parent |-> parent]

ALog == <<Stored("user", "text", 1, 0), Stored("assistant", "text", Inline + 1, 1),
          Stored("marker", "text", 1, 2), Stored("user", "image", 1, 3)>>

ShellLog == <<Stored("user", "text", 1, 0), Stored("bash", "text", 0, 1)>>
=============================================================================
