------------------------------ MODULE MsgBuffer ------------------------------
(***************************************************************************)
(* The message buffer protocol (spec 4.3) and the two loopback extensions *)
(* that use it.                                                            *)
(*                                                                         *)
(* send_data_go: OnCmd allocates a data "data", locks it, copies "hello    *)
(* world" into the view, unlocks it and sends it; it sends "data2" with   *)
(* the property test_key; then it answers the command. OnData checks the  *)
(* property of "data2", or checks the payload of "data" read by GetBuf    *)
(* (a copy, which it then zeroes) and again by LockBuf/UnlockBuf.         *)
(*                                                                         *)
(* send_video_frame_go: OnCmd stores the command in ext.cachedCmd and     *)
(* sends a 320x240 RGBA frame filled with the pattern i % 256. OnVideoFrame *)
(* checks the frame's fields and its payload by GetBuf (zeroing the copy) *)
(* and by LockBuf, then answers ext.cachedCmd.                            *)
(*                                                                         *)
(* Handlers run on their extension's thread, one at a time, so each is one *)
(* step. Both messages loop back to the extension that sent them. Payload *)
(* bytes are abstracted to what the checks tell apart.                     *)
(***************************************************************************)
EXTENDS MsgProps

CONSTANTS
    DataCmds,       \* the commands the send_data_go client sends
    VideoCmds,      \* the commands the send_video_frame_go client sends
    VideoPipelined, \* whether the video client sends before the last answer
    Nil

ASSUME Nil \notin VideoCmds

\* The native payloads: a fresh buffer, "hello world", the pattern i % 256,
\* and all zeros (what a receiver writes into the slice GetBuf gave it).
Payloads == {"fresh", "hello", "pattern", "zero"}

DataMsgs == {<<n, k>> : n \in {"data", "data2"}, k \in DataCmds}

Frames == {<<"video_frame", k>> : k \in VideoCmds}

Msgs == DataMsgs \cup Frames

VARIABLES
    dcmd,       \* dcmd[k]: a send_data_go command: "queued", "answered"
    vcmd,       \* vcmd[k]: a video command: "unsent", "queued", "handled", "answered"
    cachedCmd,  \* ext.cachedCmd of send_video_frame_go
    msg,        \* msg[m]: [st, buf, props, meta] of a data or a frame
    panicked

vars == <<dcmd, vcmd, cachedCmd, msg, panicked>>

-----------------------------------------------------------------------------
(* The native buffer of a message (spec 4.3): allocate, lock for an       *)
(* exclusive view, unlock to commit the view; locking twice or unlocking  *)
(* an unlocked buffer is a BufferStateError. GetBuf returns a copy.       *)

NoBuf == [alloc |-> FALSE, bytes |-> "fresh", locked |-> FALSE]

AllocBuf(b) == [b EXCEPT !.alloc = TRUE, !.bytes = "fresh"]

LockBuf(b) ==
    IF b.alloc /\ ~b.locked
      THEN [err |-> "ok", buf |-> [b EXCEPT !.locked = TRUE], view |-> b.bytes]
      ELSE [err |-> "BufferStateError", buf |-> b, view |-> "fresh"]

UnlockBuf(b, view) ==
    IF b.locked
      THEN [err |-> "ok", buf |-> [b EXCEPT !.locked = FALSE, !.bytes = view]]
      ELSE [err |-> "BufferStateError", buf |-> b]

\* convertCByteArrayToGoSlice: unsafe.Slice over the native bytes. The Go
\* slice aliases native memory: a write through it is a write to the buffer.
ConvertCByteArrayToGoSlice(b) == [alias |-> TRUE, bytes |-> b.bytes]

\* copy into a fresh Go slice: later writes stay on the Go side.
CopySlice(s) == [alias |-> FALSE, bytes |-> s.bytes]

NoSlice == [alias |-> FALSE, bytes |-> "fresh"]

\* A plausible bug: GetBuf returns the native view without copying it.
GetBufNoCopy(b) ==
    IF b.alloc THEN [err |-> "ok", view |-> ConvertCByteArrayToGoSlice(b)]
    ELSE [err |-> "BufferStateError", view |-> NoSlice]

\* GetBuf on the receive path: a copy of the native bytes (spec 4.3).
GetBuf(b) ==
    IF b.alloc THEN [err |-> "ok", view |-> CopySlice(ConvertCByteArrayToGoSlice(b))]
    ELSE [err |-> "BufferStateError", view |-> NoSlice]

\* `for i := range buf { buf[i] = 0 }` on the slice s that GetBuf returned:
\* the native buffer b afterwards.
ZeroSlice(b, s) == IF s.alias THEN [b EXCEPT !.bytes = "zero"] ELSE b

-----------------------------------------------------------------------------
NoMsg == [st |-> "unsent", buf |-> NoBuf, props |-> NoProps, meta |-> "none"]

\* The frame fields OnCmd sets and OnVideoFrame checks.
FrameMeta == [width |-> 320, height |-> 240, fmt |-> "RGBA", eof |-> FALSE]

Init ==
    /\ dcmd = [k \in DataCmds |-> "queued"]
    /\ vcmd = [k \in VideoCmds |-> "unsent"]
    /\ cachedCmd = Nil
    /\ msg = [m \in Msgs |-> NoMsg]
    /\ panicked = FALSE

\* A plausible bug: the view is unlocked before the payload is copied in.
FillDataUnlockFirst(b) ==
    LET l == LockBuf(AllocBuf(b))
        u == UnlockBuf(l.buf, l.view)
    IN [err |-> IF l.err = "ok" THEN u.err ELSE l.err, buf |-> u.buf]

\* AllocBuf(len), LockBuf, copy(buf, "hello world"), UnlockBuf(&buf).
FillData(b) ==
    LET l == LockBuf(AllocBuf(b))
        u == UnlockBuf(l.buf, "hello")
    IN [err |-> IF l.err = "ok" THEN u.err ELSE l.err, buf |-> u.buf]

\* A plausible bug: test_key is stored as a byte buffer, not a string.
DataOnCmdBytesKey(k) ==
    LET f == FillData(NoBuf) IN
    /\ dcmd[k] = "queued"
    /\ dcmd' = [dcmd EXCEPT ![k] = "answered"]
    /\ msg' = [msg EXCEPT
                 ![<<"data", k>>] = [NoMsg EXCEPT !.st = "inflight", !.buf = f.buf],
                 ![<<"data2", k>>] = [NoMsg EXCEPT !.st = "inflight",
                     !.props = SetProperty(NoProps, "test_key", "buf", "test_value")]]
    /\ panicked' = (f.err # "ok")
    /\ UNCHANGED <<vcmd, cachedCmd>>

(* send_data_go OnCmd: "data" with the filled buffer and "data2" with     *)
(* test_key are sent (SendData with no callback); then ReturnResult. Every *)
(* failing step panics.                                                   *)
DataOnCmd(k) ==
    LET f == FillData(NoBuf) IN
    /\ dcmd[k] = "queued"
    /\ dcmd' = [dcmd EXCEPT ![k] = "answered"]
    /\ msg' = [msg EXCEPT
                 ![<<"data", k>>] = [NoMsg EXCEPT !.st = "inflight", !.buf = f.buf],
                 ![<<"data2", k>>] = [NoMsg EXCEPT !.st = "inflight",
                     !.props = SetProperty(NoProps, "test_key", "string", "test_value")]]
    /\ panicked' = (f.err # "ok")
    /\ UNCHANGED <<vcmd, cachedCmd>>

(* send_data_go OnData. "data2": GetPropertyString("test_key") must give   *)
(* "test_value". Otherwise GetBuf must read "hello world"; the slice is    *)
(* zeroed; LockBuf must again read "hello world"; UnlockBuf commits it.   *)
OnData(m) ==
    LET prop == GetProperty(msg[m].props, "test_key", "string")
        g    == GetBuf(msg[m].buf)
        l    == LockBuf(ZeroSlice(msg[m].buf, g.view))
        u    == UnlockBuf(l.buf, l.view)
        ok   == IF m[1] = "data2"
                  THEN prop = [err |-> "ok", val |-> "test_value"]
                  ELSE /\ g.err = "ok" /\ g.view.bytes = "hello"
                       /\ l.err = "ok" /\ l.view = "hello"
                       /\ u.err = "ok"
    IN /\ msg[m].st = "inflight"
       /\ msg' = [msg EXCEPT ![m].st = "received",
                             ![m].buf = IF m[1] = "data2" THEN @ ELSE u.buf]
       /\ panicked' = ~ok
       /\ UNCHANGED <<dcmd, vcmd, cachedCmd>>

\* The video client sends its next command, at once or after the last answer.
VideoClientSend(k) ==
    /\ vcmd[k] = "unsent"
    /\ VideoPipelined \/ \A j \in VideoCmds : vcmd[j] \in {"unsent", "answered"}
    /\ vcmd' = [vcmd EXCEPT ![k] = "queued"]
    /\ UNCHANGED <<dcmd, cachedCmd, msg, panicked>>

\* A plausible bug: the frame is sent still locked (UnlockBuf forgotten).
FillFrameNoUnlock(b) ==
    LET l == LockBuf(AllocBuf(b)) IN [err |-> l.err, buf |-> [l.buf EXCEPT !.bytes = "pattern"]]

\* AllocBuf(320*240*4), LockBuf, buf[i] = byte(i % 256), UnlockBuf(&buf).
FillFrame(b) ==
    LET l == LockBuf(AllocBuf(b))
        u == UnlockBuf(l.buf, "pattern")
    IN [err |-> IF l.err = "ok" THEN u.err ELSE l.err, buf |-> u.buf]

\* A plausible bug: OnCmd does not cache the command.
CacheCmdNever(k) == cachedCmd

\* ext.cachedCmd = cmd.
CacheCmd(k) == k

(* send_video_frame_go OnCmd: caches the command, sets the frame fields    *)
(* and its timestamp, fills the buffer and sends the frame (no callback). *)
VideoOnCmd(k) ==
    LET f == FillFrame(NoBuf) IN
    /\ vcmd[k] = "queued"
    /\ vcmd' = [vcmd EXCEPT ![k] = "handled"]
    /\ cachedCmd' = CacheCmd(k)
    /\ msg' = [msg EXCEPT ![<<"video_frame", k>>] =
                  [NoMsg EXCEPT !.st = "inflight", !.buf = f.buf, !.meta = FrameMeta]]
    /\ panicked' = (f.err # "ok")
    /\ UNCHANGED dcmd

(* OnVideoFrame: the fields must match; GetBuf must read the pattern (the *)
(* slice is then zeroed); LockBuf must read it again, UnlockBuf commits it;*)
(* cachedCmd must be set and ReturnResult on it must succeed, which the   *)
(* core allows only for a command without a result yet.                   *)
OnVideoFrame(f) ==
    LET g  == GetBuf(msg[f].buf)
        l  == LockBuf(ZeroSlice(msg[f].buf, g.view))
        u  == UnlockBuf(l.buf, l.view)
        ok == /\ msg[f].meta = FrameMeta
              /\ g.err = "ok" /\ g.view.bytes = "pattern"
              /\ l.err = "ok" /\ l.view = "pattern" /\ u.err = "ok"
              /\ cachedCmd # Nil
              /\ vcmd[cachedCmd] = "handled"
    IN /\ msg[f].st = "inflight"
       /\ msg' = [msg EXCEPT ![f].st = "received", ![f].buf = IF l.err = "ok" THEN u.buf ELSE @]
       /\ vcmd' = IF ok THEN [vcmd EXCEPT ![cachedCmd] = "answered"] ELSE vcmd
       /\ panicked' = ~ok
       /\ UNCHANGED <<dcmd, cachedCmd>>

Done ==
    /\ \A k \in DataCmds : dcmd[k] = "answered"
    /\ \A k \in VideoCmds : vcmd[k] = "answered"
    /\ \A m \in Msgs : msg[m].st = "received"

Next ==
    \/ /\ ~panicked
       /\ \/ \E k \in DataCmds : DataOnCmd(k)
          \/ \E m \in DataMsgs : OnData(m)
          \/ \E k \in VideoCmds : VideoClientSend(k) \/ VideoOnCmd(k)
          \/ \E f \in Frames : OnVideoFrame(f)
    \/ (panicked \/ Done) /\ UNCHANGED vars

\* The core delivers every message; the clients send all their commands.
Spec == Init /\ [][Next]_vars /\ WF_vars(~panicked /\ Next)

-----------------------------------------------------------------------------
TypeOK ==
    /\ dcmd \in [DataCmds -> {"queued", "answered"}]
    /\ vcmd \in [VideoCmds -> {"unsent", "queued", "handled", "answered"}]
    /\ cachedCmd \in VideoCmds \cup {Nil}
    /\ \A m \in Msgs : /\ msg[m].st \in {"unsent", "inflight", "received"}
                       /\ \A key \in DOMAIN msg[m].props : msg[m].props[key].kind = "string"
                       /\ msg[m].buf.bytes \in Payloads
                       /\ msg[m].buf.alloc \in BOOLEAN
    /\ panicked \in BOOLEAN

(* No handler reaches a panic: every lock, unlock and property read        *)
(* succeeds, every payload and field matches, and every ReturnResult on   *)
(* the cached command is accepted.                                        *)
NoPanic == ~panicked

(* Buffer round trip (spec 8): a sent message is never locked, and the     *)
(* native payload of every data and frame, in flight or received, is what  *)
(* its sender wrote before unlocking, though the receiver zeroed the slice *)
(* GetBuf gave it: convertCByteArrayToGoSlice aliases native memory, so    *)
(* only GetBuf's copy keeps that write away from the native buffer.        *)
PayloadIntact ==
    \A m \in Msgs : msg[m].st # "unsent" =>
        /\ ~msg[m].buf.locked
        /\ m[1] = "data" => msg[m].buf.bytes = "hello"
        /\ m[1] = "video_frame" => msg[m].buf.bytes = "pattern"

(* Every video command is eventually answered, by the frame its OnCmd sent. *)
VideoCmdsAnswered == <>(\A k \in VideoCmds : vcmd[k] = "answered")

=============================================================================
