----------------------------- MODULE UserAccess -----------------------------
(***************************************************************************)
(* How the kernel touches user memory (kernel/uaccess.c): a range given by *)
(* a system call is compared with user space in words that wrap, then its  *)
(* pages are visited one by one, to be found readable or to be made        *)
(* writable (vm_prepare_user_write_page of kernel/vm.c, which makes lazy   *)
(* heap pages and resolves copy-on-write ones but writes to no page that   *)
(* is read-only to its program), before the bytes are copied.  Strings are *)
(* copied byte by byte, each checked on its own.                           *)
(***************************************************************************)
EXTENDS Integers

CONSTANTS WORD,            \* 2^32
          PAGE_SIZE,
          USER_SPACE_START, USER_SPACE_END,
          MaxString        \* the sizes of the buffers strings are copied to

Word == 0 .. WORD - 1
PageOf(a) == (a \div PAGE_SIZE) * PAGE_SIZE

UserByte == USER_SPACE_START .. USER_SPACE_END - 1
UserPage == {PageOf(a) : a \in UserByte}

VARIABLES
    pages,     \* what the tables say of every user page
    active,    \* the directory loaded is the current process's
    nul,       \* where the program's string has its NUL, 0 if it has none
    req,       \* the access under way
    page,      \* the page its loop is at
    copied,    \* the byte of the string it is at
    result

vars == <<pages, active, nul, req, page, copied, result>>

(***************************************************************************)
(* A page of the lazy heap may not be there yet; one that is there is the  *)
(* program's to write, shared with a relative until the first write, or    *)
(* read-only like the segments of a program's text.                        *)
(***************************************************************************)
PageState == {"none", "lazy", "readonly", "cow", "writable"}
Present   == {"readonly", "cow", "writable"}
Makeable  == {"lazy", "cow"}

(* Pages an access of this kind may copy from or to.                        *)
Touchable(kind) == IF kind = "write" THEN {"writable"} ELSE Present

(* Pages it may copy from or to once those that can be made are made.       *)
Servable(kind) == Touchable(kind) \cup (IF kind = "write" THEN Makeable ELSE {})

NoRequest == [kind |-> "none", address |-> 0, size |-> 0]

(***************************************************************************)
(* Any pages may be there; where the NUL is, only a string tells.          *)
(***************************************************************************)
Init ==
    /\ pages \in [UserPage -> PageState]
    /\ active \in BOOLEAN
    /\ nul = 0
    /\ req = NoRequest
    /\ page = 0
    /\ copied = 0
    /\ result = "none"

Plus(a, n) == (a + n) % WORD

RangeEndValid(address, size) ==
    Plus(address, size) >= address /\ Plus(address, size) <= USER_SPACE_END

uaccess_range_valid(address, size) ==
    IF size = 0 THEN address = 0 \/ address \in UserByte
    ELSE address \in UserByte /\ RangeEndValid(address, size)

(***************************************************************************)
(* uaccess_readable (a "read") and uaccess_prepare_write (a "write") up to *)
(* their loops.                                                            *)
(***************************************************************************)
Begin(kind, address, size) ==
    /\ result = "none"
    /\ req' = [kind |-> kind, address |-> address, size |-> size]
    /\ \/ /\ ~uaccess_range_valid(address, size)
          /\ result' = "EFAULT"
          /\ UNCHANGED page
       \/ /\ uaccess_range_valid(address, size)
          /\ size = 0
          /\ result' = "SUCCESS"
          /\ UNCHANGED page
       \/ /\ size # 0
          /\ ~active
          /\ result' = "EFAULT"
          /\ UNCHANGED page
       \/ /\ uaccess_range_valid(address, size)
          /\ size # 0
          /\ active
          /\ result' = "walking"
          /\ page' = PageOf(address)
    /\ UNCHANGED <<pages, active, nul, copied>>

LastPage == PageOf(Plus(req.address, req.size - 1))

Visit ==
    IF page = LastPage THEN result' = "SUCCESS" /\ UNCHANGED page
    ELSE page' = Plus(page, PAGE_SIZE) /\ UNCHANGED result

(***************************************************************************)
(* One round of the loop.  A read does not fault pages in; a write does,   *)
(* and keeps those it has made when a later one fails.  Only a page that   *)
(* must be made can run out of frames; a shared one whose relatives have   *)
(* gone needs none.                                                        *)
(***************************************************************************)
WalkPresentUnchecked ==
    /\ result = "walking"
    /\ pages[page] \in Present
    /\ req.kind = "write" => pages[page] # "cow"
    /\ Visit
    /\ UNCHANGED <<pages, active, nul, req, copied>>

WalkPresent ==
    /\ result = "walking"
    /\ pages[page] \in Touchable(req.kind)
    /\ Visit
    /\ UNCHANGED <<pages, active, nul, req, copied>>

WalkMakes ==
    /\ result = "walking"
    /\ req.kind = "write"
    /\ pages[page] \in Makeable
    /\ pages' = [pages EXCEPT ![page] = "writable"]
    /\ Visit
    /\ UNCHANGED <<active, nul, req, copied>>

WalkFails ==
    /\ result = "walking"
    /\ \/ pages[page] \in Servable(req.kind) \ Touchable(req.kind) /\ result' = "ENOMEM"
       \/ pages[page] \notin Servable(req.kind) /\ result' = "EFAULT"
    /\ UNCHANGED <<pages, active, nul, req, page, copied>>

(***************************************************************************)
(* copy_string_from_user.                                                  *)
(***************************************************************************)
BeginString(address, n) ==
    /\ result = "none"
    /\ req' = [kind |-> "string", address |-> address, size |-> MaxString]
    /\ nul' = n
    /\ result' = "copying"
    /\ UNCHANGED <<pages, active, page, copied>>

ReadableByte(a) == uaccess_range_valid(a, 1) /\ active /\ pages[PageOf(a)] \in Present

CopyByte ==
    LET a == Plus(req.address, copied)
    IN  /\ result = "copying"
        /\ copied < MaxString
        /\ \/ ~ReadableByte(a) /\ result' = "EFAULT" /\ UNCHANGED copied
           \/ ReadableByte(a) /\ a = nul /\ result' = "SUCCESS" /\ UNCHANGED copied
           \/ ReadableByte(a) /\ a # nul /\ copied' = copied + 1 /\ UNCHANGED result
        /\ UNCHANGED <<pages, active, nul, req, page>>

StringTooLong ==
    /\ result = "copying"
    /\ copied = MaxString
    /\ result' = "EFAULT"
    /\ UNCHANGED <<pages, active, nul, req, page, copied>>

Done == result \in {"SUCCESS", "EFAULT", "ENOMEM"} /\ UNCHANGED vars

Next ==
    \/ \E kind \in {"read", "write"}, address, size \in Word : Begin(kind, address, size)
    \/ WalkPresent
    \/ WalkMakes
    \/ WalkFails
    \/ \E address \in Word, n \in UserByte \cup {0} : BeginString(address, n)
    \/ CopyByte
    \/ StringTooLong
    \/ Done

Spec == Init /\ [][Next]_vars

-----------------------------------------------------------------------------
(* Properties *)

(* The loops over pages stay in user space and the copy of a string in its  *)
(* buffer.                                                                  *)
TypeOK ==
    /\ pages \in [UserPage -> PageState]
    /\ active \in BOOLEAN
    /\ nul \in Word
    /\ req \in [kind : {"none", "read", "write", "string"}, address : Word, size : Word]
    /\ page \in UserPage \cup {0}
    /\ copied \in 0 .. MaxString
    /\ result \in {"none", "walking", "copying", "SUCCESS", "EFAULT", "ENOMEM"}

(* The kernel copies only when every byte of the range, counted without     *)
(* wrapping, lies in user space and in a page that the program itself may   *)
(* read, or write if it is to be written, in the directory that is loaded,  *)
(* even for ranges that end at the last byte of user space or wrap around.  *)
(* A string that was copied ends at its NUL inside the buffer, and every    *)
(* byte of it was readable.                                                 *)
BytesOf(r) ==
    IF r.kind = "string" THEN r.address .. nul ELSE r.address .. r.address + r.size - 1

AccessSafe ==
    result = "SUCCESS" =>
        /\ \A a \in BytesOf(req) :
              a \in UserByte /\ active /\ pages[PageOf(a)] \in Touchable(req.kind)
        /\ req.kind = "string" => nul - req.address \in 0 .. MaxString - 1

(* And it refuses no range it could serve: with the program's directory     *)
(* loaded, EFAULT means a byte outside user space, or in a page that is not *)
(* there to be read, or neither writable nor to be made so for the program. *)
AccessComplete ==
    result = "EFAULT" /\ req.kind \in {"read", "write"} /\ req.size # 0 /\ active =>
        \E a \in BytesOf(req) :
            a \notin UserByte \/ pages[PageOf(a)] \notin Servable(req.kind)

=============================================================================
