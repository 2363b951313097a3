SPECIFICATION MailSpec
CONSTANTS
    b1 = b1
    b2 = b2
    r1 = r1
    r2 = r2
    r3 = r3
    Mailboxes = {b1, b2}
    Messages = {m1, m2, m3}
    Bodies = {x, y}
    Readers = {r1, r2, r3}
    MailboxOf <- MCMailboxOf
    MailPage = 1
    NoMessage = NoMessage
SYMMETRY Symmetry
INVARIANT NoMailLost
