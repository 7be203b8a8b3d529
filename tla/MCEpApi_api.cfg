SPECIFICATION ApiSpec
CONSTANTS
    person = person
    order = order
    old = old
    new = new
    Null = Null
    Thread = {t1, t2}
    Name = {person, order}
    odd = odd
    Schema = {old, new, odd}
    Raising = {odd}
    Defines <- MCDefines
INVARIANTS AnswersByItsDefs
CHECK_DEADLOCK FALSE
