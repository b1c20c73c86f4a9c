SPECIFICATION Spec
CONSTANTS
    Entity = {e1, e2}
    Setting = {e1}
    Modal = {e2}
    Command = {k1}
    Value = {v1, v2}
    Model = {m1}
    None = None
    Unusable = Unusable
INVARIANTS
    TypeOK
    ShownIsTrue
    NothingOutlives
    NoticeIsTrue
PROPERTIES
    NoticeStands
